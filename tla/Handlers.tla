-------------------------------- MODULE Handlers -------------------------------
(***************************************************************************)
(* One call of a read-only tool of internal/mcp/handlers.go and policy.go.  *)
(* A handler reads the cluster a part at a time, the cluster may change     *)
(* between two reads, and each read may fail: of some reads the handler     *)
(* returns the error, of others it drops it and leaves the part empty.      *)
(*                                                                          *)
(* A part of the cluster is <<resource, name>>; it holds a sequence, in the *)
(* order the API server lists it, and a single object is a sequence of one, *)
(* empty if there is none.  A log holds its bytes, each as the number of    *)
(* its line.                                                                *)
(***************************************************************************)
EXTENDS Policies, Redaction

CONSTANTS
    DefaultListLimit,   \* defaultListLimit
    MaxPods,            \* the largest limit of list_pods
    MaxResources,       \* the largest limit of list_resource
    ObjectEvents,       \* events get_pod asks for
    MaxTail,            \* the largest tail_lines
    MaxLogBytes,        \* maxBytes of handlePodLogs
    MaxReportResults,   \* maxReportResults
    Cases,              \* families of calls: arguments, the cluster when they
                        \* begin, and a bound on its changes during the call
    Holds               \* what a resource may change to, by resource

ASSUME LimitsAssumption ==
    /\ {DefaultListLimit, MaxPods, MaxResources, ObjectEvents} \subseteq Nat \ {0}
    /\ {MaxTail, MaxLogBytes, MaxReportResults} \subseteq Nat \ {0}
    /\ DefaultListLimit <= MaxPods /\ DefaultListLimit <= MaxResources

VARIABLES
    ask,       \* the tool and its arguments
    cluster,   \* what each part holds
    seen,      \* what each part has held since the call began
    changes,   \* changes the cluster may still make
    plan,      \* the reads to come
    got,       \* what was read: the items, and whether the server had more
    dropped,   \* the parts whose error was dropped
    phase      \* reading, redacting, answered or failed

callVars == <<ask, plan, got, dropped, phase>>
worldVars == <<cluster, seen, changes>>
vars == <<ask, cluster, seen, changes, plan, got, dropped, phase, redVars>>

CallTypeOK ==
    /\ DOMAIN seen = DOMAIN cluster
    /\ \A p \in DOMAIN cluster : cluster[p] \in seen[p]
    /\ changes \in Nat
    /\ DOMAIN got \subseteq DOMAIN cluster /\ dropped \subseteq DOMAIN got
    /\ phase \in {"reading", "redacting", "answered", "failed"}
    /\ RedTypeOK

--------------------------------------------------------------------------------
(* The reads of each handler.  A Get needs its object; a limit of 0 is none; *)
(* tries counts the versions of an API that are asked, one after the other.  *)

Read(r, get, must, limit, tries) ==
    [part |-> <<r, "">>, get |-> get, must |-> must, limit |-> limit, tries |-> tries]

Get(r) == Read(r, TRUE, TRUE, 0, 1)
List(r, limit) == Read(r, FALSE, TRUE, limit, 1)
Try(r, limit) == Read(r, FALSE, FALSE, limit, 1)

(* Faulty variant: a limit below 1 is passed on, and means none.             *)
FaultyLimit(asked, max) == IF asked > max THEN DefaultListLimit ELSE asked

(* A limit out of range is the default.                                      *)
Limit(asked, max) == IF asked < 1 \/ asked > max THEN DefaultListLimit ELSE asked

HandleListPods(a) == << List("pods", Limit(a.limit, MaxPods)) >>

(* objectEvents: as many as asked for, in the order of the server.           *)
PodEvents == Try("events", ObjectEvents)
HandleGetPod(a) == << Get("pod"), PodEvents >>

HandlePodLogs(a) == << List("log", IF a.limit > MaxTail THEN MaxTail ELSE a.limit) >>
HandleListEvents(a) == << List("events", DefaultListLimit) >>

(* Faulty variant: the error of the last list is dropped.                    *)
FaultyHandleListWorkloads(a) == << List("deployments", 0), List("statefulsets", 0), Try("daemonsets", 0) >>

HandleListWorkloads(a) == << List("deployments", 0), List("statefulsets", 0), List("daemonsets", 0) >>

(* The pods are read if the workload's selector can be used.                 *)
HandleGetWorkload(a) ==
    IF a.kind.name \in {"deployment", "statefulset", "daemonset"}
    THEN << Get(a.kind.name), Try("pods", 0) >>
    ELSE << >>

(* The endpoint slices of each service are read once the list is there.      *)
HandleListServices(a) == << List("services", 0) >>
EndpointCounts(svc) == [Try("slices", 0) EXCEPT !.part = <<"slices", svc>>]

HandleGetService(a) == << Get("service"), List("slices", 0) >>
HandleListRoutes(a) == << List("routes", 0) >>
HandleListPVCs(a) == << List("pvcs", 0) >>
HandleGetQuota(a) == << List("quotas", 0), List("limitranges", 0) >>
HandleTopPods(a) == << List("metrics", 0) >>
HandleListNodes(a) == << List("nodes", 0) >>
HandleGetNode(a) == << Get("node") >>
HandleGetResource(a) == << Get("object") >>
HandleListResource(a) == << List("items", Limit(a.limit, MaxResources)) >>
HandleListCertificates(a) == << List("secrets", 0) >>

(* The exceptions are asked for in v2 and, if that fails, in v2beta1.        *)
HandleListPolicies(a) ==
    << Get("namespace"), List("clusterpolicies", 0), Try("policies", 0),
       Read("exceptions", FALSE, FALSE, 0, 2) >>

HandleGetPolicyReport(a) == << List("reports", 0) >>

(* ListCustom is one read here; module Listing has its pages.  Teams that    *)
(* are not served are an error.                                              *)
HandleListTeams(a) == << List("teams", 0) >>

Tools == {"list_pods", "get_pod", "pod_logs", "list_events", "list_workloads", "get_workload",
          "list_services", "get_service", "list_routes", "list_pvcs", "get_quota", "top_pods",
          "list_nodes", "get_node", "get_resource", "list_resource", "list_certificates",
          "list_policies", "get_policy_report", "list_teams"}

(* The handler a tool is registered with.                                    *)
Handler(a) ==
    CASE a.tool = "list_pods" -> HandleListPods(a)
      [] a.tool = "get_pod" -> HandleGetPod(a)
      [] a.tool = "pod_logs" -> HandlePodLogs(a)
      [] a.tool = "list_events" -> HandleListEvents(a)
      [] a.tool = "list_workloads" -> HandleListWorkloads(a)
      [] a.tool = "get_workload" -> HandleGetWorkload(a)
      [] a.tool = "list_services" -> HandleListServices(a)
      [] a.tool = "get_service" -> HandleGetService(a)
      [] a.tool = "list_routes" -> HandleListRoutes(a)
      [] a.tool = "list_pvcs" -> HandleListPVCs(a)
      [] a.tool = "get_quota" -> HandleGetQuota(a)
      [] a.tool = "top_pods" -> HandleTopPods(a)
      [] a.tool = "list_nodes" -> HandleListNodes(a)
      [] a.tool = "get_node" -> HandleGetNode(a)
      [] a.tool = "get_resource" -> HandleGetResource(a)
      [] a.tool = "list_resource" -> HandleListResource(a)
      [] a.tool = "list_certificates" -> HandleListCertificates(a)
      [] a.tool = "list_policies" -> HandleListPolicies(a)
      [] a.tool = "get_policy_report" -> HandleGetPolicyReport(a)
      [] a.tool = "list_teams" -> HandleListTeams(a)

--------------------------------------------------------------------------------
(* What a part of a resource may hold: services have different names, the    *)
(* lines of a log are in order, an event is the time it happened at.         *)
Holding(r, v) ==
    /\ v \in Seq(Range(v))
    /\ r = "services" => IsInjective(v)
    /\ r = "log" => \A i, j \in DOMAIN v : v[i] \in Nat /\ (i < j => v[i] <= v[j])
    /\ r = "events" => Range(v) \subseteq Int
    /\ r = "object" => \A o \in Range(v) : IsObject(o)

(* A call is one of a tool, and its cluster has the parts the handler reads. *)
ASSUME CasesAssumption ==
    /\ \A i \in DOMAIN Cases : \A c \in Cases[i] :
          /\ c.ask.tool \in Tools /\ c.ask.limit \in Int /\ c.changes \in Nat
          /\ \A p \in DOMAIN c.cluster : Holding(p[1], c.cluster[p]) /\ p[1] \in DOMAIN Holds
          /\ \A step \in Range(Handler(c.ask)) : step.part \in DOMAIN c.cluster
          /\ c.ask.tool = "list_services" =>
                \A v \in Holds["services"] \cup {c.cluster[<<"services", "">>]} :
                    \A s \in Range(v) : <<"slices", s>> \in DOMAIN c.cluster
    /\ \A r \in DOMAIN Holds : \A v \in Holds[r] : Holding(r, v)

--------------------------------------------------------------------------------
Init ==
    /\ \E i \in DOMAIN Cases : \E c \in Cases[i] : ask = c.ask /\ cluster = c.cluster /\ changes = c.changes
    /\ seen = [p \in DOMAIN cluster |-> {cluster[p]}]
    /\ plan = Handler(ask)
    /\ got = << >> /\ dropped = {}
    /\ phase = "reading"
    /\ object = << >> /\ todo = {} /\ count = 0

(* The cluster changes while the call is under way.                          *)
Change(p, v) ==
    /\ phase = "reading" /\ changes > 0 /\ v # cluster[p]
    /\ cluster' = [cluster EXCEPT ![p] = v]
    /\ seen' = [seen EXCEPT ![p] = @ \cup {v}]
    /\ changes' = changes - 1
    /\ UNCHANGED <<callVars, redVars>>

(* The API server: the first limit items and a continue token if there are   *)
(* more; of a log the last limit lines.                                      *)
Serve(r, limit, v) ==
    IF r = "log"
    THEN LET older == { i \in DOMAIN v : v[i] <= Last(v) - limit }
         IN  [items |-> SubSeq(v, Cardinality(older) + 1, Len(v)), more |-> FALSE]
    ELSE IF limit \in 1..(Len(v) - 1)
    THEN [items |-> SubSeq(v, 1, limit), more |-> TRUE]
    ELSE [items |-> v, more |-> FALSE]

(* The reads after step, once it returned v.                                 *)
Rest(step, v) ==
    IF ask.tool = "list_services" /\ step.part[1] = "services"
    THEN [i \in DOMAIN v |-> EndpointCounts(v[i])]
    ELSE IF ask.tool = "get_workload" /\ step.get /\ v[1] = "noSelector"
    THEN << >>
    ELSE Tail(plan)

(* What was read so far and, of a part not read before, r.                   *)
Recorded(p, r) == [q \in DOMAIN got \cup {p} |-> IF q \in DOMAIN got THEN got[q] ELSE r]

Served ==
    /\ phase = "reading" /\ plan # << >>
    /\ LET step == Head(plan)
           v == cluster[step.part]
           r == Serve(step.part[1], step.limit, v)
       IN  /\ step.get => v # << >>
           /\ step.part[1] = "log" => step.limit >= 0
           /\ got' = Recorded(step.part, r)
           /\ plan' = Rest(step, r.items)
    /\ UNCHANGED <<ask, dropped, phase, worldVars, redVars>>

(* A read whose error the handler returns fails.                             *)
MustFails ==
    /\ phase = "reading" /\ plan # << >> /\ Head(plan).must
    /\ phase' = "failed"
    /\ UNCHANGED <<ask, plan, got, dropped, worldVars, redVars>>

NextVersion ==
    /\ phase = "reading" /\ plan # << >> /\ Head(plan).tries > 1
    /\ plan' = << [Head(plan) EXCEPT !.tries = @ - 1] >> \o Tail(plan)
    /\ UNCHANGED <<ask, got, dropped, phase, worldVars, redVars>>

(* Faulty variant: the handler stops reading.                                *)
FaultyTryFails ==
    /\ phase = "reading" /\ plan # << >> /\ ~Head(plan).must /\ Head(plan).tries = 1
    /\ LET p == Head(plan).part
       IN  /\ got' = Recorded(p, [items |-> << >>, more |-> FALSE])
           /\ dropped' = dropped \cup {p}
    /\ plan' = << >>
    /\ UNCHANGED <<ask, phase, worldVars, redVars>>

(* A read whose error the handler drops fails: its part is shown as empty.   *)
TryFails ==
    /\ phase = "reading" /\ plan # << >> /\ ~Head(plan).must /\ Head(plan).tries = 1
    /\ LET p == Head(plan).part
       IN  /\ got' = Recorded(p, [items |-> << >>, more |-> FALSE])
           /\ dropped' = dropped \cup {p}
    /\ plan' = Tail(plan)
    /\ UNCHANGED <<ask, phase, worldVars, redVars>>

(* get_workload, asked for a kind it does not know.                          *)
UnknownKind ==
    /\ phase = "reading" /\ plan = << >> /\ DOMAIN got = {}
    /\ phase' = "failed"
    /\ UNCHANGED <<ask, plan, got, dropped, worldVars, redVars>>

(* get_resource redacts the object first.                                    *)
Return ==
    /\ phase = "reading" /\ plan = << >> /\ DOMAIN got # {}
    /\ IF ask.tool = "get_resource"
       THEN phase' = "redacting" /\ Redact(Stripped(got[<<"object", "">>].items[1]))
       ELSE phase' = "answered" /\ UNCHANGED redVars
    /\ UNCHANGED <<ask, plan, got, dropped, worldVars>>

Walk ==
    /\ phase = "redacting"
    /\ IF todo = {} THEN phase' = "answered" /\ UNCHANGED redVars
       ELSE phase' = phase /\ Visit
    /\ UNCHANGED <<ask, plan, got, dropped, worldVars>>

Next ==
    \/ \E p \in DOMAIN cluster : \E v \in Holds[p[1]] : Change(p, v)
    \/ Served \/ MustFails \/ NextVersion \/ TryFails \/ UnknownKind \/ Return \/ Walk

Spec == Init /\ [][Next]_vars

--------------------------------------------------------------------------------
(* What the handlers return.                                                 *)

Answered(tool) == phase = "answered" /\ ask.tool = tool
Items(r) == got[<<r, "">>].items

(* list_services: ready and other endpoints of each service                  *)
Endpoints(v) == [ready |-> Cardinality({ i \in DOMAIN v : v[i] = "ready" }),
                 notReady |-> Cardinality({ i \in DOMAIN v : v[i] # "ready" })]
ServiceEndpoints == [s \in Range(Items("services")) |-> Endpoints(got[<<"slices", s>>].items)]

(* Faulty variant: the first bytes are kept.                                 *)
FaultyLogText == SubSeq(Items("log"), 1, IF Len(Items("log")) > MaxLogBytes THEN MaxLogBytes
                                         ELSE Len(Items("log")))

(* pod_logs: the last bytes of what the server sent                          *)
LogText ==
    LET raw == Items("log")
    IN  IF Len(raw) > MaxLogBytes THEN SubSeq(raw, Len(raw) - MaxLogBytes + 1, Len(raw)) ELSE raw

(* Some answers are sorted: events by time, metrics by CPU, certificates     *)
(* (those of all secrets, as their days left) and teams by name.             *)
Ascending(s) ==
    Ordered(s, [j \in DOMAIN s |->
        { i \in DOMAIN s : s[i] < s[j] \/ (s[i] = s[j] /\ i < j) }])

Sorted ==
    CASE ask.tool = "list_events" -> Ascending(Items("events"))
      [] ask.tool = "top_pods" -> Reverse(Ascending(Items("metrics")))
      [] ask.tool = "list_teams" -> Ascending(Items("teams"))
      [] ask.tool = "list_certificates" -> Ascending(FlattenSeq(Items("secrets")))

(* list_resource: "Tell the model the view is partial"                       *)
Truncated == got[<<"items", "">>].more

NsLabels == Items("namespace")[1]
Listed == ListedRules(Range(Items("clusterpolicies")) \cup Range(Items("policies")),
                      Range(Items("exceptions")), ask.kind, NsLabels)

Report == PolicyReport(Items("reports"), MaxReportResults)

--------------------------------------------------------------------------------
(* The parts an answer can do without, and those that tools of several reads *)
(* cannot: "list_workloads" without its daemonsets would be a wrong answer.  *)
Extra(tool, r) ==
    \/ tool = "get_pod" /\ r = "events"
    \/ tool = "get_workload" /\ r = "pods"
    \/ tool = "list_services" /\ r = "slices"
    \/ tool = "list_policies" /\ r \in {"policies", "exceptions"}

Needed ==
    [list_workloads |-> {"deployments", "statefulsets", "daemonsets"},
     get_service |-> {"service", "slices"}, get_quota |-> {"quotas", "limitranges"},
     list_services |-> {"services"}, list_policies |-> {"namespace", "clusterpolicies"}]

(* However the cluster changes between the reads of a call and whichever of  *)
(* them fail: an answer was made from all the parts it needs, lacks only     *)
(* extras, and has every object that was there all through the call in a     *)
(* list that was read and not cut.  A failed extra costs the answer that     *)
(* extra and no other: every service that list_services shows has an         *)
(* endpoint count, which counts endpoints of this very service at a moment   *)
(* of the call, unless the read of its own slices failed (it is then shown   *)
(* with 0 endpoints, like a broken one).                                     *)
AnswerIsComplete ==
    LET returned == DOMAIN got \ dropped
    IN  phase = "answered" =>
        /\ \A p \in dropped : Extra(ask.tool, p[1])
        /\ ask.tool \in DOMAIN Needed => \A r \in Needed[ask.tool] : <<r, "">> \in returned
        /\ \A p \in returned : p[1] # "log" /\ ~got[p].more =>
              \A x \in UNION { Range(v) : v \in seen[p] } :
                  (\A v \in seen[p] : x \in Range(v)) => x \in Range(got[p].items)
        /\ ask.tool = "list_services" =>
              /\ \A s \in Range(Items("services")) : <<"slices", s>> \in DOMAIN got
              /\ \A s \in DOMAIN ServiceEndpoints : <<"slices", s>> \notin dropped =>
                    \E v \in seen[<<"slices", s>>] : ServiceEndpoints[s] = Endpoints(v)

AnswerInv == CallTypeOK /\ AnswerIsComplete

(* A list is never longer than it may be, and one that is shorter is whole:  *)
(* shorter than a limit in range, or than the default where the limit is not *)
(* in range.  A cut list of exactly that length reads like a whole one, save *)
(* that list_resource says which it is.  A list of events shorter than the   *)
(* default ends with the newest; a cut one need not have it.                 *)
ShortListsAreWhole ==
    LET Whole(r) == Items(r) \in seen[<<r, "">>]
        Fits(r, max) ==
            /\ Len(Items(r)) <= max
            /\ ask.limit \in 1..max /\ Len(Items(r)) # ask.limit => Whole(r) /\ Len(Items(r)) < ask.limit
            /\ ask.limit \notin 1..max /\ Len(Items(r)) < DefaultListLimit => Whole(r)
    IN  /\ Answered("list_pods") => Fits("pods", MaxPods)
        /\ Answered("list_resource") =>
              /\ Fits("items", MaxResources)
              /\ ~Truncated => Whole("items")
              /\ Truncated => \E v \in seen[<<"items", "">>] : Len(v) > Len(Items("items"))
        /\ Answered("list_events") =>
              /\ Len(Sorted) <= DefaultListLimit
              /\ Len(Sorted) < DefaultListLimit => Whole("events")
              /\ Sorted # << >> => \A t \in Range(Items("events")) : t <= Last(Sorted)
        /\ (/\ Answered("get_pod") /\ <<"events", "">> \notin dropped
            /\ Len(Items("events")) < ObjectEvents) => Whole("events")

(* The log of a chatty container is cut at its beginning: the answer ends    *)
(* with the last byte written, holds as many lines as asked for unless it is *)
(* as large as an answer may be, and is empty only if the log is or no line  *)
(* was asked for.                                                            *)
LogsKeepTheEnd ==
    Answered("pod_logs") => \E v \in seen[<<"log", "">>] :
        LET lines == IF ask.limit > MaxTail THEN MaxTail ELSE ask.limit
        IN  /\ IsSuffix(LogText, v)
            /\ Len(LogText) <= MaxLogBytes
            /\ Len(LogText) < MaxLogBytes => \A i \in DOMAIN v :
                  v[i] > Last(v) - lines => i > Len(v) - Len(LogText)
            /\ LogText = << >> => v = << >> \/ lines = 0

(* An answer that is shorter than its limit is whole, be it a list or a log. *)
ShortAnswersAreWhole == ShortListsAreWhole /\ LogsKeepTheEnd

--------------------------------------------------------------------------------
(* The policies, exceptions and labels of the namespace, at some moment of   *)
(* the call and all through it.                                              *)
Some(r) == UNION { Range(v) : v \in seen[<<r, "">>] }
Always(r) == { x \in Some(r) : \A v \in seen[<<r, "">>] : x \in Range(v) }

(* An answer for a kind written in Kubernetes' own case, or for none.        *)
PoliciesAnswered == Answered("list_policies") /\ ask.kind.exact

AsksFor(q) == ask.kind.name \in {"", q.kind}
IsListed(pol, r) == \E e \in Listed : e.policy = pol.name /\ e.rule = r.name

(* Some request the caller asks about comes under the rule, whichever labels *)
(* of the namespace count.                                                   *)
Concerns(pol, r) ==
    \A l \in Some("namespace") : \E q \in Requests : AsksFor(q) /\ RuleCovers(pol, r, q, l)

ExcludeFilters(r) == ResourceFilters(r.exclude).filters

(* The policies that are there all through the call and could be read.       *)
StandingPolicies ==
    Always("clusterpolicies") \cup
    IF <<"policies", "">> \in dropped THEN {} ELSE Always("policies")

(* A certain exclude filter that means more to the code than to Kyverno: its *)
(* selector is unreadable and so taken to match (policy.go:291, meant to     *)
(* show rules), or it names kinds and the caller none, and so is taken to be *)
(* about every kind (policy.go:257).                                         *)
ExcludesTooMuch(f) ==
    /\ f.object = {} /\ ~HasSubjects(f)
    /\ \/ f.selector = "bad"
       \/ ask.kind.name = "" /\ f.kinds # {} /\ "*" \notin f.kinds

(* A match filter for Pods whose generated form is missed because the kind   *)
(* asked about is in another case (policy.go:259).                           *)
MissesAutogen(f) ==
    ~ask.kind.exact /\ "Pod" \in f.kinds /\ f.kinds \cap {"*", ask.kind.name} = {}

(* "Use it to check a manifest before it is applied": of the rules that all  *)
(* through the call some object of the kind comes under, the answer lacks    *)
(* only those that the code hides in one of four ways, whatever their match  *)
(* and exclude blocks, however the kind is written, and however policies and *)
(* labels change between the reads: an unreadable selector in an exclude     *)
(* filter; an exclude filter that names kinds, when none is asked about; an  *)
(* autogen form asked for in another case; and a match block of the old form *)
(* that names users and no resources.                                        *)
MissingRulesHaveAReason ==
    Answered("list_policies") =>
        \A pol \in StandingPolicies : \A r \in pol.rules : Concerns(pol, r) =>
            \/ IsListed(pol, r)
            \/ \E f \in ExcludeFilters(r) : ExcludesTooMuch(f)
            \/ \E f \in ResourceFilters(r.match).filters : MissesAutogen(f)
            \/ OnlyUsers(r.match)

(* Users, unreadable selectors and excludes that look at the object do not   *)
(* show in only_if, nor do excludes of the old form without resources.       *)
Decidable(r) ==
    /\ ~OnlyUsers(r.exclude)
    /\ \A f \in ResourceFilters(r.match).filters : f.selector # "bad" /\ ~HasSubjects(f)
    /\ \A f \in ExcludeFilters(r) : f.object = {} /\ ~HasSubjects(f)

(* "only_if marks a rule that depends on the object's name or labels": a     *)
(* decidable rule shown for a kind without it held for every object of that  *)
(* kind, with the labels the namespace had at some moment of the call.  The  *)
(* kind is one in Kubernetes' own case: in another, an exclude for Pods is   *)
(* not seen to exclude their controllers too.                                *)
UnconditionalRulesApply ==
    PoliciesAnswered /\ ask.kind.name # "" =>
        \A e \in Listed : e.onlyIf = {} =>
            \E pol \in Some("clusterpolicies") \cup Some("policies") : \E r \in pol.rules :
                /\ pol.name = e.policy /\ r.name = e.rule
                /\ Decidable(r) => \E l \in Some("namespace") :
                      \A q \in Requests : AsksFor(q) => RuleCovers(pol, r, q, l)

(* A rule from which an exception frees some object of the kind, all through *)
(* the call, is marked as exempted, in whichever version of their API the    *)
(* exceptions could be read, if the kind is in Kubernetes' own case and the  *)
(* exception of a form that PolicyException has (any, all or resources).     *)
ExemptionsAreMarked ==
    PoliciesAnswered /\ <<"exceptions", "">> \notin dropped =>
        \A e \in Listed : \A x \in Always("exceptions") :
            (/\ x.policy = e.policy /\ (x.rules = {} \/ e.rule \in x.rules)
             /\ ~OnlyUsers(x.match)
             /\ \A l \in Some("namespace") : \E q \in Requests :
                   AsksFor(q) /\ BlockCovers(x.match, q, l, PodControllers))
            => e.exempted

(* "worst first, with totals": a policy report that is cut says so, counts   *)
(* what it leaves out, and leaves out no result as long as it shows one that *)
(* is less severe.                                                           *)
WorstFirst ==
    Answered("get_policy_report") =>
        LET Shown(r) == Count(Report.results, r)
            Total(r) == IF r \in DOMAIN Report.totals THEN Report.totals[r] ELSE 0
            severity == <<"fail", "error", "warn">>
        IN  /\ \E v \in seen[<<"reports", "">>] : \A r \in Range(v) : Total(r) = Count(v, r)
            /\ \A i, j \in 1..3 : i < j /\ Shown(severity[j]) > 0 =>
                  Shown(severity[i]) = Total(severity[i])
            /\ ~Report.truncated => \A i \in 1..3 : Shown(severity[i]) = Total(severity[i])

(* "Hide the value, keep the fact": of the object as it was read, exactly    *)
(* the credential values are replaced, whatever order Go's maps are walked   *)
(* in; everything else is as it was, the copy of the object in an annotation *)
(* is gone, and redacted is the number of values that were replaced.         *)
MaskedExactly ==
    Answered("get_resource") =>
        LET o == Items("object")[1]
            new == { i \in DOMAIN object : object[i] # o[i] }
        IN  /\ new = { i \in DOMAIN object : IsCredential(o, i) \/ IsEmptyEnv(o, i) }
            /\ \A i \in new : object[i].val \in {"redacted", "flagRedacted", "urlRedacted"}
            /\ \A i \in DOMAIN object : object[i].val # "copy"
            /\ count = Cardinality(new)

================================================================================
