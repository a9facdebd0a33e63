------------------------------- MODULE MCHandlers ------------------------------
(* Small instances of Handlers for TLC: calls and clusters for each tool.      *)
EXTENDS Handlers

AnyKind == [name |-> "", exact |-> TRUE]
Ask(tool) == [tool |-> tool, limit |-> 0, kind |-> AnyKind]

Case(a, cl, n) == [ask |-> a, cluster |-> cl, changes |-> n]
Part(r) == <<r, "">>

(* Policies of one rule, and filters of its match and exclude blocks.          *)
Kind(ks) == [Blank EXCEPT !.kinds = ks]

Filters ==
    { Blank, Kind({"Pod"}), Kind({"Service"}), Kind({"Pod", "Deployment"}), Kind({"*"}),
      [Kind({"Pod"}) EXCEPT !.namespaces = {FALSE}],
      [Kind({"Deployment"}) EXCEPT !.namespaces = {TRUE, FALSE}, !.selector = "team"],
      [Blank EXCEPT !.selector = "bad"],
      [Kind({"Pod"}) EXCEPT !.object = {"named"}],
      [Blank EXCEPT !.user = TRUE, !.subjects = {"admin"}] }

None == [all |-> {}, any |-> {}, legacy |-> {}, resources |-> TRUE]
Pairs == { S \in SUBSET Filters : Cardinality(S) = 2 }
Blocks == { [None EXCEPT !.all = S] : S \in Pairs } \cup { [None EXCEPT !.any = S] : S \in Pairs }
UsersOnly == [None EXCEPT !.resources = FALSE,
                          !.legacy = {[Blank EXCEPT !.user = TRUE, !.subjects = {"admin"}]}]
Singles == { [None EXCEPT !.legacy = {f}] : f \in Filters } \cup {UsersOnly}

Rule(m, e) == [name |-> "r", match |-> m, exclude |-> e, preconditions |-> {},
               autogenOf |-> ""]
Policy(rs) == [name |-> "p", scope |-> "ClusterPolicy", autogen |-> {}, rules |-> rs]

(* For pods in namespaces of the team.                                         *)
Podly == [None EXCEPT !.any = {[Kind({"Pod"}) EXCEPT !.selector = "team"]}]
Other == [None EXCEPT !.all = {Kind({"Service"})}]

(* The beginnings of a list of four.                                           *)
Lists == { SubSeq(<<3, 1, 4, 2>>, 1, n) : n \in 0..4 }

(* Tools whose parts are lists only, with two changes of any of them.          *)
PlainTools ==
    [list_events |-> {"events"}, list_routes |-> {"routes"}, list_pvcs |-> {"pvcs"},
     list_workloads |-> {"deployments", "statefulsets", "daemonsets"},
     get_quota |-> {"quotas", "limitranges"}, top_pods |-> {"metrics"},
     list_nodes |-> {"nodes"}, list_teams |-> {"teams"}, list_certificates |-> {"secrets"},
     get_node |-> {"node"}, get_pod |-> {"pod", "events"}, get_service |-> {"service", "slices"}]

MCHolds(r) ==
    CASE r \in {"pod", "node", "service"} -> {<< >>, <<r>>}
      [] r \in {"deployment", "statefulset", "daemonset"} -> {<< >>, <<"selector">>, <<"noSelector">>}
      [] r = "slices" -> {<< >>, <<"ready">>, <<"notReady">>, <<"ready", "notReady">>}
      [] r = "services" -> {<< >>, <<"s1">>, <<"s1", "s2">>}
      [] r = "secrets" -> {<< >>, << <<5, 2>>, <<3>> >>}
      [] r = "log" -> {<< >>, <<1>>, <<1, 1, 2, 2, 2, 3>>, <<1, 2, 3, 3, 3, 3>>}
      [] r = "namespace" -> {<< >>, <<{}>>, <<{"team"}>>}
      [] r = "clusterpolicies" -> {<< >>, << Policy({Rule(Other, None)}) >>}
      [] r \in {"policies", "exceptions"} -> {<< >>}
      [] r \in {"object", "reports"} -> {}
      [] OTHER -> Lists

Resources == {"pod", "pods", "node", "nodes", "service", "services", "slices", "events", "routes",
              "pvcs", "deployment", "statefulset", "daemonset", "deployments", "statefulsets",
              "daemonsets", "quotas", "limitranges", "metrics", "secrets", "log", "namespace",
              "clusterpolicies", "policies", "exceptions", "object", "reports", "items", "teams"}
HoldsAtAll == [r \in Resources |-> MCHolds(r)]

(* Clusters whose parts hold one of two values: little and much.               *)
Extremes(r) == { v \in MCHolds(r) : v = << >> \/ \A w \in MCHolds(r) : Len(w) <= Len(v) }
Clusters(rs) == { f \in [ { Part(r) : r \in rs } -> UNION { Extremes(r) : r \in rs } ] :
                    \A r \in rs : f[Part(r)] \in Extremes(r) }

PlainCases == UNION { { Case(Ask(t), cl, 1) : cl \in Clusters(PlainTools[t]) } : t \in DOMAIN PlainTools }

LimitCases ==
    { Case([Ask(t) EXCEPT !.limit = n], Part(r) :> v, 1) :
        <<t, r>> \in {<<"list_pods", "pods">>, <<"list_resource", "items">>}, n \in -1..5, v \in Lists }

LogCases == { Case([Ask("pod_logs") EXCEPT !.limit = n], Part("log") :> v, 1) :
                n \in -1..5, v \in MCHolds("log") }

WorkloadCases ==
    { Case([Ask("get_workload") EXCEPT !.kind.name = k],
           (Part(k) :> v) @@ (Part("pods") :> <<1, 2>>), 1) :
        k \in {"deployment", "statefulset", "daemonset"}, v \in MCHolds("deployment") }
    \cup { Case([Ask("get_workload") EXCEPT !.kind.name = "cronjob"], Part("pods") :> << >>, 0) }

ServiceCases ==
    { Case(Ask("list_services"),
           (Part("services") :> v) @@ (<<"slices", "s1">> :> e) @@ (<<"slices", "s2">> :> << >>), 2) :
        v \in MCHolds("services"), e \in MCHolds("slices") }

ReportCases ==
    { Case(Ask("get_policy_report"), Part("reports") :> v, 0) :
        v \in UNION { [1..n -> {"fail", "error", "warn", "pass", "other"}] : n \in 0..4 } }

--------------------------------------------------------------------------------
(* Policies: one rule with every match and exclude block of two of these       *)
(* filters, and one with exceptions.                                           *)

AskedKinds == { [name |-> n, exact |-> TRUE] : n \in Kinds \cup {""} }

PolicyCase(k, labels, cps, ps, exs, n) ==
    Case([Ask("list_policies") EXCEPT !.kind = k],
         (Part("namespace") :> <<labels>>) @@ (Part("clusterpolicies") :> cps) @@
         (Part("policies") :> ps) @@ (Part("exceptions") :> exs), n)

(* Every match block against single excludes, single matches against every     *)
(* exclude block.                                                              *)
Matching ==
    { PolicyCase(k, {"team"}, << Policy({Rule(m, e)}) >>, << >>, << >>, 0) :
        k \in AskedKinds, m \in Blocks, e \in Singles }
    \cup { PolicyCase(k, {}, << Policy({Rule(m, e)}) >>, << >>, << >>, 0) :
        k \in AskedKinds, m \in Singles, e \in Blocks }

(* A namespaced policy with preconditions and an autogen form of its own,      *)
(* next to a cluster policy.                                                   *)
Various ==
    { [Policy({ [Rule(Podly, None) EXCEPT !.preconditions = pre],
                [Rule([None EXCEPT !.any = {Kind({"Deployment"})}], None)
                    EXCEPT !.name = "autogen-r", !.autogenOf = auto] })
        EXCEPT !.name = "q", !.scope = "Policy", !.autogen = ann] :
        pre \in {{}, {"named"}}, auto \in {"", "r"}, ann \in {{}, {"none"}, {"Deployment"}} }

Namespaced == { PolicyCase(k, {"team"}, << Policy({Rule(Podly, None)}) >>, << p >>,
                              << [policy |-> "p", rules |-> {}, match |-> Podly] >>, 1) :
                  k \in AskedKinds, p \in Various }

Excepted ==
    { PolicyCase(k, {"team"}, << Policy({Rule([None EXCEPT !.any = {Blank, Kind({"*"})}], None)}) >>, << >>,
                 << [policy |-> pol, rules |-> rs, match |-> m] >>, 0) :
        k \in AskedKinds, pol \in {"p", "q"}, rs \in {{}, {"r"}, {"s"}}, m \in Singles \cup {None}
            \cup { b \in Blocks : Kind({"Pod"}) \in b.all \cup b.any } }

LowerCase == { PolicyCase([name |-> "Deployment", exact |-> FALSE], {}, << Policy({Rule(m, None)}) >>,
                          << >>, << >>, 0) : m \in Singles }

--------------------------------------------------------------------------------
(* Objects of at most three values below the object.                          *)

V(p, k, v) == [parent |-> p, key |-> k, val |-> v]
Scalars == {"empty", "plain", "credName", "flag", "url", "number", "nil"}
AnyField(p) == { V(p, k, v) : k \in {"name", "value", "termination", "key", "password",
                                     "secretName", "image"}, v \in Scalars }
Containers(p) == { V(p, k, v) : k \in {"password", "image"}, v \in {"map", "list"} }

Objects ==
    { <<x, y>> : x \in AnyField(0), y \in AnyField(0) }
    \cup { <<c, x, y>> : c \in {V(0, "image", "map")}, x \in AnyField(1),
                         y \in AnyField(1) \cup AnyField(0) }
    \cup { <<c, x, y>> : c \in { f \in Containers(0) : f.val = "list" },
                         x \in { V(1, "item", v) : v \in Scalars \cup {"map"} },
                         y \in AnyField(0) }
    \cup { <<c, V(1, "item", "map"), x, y>> : c \in { f \in Containers(0) : f.val = "list" },
              x \in { f \in AnyField(2) : f.key \in {"name", "termination"} },
              y \in { f \in AnyField(2) : f.key \in {"value", "key"} } }
    \cup { <<V(0, "metadata", "map"), V(1, "annotations", a), V(2, "lastApplied", "copy"),
             V(1, "managedFields", "list"), x>> : a \in {"map"}, x \in AnyField(0) \cup
                 { V(4, "item", v) : v \in Scalars } }

(* The keys of a map differ.                                                  *)
KeysDiffer(o) == \A i, j \in DOMAIN o :
    i # j /\ o[i].parent = o[j].parent /\ o[i].key = o[j].key => o[i].key = "item"

ResourceCases == { Case(Ask("get_resource"), Part("object") :> <<o>>, 0) : o \in { x \in Objects : KeysDiffer(x) } }
    \cup { Case(Ask("get_resource"), Part("object") :> << >>, 0) }

AllCases == << PlainCases, LimitCases, LogCases, WorkloadCases, ServiceCases, ReportCases,
               Matching, Namespaced, Excepted, LowerCase, ResourceCases >>

================================================================================
