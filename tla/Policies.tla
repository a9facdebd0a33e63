------------------------------- MODULE Policies --------------------------------
(***************************************************************************)
(* The rules of internal/mcp/policy.go: which rules of the Kyverno policies *)
(* list_policies says apply to a kind in a namespace, and how               *)
(* get_policy_report chooses what it shows.  Pure operators; Handlers calls *)
(* them with what its reads returned.                                       *)
(*                                                                          *)
(* A filter of a match or exclude block, after flattenFilter, is            *)
(*   kinds       the kinds it names, without their group; may hold "*"      *)
(*   namespaces  its namespace patterns, each as whether it matches the     *)
(*               namespace asked about                                      *)
(*   selector    its namespaceSelector: "none", "bad" (unreadable) or the   *)
(*               label it wants                                             *)
(*   object      its conditions on the object: names, labels, annotations,  *)
(*               operations                                                 *)
(*   user        whether subjects, roles or clusterRoles is present         *)
(*   subjects    who they list                                              *)
(* The kind asked about has a name, "" for none, and exact: whether it is   *)
(* written in Kubernetes' own case.                                         *)
(***************************************************************************)
EXTENDS Integers, Sequences, FiniteSets, SequencesExt

CONSTANTS
    Kinds,           \* the kinds of objects, "Pod" among them
    PodControllers,  \* podControllers
    Conds,           \* conditions that depend on the object
    Users            \* who may send a request

Blank == [kinds |-> {}, namespaces |-> {}, selector |-> "none",
          object |-> {}, user |-> FALSE, subjects |-> {}]

(* flattenFilter leaves out empty fields; a filter with none is not one.     *)
FlattenFilter(fs) == fs \ {Blank}

(* A block holds lists under "all" and "any", or the fields of one filter,   *)
(* which count if "resources" is among them.                                 *)
ResourceFilters(block) ==
    LET all == FlattenFilter(block.all)
        any == FlattenFilter(block.any)
        legacy == IF block.resources THEN FlattenFilter(block.legacy) ELSE {}
    IN  IF all # {} THEN [filters |-> all, all |-> TRUE]
        ELSE IF any # {} THEN [filters |-> any, all |-> FALSE]
        ELSE [filters |-> legacy, all |-> legacy # {}]

(* Whether some or all (as the block says) of its filters hit.               *)
Hits(rf, Hit(_)) ==
    IF rf.all THEN \A f \in rf.filters : Hit(f) ELSE \E f \in rf.filters : Hit(f)

(* strings.EqualFold for a kind's own name, but the keys of autogen are      *)
(* compared as they are.                                                     *)
Autogens(f, kind, autogen) ==
    "Pod" \in f.kinds /\ kind.name # "Pod" /\ kind.exact /\ kind.name \in autogen

KindMatches(f, kind, autogen) ==
    \/ f.kinds = {}
    \/ kind.name = ""
    \/ {"*", kind.name} \cap f.kinds # {}
    \/ Autogens(f, kind, autogen)

(* "unreadable selector: show the rule rather than hide it"                  *)
SelectorMatches(sel, nsLabels) == sel = "bad" \/ sel \in nsLabels

NsMatches(f, nsLabels) ==
    /\ f.namespaces # {} => TRUE \in f.namespaces
    /\ f.selector # "none" => SelectorMatches(f.selector, nsLabels)

HasSubjects(f) == f.subjects # {}

(* Faulty variant: an exclude filter that needs more than the kind and the   *)
(* namespace counts as well.                                                 *)
FaultyExcludes(f, kind, nsLabels, autogen) ==
    KindMatches(f, kind, autogen) /\ NsMatches(f, nsLabels) /\ ~HasSubjects(f)

(* "Exclude only what is certain for every object of this kind here"         *)
Excludes(f, kind, nsLabels, autogen) ==
    /\ KindMatches(f, kind, autogen)
    /\ NsMatches(f, nsLabels)
    /\ f.object = {}
    /\ ~HasSubjects(f)

(* Faulty variant: conditions are taken only of a filter that stands alone.  *)
FaultyOnlyIf(rule, kind, nsLabels, autogen) ==
    LET rf == ResourceFilters(rule.match)
    IN  rule.preconditions \cup
        IF Cardinality(rf.filters) = 1 THEN UNION { f.object : f \in rf.filters } ELSE {}

(* The conditions of the filters that hit, and the preconditions.            *)
OnlyIf(rule, kind, nsLabels, autogen) ==
    LET hit == { f \in ResourceFilters(rule.match).filters :
                    KindMatches(f, kind, autogen) /\ NsMatches(f, nsLabels) }
    IN  rule.preconditions \cup UNION { f.object : f \in hit }

RuleApplies(rule, kind, nsLabels, autogen) ==
    LET match == ResourceFilters(rule.match)
        exclude == ResourceFilters(rule.exclude)
    IN  /\ match.filters # {}
        /\ Hits(match, LAMBDA f : KindMatches(f, kind, autogen) /\ NsMatches(f, nsLabels))
        /\ ~Hits(exclude, LAMBDA f : Excludes(f, kind, nsLabels, autogen))

AppliesVia(rule, kind, nsLabels, autogen) ==
    \E f \in ResourceFilters(rule.match).filters :
        Autogens(f, kind, autogen) /\ NsMatches(f, nsLabels)

(* The annotation as a set: empty is unset, {"none"} switches autogen off.   *)
AutogenControllers(ann) == IF ann = {} THEN PodControllers ELSE ann

(* Autogen is off for a rule whose autogen form the policy carries already.  *)
Controllers(policy, rule) ==
    IF \E r \in policy.rules : r.autogenOf = rule.name
    THEN {} ELSE AutogenControllers(policy.autogen)

(* Faulty variant: an exception has to name the rule.                        *)
FaultyExemptions(exceptions, kind, nsLabels) ==
    UNION { {e.policy} \X e.rules : e \in exceptions }

(* The keys of exemptions: a policy with a rule, or with "*".                *)
Exemptions(exceptions, kind, nsLabels) ==
    LET Hit(e) == LET rf == ResourceFilters(e.match) IN
                  /\ rf.filters # {}
                  /\ Hits(rf, LAMBDA f : /\ KindMatches(f, kind, PodControllers)
                                         /\ NsMatches(f, nsLabels))
    IN  UNION { {e.policy} \X (IF e.rules = {} THEN {"*"} ELSE e.rules) :
                e \in { x \in exceptions : Hit(x) } }

Entry(policy, rule, kind, nsLabels, exempt) ==
    LET autogen == Controllers(policy, rule)
    IN  [policy |-> policy.name, scope |-> policy.scope, rule |-> rule.name,
         via |-> AppliesVia(rule, kind, nsLabels, autogen),
         onlyIf |-> OnlyIf(rule, kind, nsLabels, autogen),
         exempted |-> exempt \cap {<<policy.name, rule.name>>, <<policy.name, "*">>} # {}]

(* handleListPolicies, once everything is read: the rules that apply.        *)
ListedRules(policies, exceptions, kind, nsLabels) ==
    LET exempt == Exemptions(exceptions, kind, nsLabels)
        Applying(pol) ==
            { r \in pol.rules : RuleApplies(r, kind, nsLabels, Controllers(pol, r)) }
    IN  UNION { { Entry(pol, r, kind, nsLabels, exempt) : r \in Applying(pol) } :
                pol \in policies }

--------------------------------------------------------------------------------
(* get_policy_report: the results of a namespace in the order of the lists.  *)

(* The values of s whose indices ahead has, each after those ahead of it.    *)
Ordered(s, ahead) ==
    [k \in 1..Cardinality(DOMAIN ahead) |->
        s[CHOOSE i \in DOMAIN ahead : Cardinality(ahead[i]) = k - 1]]

Rank(result) == CASE result = "error" -> 1 [] result = "warn" -> 2 [] OTHER -> 0

(* Faulty variant: the first max in the order of the lists.                  *)
FaultyShownResults(results, max) ==
    LET shown == SelectSeq(results, LAMBDA r : r \notin {"pass", "skip"})
    IN  SubSeq(shown, 1, IF Len(shown) > max THEN max ELSE Len(shown))

(* Results that passed or were skipped are left out.                         *)
Reported(results) == { i \in DOMAIN results : results[i] \notin {"pass", "skip"} }

(* sort.SliceStable by rank, then the first max.                             *)
ShownResults(results, max) ==
    LET all == Reported(results)
        n == Cardinality(all)
        Worse(i, j) == Rank(results[i]) < Rank(results[j])
        sorted == Ordered(results, [j \in all |->
                      { i \in all : Worse(i, j) \/ (~Worse(j, i) /\ i < j) }])
    IN  SubSeq(sorted, 1, IF n > max THEN max ELSE n)

(* totals, over everything that is reported                                  *)
Count(results, r) == Cardinality({ i \in DOMAIN results : results[i] = r })

PolicyReport(results, max) ==
    [totals |-> [r \in Range(results) |-> Count(results, r)],
     results |-> ShownResults(results, max),
     truncated |-> Cardinality(Reported(results)) > max]

--------------------------------------------------------------------------------
(* What Kyverno does with a request, from its documentation of match and     *)
(* exclude: an object of a kind, the conditions it satisfies and its sender. *)
(* A rule for Pods is also one for the pod controllers it is generated for.  *)

Requests == [kind : Kinds, sat : SUBSET Conds, by : Users]

Covers(f, q, nsLabels, autogen) ==
    /\ \/ f.kinds \cap {"*", q.kind} # {} \/ f.kinds = {}
       \/ "Pod" \in f.kinds /\ q.kind \in autogen
    /\ f.namespaces # {} => TRUE \in f.namespaces
    /\ f.selector # "none" => f.selector \in nsLabels
    /\ f.object \subseteq q.sat
    /\ HasSubjects(f) => q.by \in f.subjects

BlockCovers(block, q, nsLabels, autogen) ==
    LET all == block.all \ {Blank}
        any == block.any \ {Blank}
        legacy == block.legacy \ {Blank}
    IN  \/ all # {} /\ \A f \in all : Covers(f, q, nsLabels, autogen)
        \/ all = {} /\ \E f \in any : Covers(f, q, nsLabels, autogen)
        \/ all \cup any = {} /\ legacy # {} /\ \A f \in legacy : Covers(f, q, nsLabels, autogen)

(* A block of the old form with users and no resources.  Kyverno heeds it,   *)
(* ResourceFilters takes it to be empty.                                     *)
OnlyUsers(block) ==
    /\ ~block.resources /\ block.legacy \ {Blank} # {}
    /\ (block.all \cup block.any) \ {Blank} = {}

RuleCovers(policy, rule, q, nsLabels) ==
    LET autogen == Controllers(policy, rule)
    IN  /\ BlockCovers(rule.match, q, nsLabels, autogen)
        /\ ~BlockCovers(rule.exclude, q, nsLabels, autogen)
        /\ rule.preconditions \subseteq q.sat

================================================================================
