----------------------------- MODULE HandlersProofs -----------------------------
(***************************************************************************)
(* Proofs about the calls of the read-only tools, module Handlers, with any *)
(* cluster, any changes of it during the call and any failures of its       *)
(* reads: the answer is complete, a short one is whole, a rule list_policies *)
(* lacks has a reason, and get_resource hides the credentials of the object *)
(* and nothing else.                                                        *)
(*                                                                          *)
(* First the filters of a policy on their own; then the reads of a call and *)
(* their invariant, ReadInv; then the walk of a redaction and what it has   *)
(* reached, Walked; then Inv, which has both, and what follows from it for  *)
(* each answer.  The theorems are at the end.                               *)
(***************************************************************************)
EXTENDS Handlers, FiniteSetTheorems, SequenceTheorems, TLAPS

--------------------------------------------------------------------------------
(* Filters and blocks.                                                       *)

(* A block whose filters all have to hit has a filter.                       *)
LEMMA AllOfSome ==
    ASSUME NEW b, ResourceFilters(b).all
    PROVE  ResourceFilters(b).filters # {}
  BY DEF ResourceFilters

(* What Kyverno makes of a block is what the filters found in it say, unless *)
(* the block is one of the old form with users only.                         *)
LEMMA BlocksAgree ==
    ASSUME NEW b, NEW q, NEW l, NEW auto, ~OnlyUsers(b)
    PROVE  BlockCovers(b, q, l, auto) <=>
              /\ ResourceFilters(b).filters # {}
              /\ IF ResourceFilters(b).all
                 THEN \A f \in ResourceFilters(b).filters : Covers(f, q, l, auto)
                 ELSE \E f \in ResourceFilters(b).filters : Covers(f, q, l, auto)
  <1>. DEFINE all == b.all \ {Blank}
              any == b.any \ {Blank}
              legacy == b.legacy \ {Blank}
              rf == ResourceFilters(b)
  <1>1. BlockCovers(b, q, l, auto) <=>
            \/ all # {} /\ \A f \in all : Covers(f, q, l, auto)
            \/ all = {} /\ \E f \in any : Covers(f, q, l, auto)
            \/ all \cup any = {} /\ legacy # {} /\ \A f \in legacy : Covers(f, q, l, auto)
    BY DEF BlockCovers
  <1>2. /\ all # {} => rf.filters = all /\ rf.all = TRUE
        /\ all = {} /\ any # {} => rf.filters = any /\ rf.all = FALSE
        /\ all = {} /\ any = {} /\ legacy # {} => rf.filters = legacy /\ rf.all = TRUE
        /\ all = {} /\ any = {} /\ legacy = {} => rf.filters = {}
    BY DEF ResourceFilters, FlattenFilter, OnlyUsers
  <1>. HIDE DEF all, any, legacy, rf
  <1>3. CASE all # {}
    BY <1>1, <1>2, <1>3 DEF rf
  <1>4. CASE all = {} /\ any # {}
    BY <1>1, <1>2, <1>4 DEF rf
  <1>5. CASE all = {} /\ any = {} /\ legacy # {}
    BY <1>1, <1>2, <1>5 DEF rf
  <1>6. CASE all = {} /\ any = {} /\ legacy = {}
    BY <1>1, <1>2, <1>6 DEF rf
  <1>. QED  BY <1>3, <1>4, <1>5, <1>6

(* A filter that reaches a kind without autogen, or with the kind in         *)
(* Kubernetes' own case.                                                     *)
Reaches(f, kind) ==
    \/ kind.exact = TRUE \/ "Pod" \notin f.kinds \/ f.kinds \cap {"*", kind.name} # {}

(* A filter that covers a request of the kind asked about hits that kind,    *)
(* unless the kind is in another case and the filter covers it by autogen.   *)
LEMMA CoveredIsHit ==
    \A f, q, kind, l, auto :
        kind.name \in {"", q.kind} /\ Reaches(f, kind) /\ Covers(f, q, l, auto)
        => KindMatches(f, kind, auto) /\ NsMatches(f, l)
  <1>. TAKE f, q, kind, l, auto
  <1>. HAVE kind.name \in {"", q.kind} /\ Reaches(f, kind) /\ Covers(f, q, l, auto)
  <1>1. KindMatches(f, kind, auto)
    <2>1. CASE kind.name = ""
      BY <2>1 DEF KindMatches
    <2>2. CASE kind.name = q.kind
      BY <2>2 DEF KindMatches, Covers, Autogens, Reaches
    <2>. QED  BY <2>1, <2>2
  <1>2. NsMatches(f, l)
    BY DEF NsMatches, Covers, SelectorMatches
  <1>. QED  BY <1>1, <1>2

(* A filter whose selector can be read and that, where no kind is given, is  *)
(* about all of them.                                                        *)
Plain(f, kind) ==
    f.selector # "bad" /\ (kind.name = "" => f.kinds = {} \/ "*" \in f.kinds)

(* The other way round: a plain filter that is certain to exclude the kind   *)
(* covers every request of it.                                               *)
LEMMA ExcludedIsCovered ==
    \A f, q, kind, l, auto :
        kind.name \in {"", q.kind} /\ Plain(f, kind) /\ Excludes(f, kind, l, auto)
        => Covers(f, q, l, auto)
  <1>. TAKE f, q, kind, l, auto
  <1>. HAVE kind.name \in {"", q.kind} /\ Plain(f, kind) /\ Excludes(f, kind, l, auto)
  <1>1. \/ f.kinds \cap {"*", q.kind} # {} \/ f.kinds = {}
        \/ "Pod" \in f.kinds /\ q.kind \in auto
    BY DEF KindMatches, Autogens, Excludes, Plain
  <1>2. /\ f.namespaces # {} => TRUE \in f.namespaces
        /\ f.selector # "none" => f.selector \in l
    BY DEF NsMatches, SelectorMatches, Excludes, Plain
  <1>. QED  BY <1>1, <1>2 DEF Covers, Excludes

BlockReaches(b, kind) == \A f \in ResourceFilters(b).filters : Reaches(f, kind)

(* A block that hits the kind in the namespace.                              *)
BlockHits(b, kind, l, auto) ==
    /\ ResourceFilters(b).filters # {}
    /\ IF ResourceFilters(b).all
       THEN \A f \in ResourceFilters(b).filters : KindMatches(f, kind, auto) /\ NsMatches(f, l)
       ELSE \E f \in ResourceFilters(b).filters : KindMatches(f, kind, auto) /\ NsMatches(f, l)

(* A match block that covers a request of the kind hits.                     *)
LEMMA CoveringBlockHits ==
    \A b, q, kind, l, auto :
        (/\ kind.name \in {"", q.kind} /\ BlockCovers(b, q, l, auto)
         /\ ~OnlyUsers(b) /\ BlockReaches(b, kind))
        => BlockHits(b, kind, l, auto)
  <1>. TAKE b, q, kind, l, auto
  <1>. HAVE /\ kind.name \in {"", q.kind} /\ BlockCovers(b, q, l, auto)
            /\ ~OnlyUsers(b) /\ BlockReaches(b, kind)
  <1>. DEFINE rf == ResourceFilters(b)
  <1>1. /\ rf.filters # {}
        /\ IF rf.all THEN \A f \in rf.filters : Covers(f, q, l, auto)
                     ELSE \E f \in rf.filters : Covers(f, q, l, auto)
    BY BlocksAgree
  <1>2. \A f \in rf.filters : Covers(f, q, l, auto) => KindMatches(f, kind, auto) /\ NsMatches(f, l)
    BY CoveredIsHit DEF BlockReaches
  <1>. QED  BY <1>1, <1>2 DEF BlockHits

--------------------------------------------------------------------------------
(* Rules.                                                                    *)

PlainExcludes(r, kind) ==
    \A f \in ExcludeFilters(r) : f.object = {} /\ ~HasSubjects(f) => Plain(f, kind)

(* A rule some request of the kind comes under applies to the kind, if its   *)
(* match block names resources, none of its match filters has to be reached  *)
(* through autogen in another case, and none of its certain exclude filters  *)
(* excludes more than Kyverno does.                                          *)
LEMMA CoveringRuleApplies ==
    \A pol, r, q, kind, l :
        (/\ kind.name \in {"", q.kind} /\ RuleCovers(pol, r, q, l)
         /\ ~OnlyUsers(r.match) /\ BlockReaches(r.match, kind) /\ PlainExcludes(r, kind))
        => RuleApplies(r, kind, l, Controllers(pol, r))
  <1>. TAKE pol, r, q, kind, l
  <1>. HAVE /\ kind.name \in {"", q.kind} /\ RuleCovers(pol, r, q, l)
            /\ ~OnlyUsers(r.match) /\ BlockReaches(r.match, kind) /\ PlainExcludes(r, kind)
  <1>. DEFINE auto == Controllers(pol, r)
              ma == ResourceFilters(r.match)
              ex == ResourceFilters(r.exclude)
              Hit(f) == KindMatches(f, kind, auto) /\ NsMatches(f, l)
  <1>1. /\ ma.filters # {}
        /\ IF ma.all THEN \A f \in ma.filters : Hit(f) ELSE \E f \in ma.filters : Hit(f)
    <2>1. BlockCovers(r.match, q, l, auto)
      BY DEF RuleCovers
    <2>2. BlockHits(r.match, kind, l, auto)
      BY <2>1, CoveringBlockHits, Zenon
    <2>. QED  BY <2>2 DEF BlockHits
  <1>2. \A f \in ex.filters : Excludes(f, kind, l, auto) => Covers(f, q, l, auto)
    <2>1. \A f \in ex.filters : Excludes(f, kind, l, auto) => Plain(f, kind)
      BY DEF PlainExcludes, ExcludeFilters, Excludes
    <2>. QED  BY <2>1, ExcludedIsCovered
  <1>3. ~Hits(ex, LAMBDA f : Excludes(f, kind, l, auto))
    <2>1. ~BlockCovers(r.exclude, q, l, auto)
      BY DEF RuleCovers
    <2>2. ASSUME Hits(ex, LAMBDA f : Excludes(f, kind, l, auto)) PROVE FALSE
      <3>1. IF ex.all THEN \A f \in ex.filters : Excludes(f, kind, l, auto)
                      ELSE \E f \in ex.filters : Excludes(f, kind, l, auto)
        BY <2>2 DEF Hits
      <3>2. ex.filters # {}
        BY <3>1, AllOfSome
      <3>3. IF ex.all THEN \A f \in ex.filters : Covers(f, q, l, auto)
                      ELSE \E f \in ex.filters : Covers(f, q, l, auto)
        BY <3>1, <1>2
      <3>4. ~OnlyUsers(r.exclude)
        BY <3>2 DEF OnlyUsers, ResourceFilters, FlattenFilter
      <3>. QED  BY <3>2, <3>3, <3>4, <2>1, BlocksAgree
    <2>. QED  BY <2>2
  <1>4. Hits(ma, LAMBDA f : KindMatches(f, kind, auto) /\ NsMatches(f, l))
    BY <1>1 DEF Hits
  <1>. QED  BY <1>1, <1>3, <1>4 DEF RuleApplies

(* A decidable rule that applies to a kind and shows no condition covers     *)
(* every request of the kind.                                                *)
LEMMA ApplyingRuleCovers ==
    ASSUME NEW pol, NEW r, NEW q, NEW kind, NEW l,
           kind.exact = TRUE, kind.name = q.kind, kind.name # "", Decidable(r),
           RuleApplies(r, kind, l, Controllers(pol, r)),
           OnlyIf(r, kind, l, Controllers(pol, r)) = {}
    PROVE  RuleCovers(pol, r, q, l)
  <1>. DEFINE auto == Controllers(pol, r)
              ma == ResourceFilters(r.match)
              ex == ResourceFilters(r.exclude)
              Hit(f) == KindMatches(f, kind, auto) /\ NsMatches(f, l)
  <1>1. /\ r.preconditions = {}
        /\ \A f \in ma.filters : Hit(f) => f.object = {}
    <2>1. r.preconditions \cup UNION { f.object : f \in { g \in ma.filters : Hit(g) } } = {}
      BY DEF OnlyIf
    <2>2. ASSUME NEW f \in ma.filters, Hit(f), NEW x \in f.object PROVE FALSE
      <3>1. f \in { g \in ma.filters : Hit(g) }
        BY <2>2
      <3>. HIDE DEF Hit, ma
      <3>. QED  BY <3>1, <2>1, <2>2
    <2>. HIDE DEF Hit, ma
    <2>. QED  BY <2>1, <2>2
  <1>2. \A f \in ma.filters : Hit(f) => Covers(f, q, l, auto)
    <2>1. \A f \in ma.filters : Hit(f) => Plain(f, kind) /\ Excludes(f, kind, l, auto)
      BY <1>1 DEF Decidable, Plain, Excludes
    <2>. QED  BY <2>1, ExcludedIsCovered
  <1>3. BlockCovers(r.match, q, l, auto)
    <2>1. /\ ma.filters # {}
          /\ IF ma.all THEN \A f \in ma.filters : Hit(f) ELSE \E f \in ma.filters : Hit(f)
      BY DEF RuleApplies, Hits
    <2>2. ~OnlyUsers(r.match)
      BY <2>1 DEF OnlyUsers, ResourceFilters, FlattenFilter
    <2>. QED  BY <2>1, <2>2, <1>2, BlocksAgree
  <1>4. \A f \in ex.filters : Covers(f, q, l, auto) => Excludes(f, kind, l, auto)
    <2>1. \A f : Reaches(f, kind)
      BY DEF Reaches
    <2>. QED  BY <2>1, CoveredIsHit DEF Decidable, ExcludeFilters, Excludes
  <1>5. ~BlockCovers(r.exclude, q, l, auto)
    <2>1. ~(IF ex.all THEN \A f \in ex.filters : Excludes(f, kind, l, auto)
                      ELSE \E f \in ex.filters : Excludes(f, kind, l, auto))
      BY DEF RuleApplies, Hits
    <2>2. ~OnlyUsers(r.exclude)
      BY DEF Decidable
    <2>. QED  BY <2>1, <2>2, <1>4, BlocksAgree
  <1>. QED  BY <1>1, <1>3, <1>5 DEF RuleCovers

--------------------------------------------------------------------------------
(* The reads of a call.                                                      *)

(* The limit each tool gives to the read of a resource.                      *)
LimitOf(a, r) ==
    CASE a.tool = "list_pods" /\ r = "pods" -> Limit(a.limit, MaxPods)
      [] a.tool = "list_resource" /\ r = "items" -> Limit(a.limit, MaxResources)
      [] a.tool = "pod_logs" /\ r = "log" -> IF a.limit > MaxTail THEN MaxTail ELSE a.limit
      [] a.tool = "list_events" /\ r = "events" -> DefaultListLimit
      [] a.tool = "get_pod" /\ r = "events" -> ObjectEvents
      [] OTHER -> 0

(* A read as a handler makes it.                                             *)
IsRead(a, step) ==
    /\ DOMAIN step = {"part", "get", "must", "limit", "tries"}
    /\ step.limit = LimitOf(a, step.part[1])
    /\ step.part[1] \in {"namespace", "object"} => step.get
    /\ step.must \/ Extra(a.tool, step.part[1])

(* Reads of different parts.                                                 *)
IsPlan(a, h) ==
    /\ h \in Seq(Range(h))
    /\ \A i \in DOMAIN h : IsRead(a, h[i])
    /\ \A i, j \in DOMAIN h : h[i].part = h[j].part => i = j

(* The reads that handlers are made of.                                      *)
LEMMA ReadOf ==
    \A r, get, must, limit, tries :
        /\ Read(r, get, must, limit, tries).part = <<r, "">>
        /\ \A a : (/\ get \in BOOLEAN /\ must \in BOOLEAN /\ limit = LimitOf(a, r)
                   /\ r \in {"namespace", "object"} => get
                   /\ must \/ Extra(a.tool, r))
                  => IsRead(a, Read(r, get, must, limit, tries))
  <1>. TAKE r, get, must, limit, tries
  <1>. DEFINE s == Read(r, get, must, limit, tries)
  <1>1. /\ DOMAIN s = {"part", "get", "must", "limit", "tries"}
        /\ s.part = <<r, "">> /\ s.get = get /\ s.must = must /\ s.limit = limit
    BY DEF Read
  <1>2. <<r, "">>[1] = r
    OBVIOUS
  <1>. HIDE DEF s
  <1>3. s.part[1] = r
    BY <1>1, <1>2
  <1>4. \A a : (/\ get \in BOOLEAN /\ must \in BOOLEAN /\ limit = LimitOf(a, r)
                /\ r \in {"namespace", "object"} => get
                /\ must \/ Extra(a.tool, r))
               => IsRead(a, s)
    BY <1>1, <1>3 DEF IsRead
  <1>. QED  BY <1>1, <1>4 DEF s

LEMMA GetListTry ==
    \A r : /\ Get(r).part = <<r, "">>
           /\ \A n : List(r, n).part = <<r, "">> /\ Try(r, n).part = <<r, "">>
           /\ \A a : LimitOf(a, r) = 0 => IsRead(a, Get(r))
           /\ \A a : r \notin {"namespace", "object"} => IsRead(a, List(r, LimitOf(a, r)))
           /\ \A a : r \notin {"namespace", "object"} /\ Extra(a.tool, r)
                    => IsRead(a, Try(r, LimitOf(a, r)))
  <1>. TAKE r
  <1>1. Get(r).part = <<r, "">> /\ \A n : List(r, n).part = <<r, "">> /\ Try(r, n).part = <<r, "">>
    BY ReadOf DEF Get, List, Try
  <1>2. \A a : LimitOf(a, r) = 0 => IsRead(a, Read(r, TRUE, TRUE, 0, 1))
    BY ReadOf
  <1>3. \A a : r \notin {"namespace", "object"} => IsRead(a, Read(r, FALSE, TRUE, LimitOf(a, r), 1))
    BY ReadOf
  <1>4. \A a : r \notin {"namespace", "object"} /\ Extra(a.tool, r)
              => IsRead(a, Read(r, FALSE, FALSE, LimitOf(a, r), 1))
    BY ReadOf
  <1>. QED  BY <1>1, <1>2, <1>3, <1>4 DEF Get, List, Try

(* A handler that makes one read.                                            *)
LEMMA OneListRead ==
    ASSUME NEW r, NEW n
    PROVE  1 \in DOMAIN << List(r, n) >> /\ << List(r, n) >>[1].part = <<r, "">>
  <1>1. 1 \in DOMAIN << List(r, n) >> /\ << List(r, n) >>[1] = List(r, n)
    OBVIOUS
  <1>. QED  BY <1>1, GetListTry

(* Different resources are different parts.                                  *)
LEMMA PartsDiffer == \A r, t : r # t => <<r, "">> # <<t, "">>
  OBVIOUS

(* A handler with one read, with two, three and four.                        *)
LEMMA OneRead ==
    ASSUME NEW a, NEW s, IsRead(a, s)
    PROVE  IsPlan(a, <<s>>)
  BY DEF IsPlan, Range

LEMMA TwoReads ==
    ASSUME NEW a, NEW s, NEW t, IsRead(a, s), IsRead(a, t), s.part # t.part
    PROVE  IsPlan(a, <<s, t>>)
  <1>. DEFINE h == <<s, t>>
  <1>1. DOMAIN h = {1, 2} /\ h[1] = s /\ h[2] = t
    OBVIOUS
  <1>2. Range(h) = {s, t}
    BY <1>1 DEF Range
  <1>3. h \in Seq({s, t})
    OBVIOUS
  <1>. HIDE DEF h
  <1>4. IsPlan(a, h)
    BY <1>1, <1>2, <1>3 DEF IsPlan
  <1>. QED  BY <1>4 DEF h

LEMMA ThreeReads ==
    ASSUME NEW a, NEW s, NEW t, NEW u, IsRead(a, s), IsRead(a, t), IsRead(a, u),
           s.part # t.part, s.part # u.part, t.part # u.part
    PROVE  IsPlan(a, <<s, t, u>>)
  <1>. DEFINE h == <<s, t, u>>
  <1>1. DOMAIN h = {1, 2, 3} /\ h[1] = s /\ h[2] = t /\ h[3] = u
    OBVIOUS
  <1>2. Range(h) = {s, t, u}
    BY <1>1 DEF Range
  <1>3. h \in Seq({s, t, u})
    OBVIOUS
  <1>. HIDE DEF h
  <1>4. IsPlan(a, h)
    BY <1>1, <1>2, <1>3 DEF IsPlan
  <1>. QED  BY <1>4 DEF h

LEMMA FourReads ==
    ASSUME NEW a, NEW s, NEW t, NEW u, NEW w,
           IsRead(a, s), IsRead(a, t), IsRead(a, u), IsRead(a, w),
           s.part # t.part, s.part # u.part, s.part # w.part,
           t.part # u.part, t.part # w.part, u.part # w.part
    PROVE  IsPlan(a, <<s, t, u, w>>)
  <1>. DEFINE h == <<s, t, u, w>>
  <1>1. DOMAIN h = {1, 2, 3, 4} /\ h[1] = s /\ h[2] = t /\ h[3] = u /\ h[4] = w
    OBVIOUS
  <1>2. Range(h) = {s, t, u, w}
    BY <1>1 DEF Range
  <1>3. h \in Seq({s, t, u, w})
    OBVIOUS
  <1>. HIDE DEF h
  <1>4. IsPlan(a, h)
    BY <1>1, <1>2, <1>3 DEF IsPlan
  <1>. QED  BY <1>4 DEF h

(* What a handler plans to read.                                             *)
LEMMA HandlerPlans ==
    ASSUME NEW a, a.tool \in Tools
    PROVE  IsPlan(a, Handler(a))
  <1>1. CASE a.tool = "list_pods"
    <2>1. Handler(a) = HandleListPods(a)
      BY <1>1 DEF Handler
    <2>. QED  BY <1>1, <2>1, OneRead, GetListTry DEF HandleListPods, LimitOf
  <1>2. CASE a.tool = "pod_logs"
    <2>1. Handler(a) = HandlePodLogs(a)
      BY <1>2 DEF Handler
    <2>. QED  BY <1>2, <2>1, OneRead, GetListTry DEF HandlePodLogs, LimitOf
  <1>3. CASE a.tool = "list_events"
    <2>1. Handler(a) = HandleListEvents(a)
      BY <1>3 DEF Handler
    <2>. QED  BY <1>3, <2>1, OneRead, GetListTry DEF HandleListEvents, LimitOf
  <1>4. CASE a.tool = "list_services"
    <2>1. Handler(a) = HandleListServices(a)
      BY <1>4 DEF Handler
    <2>. QED  BY <1>4, <2>1, OneRead, GetListTry DEF HandleListServices, LimitOf
  <1>5. CASE a.tool = "list_routes"
    <2>1. Handler(a) = HandleListRoutes(a)
      BY <1>5 DEF Handler
    <2>. QED  BY <1>5, <2>1, OneRead, GetListTry DEF HandleListRoutes, LimitOf
  <1>6. CASE a.tool = "list_pvcs"
    <2>1. Handler(a) = HandleListPVCs(a)
      BY <1>6 DEF Handler
    <2>. QED  BY <1>6, <2>1, OneRead, GetListTry DEF HandleListPVCs, LimitOf
  <1>7. CASE a.tool = "top_pods"
    <2>1. Handler(a) = HandleTopPods(a)
      BY <1>7 DEF Handler
    <2>. QED  BY <1>7, <2>1, OneRead, GetListTry DEF HandleTopPods, LimitOf
  <1>8. CASE a.tool = "list_nodes"
    <2>1. Handler(a) = HandleListNodes(a)
      BY <1>8 DEF Handler
    <2>. QED  BY <1>8, <2>1, OneRead, GetListTry DEF HandleListNodes, LimitOf
  <1>9. CASE a.tool = "get_node"
    <2>1. Handler(a) = HandleGetNode(a)
      BY <1>9 DEF Handler
    <2>. QED  BY <1>9, <2>1, OneRead, GetListTry DEF HandleGetNode, LimitOf
  <1>10. CASE a.tool = "get_resource"
    <2>1. Handler(a) = HandleGetResource(a)
      BY <1>10 DEF Handler
    <2>. QED  BY <1>10, <2>1, OneRead, GetListTry DEF HandleGetResource, LimitOf
  <1>11. CASE a.tool = "list_resource"
    <2>1. Handler(a) = HandleListResource(a)
      BY <1>11 DEF Handler
    <2>. QED  BY <1>11, <2>1, OneRead, GetListTry DEF HandleListResource, LimitOf
  <1>12. CASE a.tool = "list_certificates"
    <2>1. Handler(a) = HandleListCertificates(a)
      BY <1>12 DEF Handler
    <2>. QED  BY <1>12, <2>1, OneRead, GetListTry DEF HandleListCertificates, LimitOf
  <1>13. CASE a.tool = "get_policy_report"
    <2>1. Handler(a) = HandleGetPolicyReport(a)
      BY <1>13 DEF Handler
    <2>. QED  BY <1>13, <2>1, OneRead, GetListTry DEF HandleGetPolicyReport, LimitOf
  <1>14. CASE a.tool = "list_teams"
    <2>1. Handler(a) = HandleListTeams(a)
      BY <1>14 DEF Handler
    <2>. QED  BY <1>14, <2>1, OneRead, GetListTry DEF HandleListTeams, LimitOf
  <1>15. CASE a.tool = "get_pod"
    <2>1. Handler(a) = HandleGetPod(a)
      BY <1>15 DEF Handler
    <2>2. Handler(a) = << Get("pod"), Try("events", LimitOf(a, "events")) >>
      BY <1>15, <2>1 DEF HandleGetPod, PodEvents, LimitOf
    <2>3. IsRead(a, Get("pod")) /\ IsRead(a, Try("events", LimitOf(a, "events")))
      BY <1>15, GetListTry DEF LimitOf, Extra
    <2>4. /\ Get("pod").part = <<"pod", "">> /\ "pod" # "events"
          /\ Try("events", LimitOf(a, "events")).part = <<"events", "">>
      BY GetListTry
    <2>. QED  BY <2>2, <2>3, <2>4, TwoReads, PartsDiffer
  <1>16. CASE a.tool = "get_service"
    <2>1. Handler(a) = HandleGetService(a)
      BY <1>16 DEF Handler
    <2>2. Handler(a) = << Get("service"), List("slices", LimitOf(a, "slices")) >>
      BY <1>16, <2>1 DEF HandleGetService, LimitOf
    <2>3. IsRead(a, Get("service")) /\ IsRead(a, List("slices", LimitOf(a, "slices")))
      BY <1>16, GetListTry DEF LimitOf, Extra
    <2>4. /\ Get("service").part = <<"service", "">> /\ "service" # "slices"
          /\ List("slices", LimitOf(a, "slices")).part = <<"slices", "">>
      BY GetListTry
    <2>. QED  BY <2>2, <2>3, <2>4, TwoReads, PartsDiffer
  <1>17. CASE a.tool = "get_quota"
    <2>1. Handler(a) = HandleGetQuota(a)
      BY <1>17 DEF Handler
    <2>2. Handler(a) = << List("quotas", LimitOf(a, "quotas")),
                          List("limitranges", LimitOf(a, "limitranges")) >>
      BY <1>17, <2>1 DEF HandleGetQuota, LimitOf
    <2>3. /\ IsRead(a, List("quotas", LimitOf(a, "quotas")))
          /\ IsRead(a, List("limitranges", LimitOf(a, "limitranges")))
      BY <1>17, GetListTry DEF LimitOf, Extra
    <2>4. /\ List("quotas", LimitOf(a, "quotas")).part = <<"quotas", "">>
          /\ List("limitranges", LimitOf(a, "limitranges")).part = <<"limitranges", "">>
          /\ "quotas" # "limitranges"
      BY GetListTry
    <2>. QED  BY <2>2, <2>3, <2>4, TwoReads, PartsDiffer
  <1>18. CASE a.tool = "list_workloads"
    <2>1. Handler(a) = HandleListWorkloads(a)
      BY <1>18 DEF Handler
    <2>. DEFINE L(r) == List(r, LimitOf(a, r))
    <2>2. Handler(a) = << L("deployments"), L("statefulsets"), L("daemonsets") >>
      BY <1>18, <2>1 DEF HandleListWorkloads, LimitOf
    <2>3. \A r \in {"deployments", "statefulsets", "daemonsets"} :
              IsRead(a, L(r)) /\ L(r).part = <<r, "">>
      BY GetListTry
    <2>. HIDE DEF L
    <2>. QED  BY <2>2, <2>3, ThreeReads, PartsDiffer
  <1>19. CASE a.tool = "list_policies"
    <2>. DEFINE x == Read("exceptions", FALSE, FALSE, LimitOf(a, "exceptions"), 2)
    <2>1. Handler(a) = HandleListPolicies(a)
      BY <1>19 DEF Handler
    <2>2. Handler(a) = << Get("namespace"), List("clusterpolicies", LimitOf(a, "clusterpolicies")),
                          Try("policies", LimitOf(a, "policies")), x >>
      BY <1>19, <2>1 DEF HandleListPolicies, LimitOf
    <2>3. x.part = <<"exceptions", "">> /\ IsRead(a, x)
      BY <1>19, ReadOf DEF Extra
    <2>. DEFINE n == Get("namespace")
                c == List("clusterpolicies", LimitOf(a, "clusterpolicies"))
                p == Try("policies", LimitOf(a, "policies"))
    <2>4. n.part = <<"namespace", "">> /\ IsRead(a, n)
      BY <1>19, GetListTry DEF LimitOf
    <2>5. c.part = <<"clusterpolicies", "">> /\ IsRead(a, c)
      BY GetListTry
    <2>6. p.part = <<"policies", "">> /\ IsRead(a, p)
      BY <1>19, GetListTry DEF Extra
    <2>7. Handler(a) = <<n, c, p, x>>
      BY <2>2
    <2>. HIDE DEF n, c, p, x
    <2>. QED  BY <2>3, <2>4, <2>5, <2>6, <2>7, FourReads, PartsDiffer
  <1>20. CASE a.tool = "get_workload"
    <2>1. Handler(a) = HandleGetWorkload(a)
      BY <1>20 DEF Handler
    <2>2. CASE a.kind.name \in {"deployment", "statefulset", "daemonset"}
      <3>1. Handler(a) = << Get(a.kind.name), Try("pods", LimitOf(a, "pods")) >>
        BY <1>20, <2>1, <2>2 DEF HandleGetWorkload, LimitOf
      <3>2. IsRead(a, Get(a.kind.name)) /\ IsRead(a, Try("pods", LimitOf(a, "pods")))
        BY <1>20, <2>2, GetListTry DEF LimitOf, Extra
      <3>3. /\ Get(a.kind.name).part = <<a.kind.name, "">> /\ a.kind.name # "pods"
            /\ Try("pods", LimitOf(a, "pods")).part = <<"pods", "">>
        BY <2>2, GetListTry
      <3>. QED  BY <3>1, <3>2, <3>3, TwoReads, PartsDiffer
    <2>3. CASE a.kind.name \notin {"deployment", "statefulset", "daemonset"}
      <3>1. Handler(a) = << >>
        BY <2>1, <2>3 DEF HandleGetWorkload
      <3>. QED  BY <3>1 DEF IsPlan
    <2>. QED  BY <2>2, <2>3
  <1>. QED
    BY <1>1, <1>2, <1>3, <1>4, <1>5, <1>6, <1>7, <1>8, <1>9, <1>10,
       <1>11, <1>12, <1>13, <1>14, <1>15, <1>16, <1>17, <1>18, <1>19, <1>20 DEF Tools

--------------------------------------------------------------------------------
(* The invariant of a call: the reads to come and what was read so far.      *)

PObject == <<"object", "">>
PServices == <<"services", "">>

Planned == { plan[i].part : i \in DOMAIN plan }
Wanted == { Handler(ask)[i].part : i \in DOMAIN Handler(ask) }

(* What a part holds and has held.                                           *)
WorldInv ==
    /\ DOMAIN seen = DOMAIN cluster /\ changes \in Nat
    /\ \A p \in DOMAIN cluster : /\ cluster[p] \in seen[p] /\ p[1] \in DOMAIN Holds
                                  /\ \A v \in seen[p] : Holding(p[1], v)

(* The reads to come are of parts that are there and not read yet.           *)
PlanInv ==
    /\ ask.tool \in Tools /\ ask.limit \in Int
    /\ IsPlan(ask, plan)
    /\ Planned \subseteq DOMAIN cluster \ DOMAIN got

(* What was read is what the server returned at some moment; what was        *)
(* dropped is empty and may fail; an object that is needed was there, and    *)
(* of a log no less than nothing was asked for.                              *)
GotInv ==
    /\ dropped \subseteq DOMAIN got /\ DOMAIN got \subseteq DOMAIN cluster
    /\ \A p \in dropped : Extra(ask.tool, p[1]) /\ got[p].items = << >>
    /\ \A p \in DOMAIN got \ dropped :
          /\ \E v \in seen[p] : got[p] = Serve(p[1], LimitOf(ask, p[1]), v)
          /\ p[1] \in {"namespace", "object"} => got[p].items # << >>
          /\ p[1] = "log" => LimitOf(ask, p[1]) >= 0

(* Nothing the handler wants is forgotten, but for the pods of a workload    *)
(* without a selector; list_services wants the slices of each service.       *)
SlicesOf(S) == { <<"slices", s>> : s \in S }

CompleteInv ==
    /\ ask.tool # "get_workload" => Wanted \subseteq Planned \cup DOMAIN got
    /\ ask.tool = "list_services" =>
          /\ PServices \in DOMAIN cluster
          /\ \A v \in seen[PServices] \cup Holds["services"] :
                SlicesOf(Range(v)) \subseteq DOMAIN cluster
          /\ \/ plan = HandleListServices(ask) /\ DOMAIN got = {}
             \/ /\ PServices \in DOMAIN got
                /\ \A p \in Planned : p[1] # "services"
                /\ SlicesOf(Range(Items("services"))) \subseteq Planned \cup DOMAIN got

ReadInv == PlanInv /\ GotInv /\ CompleteInv

(* The parts of the reads, one by one.                                       *)
LEMMA NonePlanned ==
    ASSUME plan = << >>
    PROVE  Planned = {}
  BY DEF Planned

LEMMA PartNames ==
    /\ \A r, t : <<r, t>>[1] = r
    /\ PObject[1] = "object" /\ PServices[1] = "services"
  BY DEF PObject, PServices

(* The next read of a plan, and the plan after it.                           *)
LEMMA NextRead ==
    ASSUME NEW a, IsPlan(a, plan), plan # << >>
    PROVE  /\ IsRead(a, Head(plan)) /\ Head(plan) = plan[1] /\ 1 \in DOMAIN plan
           /\ IsPlan(a, Tail(plan))
           /\ { Tail(plan)[i].part : i \in DOMAIN Tail(plan) } = Planned \ {Head(plan).part}
  <1>1. /\ plan \in Seq(Range(plan)) /\ Len(plan) \in Nat /\ Len(plan) > 0
        /\ DOMAIN plan = 1..Len(plan) /\ Head(plan) = plan[1]
    BY DEF IsPlan
  <1>2. /\ DOMAIN Tail(plan) = 1..(Len(plan) - 1)
        /\ \A i \in 1..(Len(plan) - 1) : Tail(plan)[i] = plan[i + 1]
    BY <1>1
  <1>3. Tail(plan) \in Seq(Range(Tail(plan)))
    <2>1. Tail(plan) \in Seq(Range(plan))
      BY <1>1
    <2>. QED  BY <2>1, SeqOfRange
  <1>4. \A i \in DOMAIN Tail(plan) : IsRead(a, Tail(plan)[i])
    BY <1>1, <1>2 DEF IsPlan
  <1>5. \A i, j \in DOMAIN Tail(plan) : Tail(plan)[i].part = Tail(plan)[j].part => i = j
    <2>. SUFFICES ASSUME NEW i \in DOMAIN Tail(plan), NEW j \in DOMAIN Tail(plan),
                         Tail(plan)[i].part = Tail(plan)[j].part
                  PROVE  i = j
      OBVIOUS
    <2>1. plan[i + 1].part = plan[j + 1].part /\ i + 1 \in DOMAIN plan /\ j + 1 \in DOMAIN plan
      BY <1>1, <1>2
    <2>2. i + 1 = j + 1
      BY <2>1 DEF IsPlan
    <2>. QED  BY <1>2, <2>2
  <1>6. { Tail(plan)[i].part : i \in DOMAIN Tail(plan) } = Planned \ {plan[1].part}
    <2>1. \A i \in DOMAIN Tail(plan) : /\ Tail(plan)[i].part \in Planned
                                        /\ Tail(plan)[i].part # plan[1].part
      <3>. TAKE i \in DOMAIN Tail(plan)
      <3>1. i + 1 \in DOMAIN plan /\ Tail(plan)[i] = plan[i + 1] /\ 1 \in DOMAIN plan /\ i + 1 # 1
        BY <1>1, <1>2
      <3>. QED  BY <3>1 DEF IsPlan, Planned
    <2>2. \A p \in Planned \ {plan[1].part} : \E i \in DOMAIN Tail(plan) : p = Tail(plan)[i].part
      <3>. TAKE p \in Planned \ {plan[1].part}
      <3>1. PICK j \in DOMAIN plan : p = plan[j].part
        BY DEF Planned
      <3>2. j # 1
        BY <3>1
      <3>3. j - 1 \in DOMAIN Tail(plan) /\ Tail(plan)[j - 1] = plan[j]
        BY <1>1, <1>2, <3>2
      <3>. QED  BY <3>1, <3>3
    <2>. QED  BY <2>1, <2>2
  <1>. QED  BY <1>1, <1>3, <1>4, <1>5, <1>6 DEF IsPlan

(* A read without a limit returns all that the part holds.                   *)
LEMMA WholePart ==
    ASSUME NEW r, NEW v, r # "log"
    PROVE  Serve(r, 0, v) = [items |-> v, more |-> FALSE] /\ Serve(r, 0, v).items = v
  <1>1. ~(0 \in 1..(Len(v) - 1))
    OBVIOUS
  <1>2. Serve(r, 0, v) = [items |-> v, more |-> FALSE]
    BY <1>1, Zenon DEF Serve
  <1>. QED  BY <1>2

(* One more part is read, and recorded with what it holds or dropped.        *)
LEMMA RecordedRead ==
    ASSUME GotInv, NEW p \in DOMAIN cluster, p \notin DOMAIN got, NEW r, got' = Recorded(p, r),
           seen' = seen, cluster' = cluster, ask' = ask,
           \/ /\ dropped' = dropped
              /\ \E v \in seen[p] : r = Serve(p[1], LimitOf(ask, p[1]), v)
              /\ p[1] \in {"namespace", "object"} => r.items # << >>
              /\ p[1] = "log" => LimitOf(ask, p[1]) >= 0
           \/ /\ dropped' = dropped \cup {p} /\ r.items = << >>
              /\ Extra(ask.tool, p[1])
    PROVE  /\ GotInv' /\ DOMAIN got' = DOMAIN got \cup {p}
           /\ got'[p] = r /\ \A q \in DOMAIN got : got'[q] = got[q]
  <1>1. /\ DOMAIN got' = DOMAIN got \cup {p} /\ got'[p] = r
        /\ \A q \in DOMAIN got : got'[q] = got[q]
    BY DEF Recorded
  <1>2. \A q \in DOMAIN got : q # p
    OBVIOUS
  <1>3. dropped \subseteq DOMAIN got
    BY DEF GotInv
  <1>4. ASSUME NEW q \in DOMAIN got' \ dropped'
        PROVE  /\ \E v \in seen[q] : got'[q] = Serve(q[1], LimitOf(ask, q[1]), v)
               /\ q[1] \in {"namespace", "object"} => got'[q].items # << >>
               /\ q[1] = "log" => LimitOf(ask, q[1]) >= 0
    <2>1. CASE q = p
      BY <1>1, <1>4, <2>1
    <2>2. CASE q # p
      BY <1>1, <1>4, <2>2 DEF GotInv
    <2>. QED  BY <2>1, <2>2
  <1>5. ASSUME NEW q \in dropped'
        PROVE  Extra(ask.tool, q[1]) /\ got'[q].items = << >>
    <2>1. CASE q \in dropped
      BY <1>1, <1>3, <2>1 DEF GotInv
    <2>2. CASE q \notin dropped
      BY <1>1, <1>5, <2>2
    <2>. QED  BY <2>1, <2>2
  <1>6. dropped' \subseteq DOMAIN got' /\ DOMAIN got' \subseteq DOMAIN cluster'
    BY <1>1 DEF GotInv
  <1>. QED  BY <1>1, <1>4, <1>5, <1>6 DEF GotInv

(* The next read of a call.                                                  *)
LEMMA NextPart ==
    ASSUME ReadInv, plan # << >>
    PROVE  LET step == Head(plan)
           IN  /\ IsRead(ask, step) /\ step.part \in Planned
               /\ step.part \in DOMAIN cluster /\ step.part \notin DOMAIN got
  BY NextRead DEF ReadInv, PlanInv, Planned

(* When list_services has its list, the plan is the slices of each service.  *)
LEMMA SlicesAreNext ==
    ASSUME NEW v, Holding("services", v), ask.tool = "list_services",
           plan' = [i \in DOMAIN v |-> EndpointCounts(v[i])]
    PROVE  IsPlan(ask, plan') /\ Planned' = SlicesOf(Range(v))
  <1>1. /\ v \in Seq(Range(v)) /\ DOMAIN v = 1..Len(v) /\ Len(v) \in Nat
        /\ \A i, j \in DOMAIN v : v[i] = v[j] => i = j
    BY DEF Holding, IsInjective
  <1>2. \A s : /\ EndpointCounts(s).part = <<"slices", s>>
               /\ IsRead(ask, EndpointCounts(s))
    <2>. TAKE s
    <2>. DEFINE t == Try("slices", 0)
                e == EndpointCounts(s)
    <2>1. /\ DOMAIN t = {"part", "get", "must", "limit", "tries"} /\ t.limit = 0
      BY DEF Try, Read
    <2>2. /\ DOMAIN e = DOMAIN t /\ e.part = <<"slices", s>> /\ e.limit = t.limit
      BY <2>1 DEF EndpointCounts
    <2>3. e.part[1] = "slices"
      BY <2>2, PartNames
    <2>4. LimitOf(ask, "slices") = 0 /\ Extra(ask.tool, "slices")
      BY DEF LimitOf, Extra
    <2>. HIDE DEF t, e
    <2>5. IsRead(ask, e)
      BY <2>1, <2>2, <2>3, <2>4 DEF IsRead
    <2>. QED  BY <2>2, <2>5 DEF e
  <1>3. /\ DOMAIN plan' = 1..Len(v)
        /\ \A i \in DOMAIN plan' : /\ plan'[i].part = <<"slices", v[i]>>
                                    /\ IsRead(ask, plan'[i])
    BY <1>1, <1>2
  <1>4. plan' \in Seq(Range(plan'))
    <2>1. plan' \in [1..Len(v) -> Range(plan')]
      BY <1>1 DEF Range
    <2>. QED  BY <1>1, <2>1, SeqDef
  <1>5. \A i, j \in DOMAIN plan' : plan'[i].part = plan'[j].part => i = j
    BY <1>1, <1>3
  <1>6. Planned' = SlicesOf(Range(v))
    <2>1. Planned' = { plan'[i].part : i \in DOMAIN v }
      BY <1>1, <1>3 DEF Planned
    <2>2. \A i \in DOMAIN v : plan'[i].part = <<"slices", v[i]>>
      BY <1>1, <1>3
    <2>3. Planned' = { <<"slices", v[i]>> : i \in DOMAIN v }
      BY <2>1, <2>2, Zenon
    <2>. QED  BY <2>3 DEF SlicesOf, Range
  <1>. QED  BY <1>3, <1>4, <1>5, <1>6 DEF IsPlan

(* Before its list is read, list_services plans nothing else.                *)
LEMMA ServicesFirst ==
    ASSUME plan = HandleListServices(ask)
    PROVE  Planned = {PServices}
  <1>1. plan = << List("services", 0) >>
    BY DEF HandleListServices
  <1>2. DOMAIN plan = {1} /\ plan[1] = List("services", 0)
    BY <1>1
  <1>3. List("services", 0).part = PServices
    BY GetListTry DEF PServices
  <1>. QED  BY <1>2, <1>3 DEF Planned

(* A read returns or is dropped, and the next ones are as they were planned. *)
LEMMA TailKeepsReadInv ==
    ASSUME ReadInv, plan # << >>, plan' = Tail(plan), ask' = ask, cluster' = cluster, seen' = seen,
           GotInv', DOMAIN got' = DOMAIN got \cup {Head(plan).part},
           \A q \in DOMAIN got : got'[q] = got[q],
           ask.tool = "list_services" => Head(plan).part[1] # "services"
    PROVE  ReadInv'
  <1>. DEFINE p == Head(plan).part
  <1>1. IsPlan(ask, Tail(plan)) /\ Planned' = Planned \ {p} /\ p \in Planned
    BY NextRead, NextPart DEF ReadInv, PlanInv, Planned
  <1>2. PlanInv'
    BY <1>1 DEF ReadInv, PlanInv
  <1>. HIDE DEF p
  <1>3. Wanted' = Wanted
    BY DEF Wanted
  <1>4. Planned \cup DOMAIN got \subseteq Planned' \cup DOMAIN got'
    BY <1>1 DEF p
  <1>5. ASSUME ask.tool = "list_services"
        PROVE  /\ PServices \in DOMAIN got'
               /\ \A q \in Planned' : q[1] # "services"
               /\ SlicesOf(Range(Items("services")))' \subseteq Planned' \cup DOMAIN got'
    <2>1. plan # HandleListServices(ask)
      BY <1>1, <1>5, ServicesFirst, PartNames DEF p
    <2>2. /\ PServices \in DOMAIN got
          /\ \A q \in Planned : q[1] # "services"
          /\ SlicesOf(Range(Items("services"))) \subseteq Planned \cup DOMAIN got
      BY <1>5, <2>1 DEF ReadInv, CompleteInv
    <2>3. Items("services")' = Items("services")
      BY <2>2 DEF Items, PServices
    <2>4. SlicesOf(Range(Items("services")))' = SlicesOf(Range(Items("services")))
      BY <2>3 DEF SlicesOf, Range
    <2>. QED  BY <1>1, <1>4, <2>2, <2>4
  <1>6. CompleteInv'
    BY <1>3, <1>4, <1>5 DEF ReadInv, CompleteInv
  <1>. QED  BY <1>2, <1>6 DEF ReadInv

(* A read returns.                                                           *)
LEMMA ServedKeepsReadInv ==
    ASSUME WorldInv, ReadInv, Served
    PROVE  ReadInv'
  <1>. DEFINE step == Head(plan)
              p == step.part
              v == cluster[p]
              r == Serve(p[1], step.limit, v)
  <1>1. /\ plan # << >> /\ ask' = ask /\ dropped' = dropped /\ seen' = seen /\ cluster' = cluster
        /\ step.get => v # << >>
        /\ p[1] = "log" => step.limit >= 0
        /\ got' = Recorded(p, r) /\ plan' = Rest(step, r.items)
    BY DEF Served, worldVars
  <1>2. IsRead(ask, step) /\ p \in Planned /\ p \in DOMAIN cluster /\ p \notin DOMAIN got
    BY <1>1, NextPart
  <1>3. v \in seen[p] /\ Holding(p[1], v)
    BY <1>2 DEF WorldInv
  <1>4. step.limit = LimitOf(ask, p[1]) /\ (p[1] \in {"namespace", "object"} => step.get)
    BY <1>2 DEF IsRead
  <1>5. ASSUME p[1] \in {"namespace", "object", "services"}
        PROVE  r.items = v
    <2>1. step.limit = 0 /\ p[1] # "log"
      BY <1>4, <1>5 DEF LimitOf
    <2>. QED  BY <2>1, WholePart
  <1>6. GotInv
    BY DEF ReadInv
  <1>. HIDE DEF v, r, p
  <1>7. p[1] \in {"namespace", "object"} => r.items # << >>
    BY <1>1, <1>4, <1>5
  <1>8. /\ \E w \in seen[p] : r = Serve(p[1], LimitOf(ask, p[1]), w)
        /\ p[1] = "log" => LimitOf(ask, p[1]) >= 0
    BY <1>1, <1>3, <1>4 DEF r
  <1>9. /\ GotInv' /\ DOMAIN got' = DOMAIN got \cup {p}
        /\ got'[p] = r /\ \A q \in DOMAIN got : got'[q] = got[q]
    BY <1>1, <1>2, <1>6, <1>7, <1>8, RecordedRead
  <1>10. CASE ask.tool = "list_services" /\ p[1] = "services"
    <2>1. plan = HandleListServices(ask) /\ DOMAIN got = {} /\ p = PServices
      BY <1>2, <1>10, ServicesFirst DEF ReadInv, CompleteInv
    <2>2. r.items = v /\ plan' = [i \in DOMAIN v |-> EndpointCounts(v[i])]
      BY <1>1, <1>5, <1>10, PartNames DEF Rest, p
    <2>3. Holding("services", v)
      BY <1>3, <1>10
    <2>4. IsPlan(ask, plan') /\ Planned' = SlicesOf(Range(v))
      BY <1>10, <2>2, <2>3, SlicesAreNext
    <2>5. SlicesOf(Range(v)) \subseteq DOMAIN cluster
      BY <1>3, <1>10, <2>1 DEF ReadInv, CompleteInv
    <2>6. \A q \in SlicesOf(Range(v)) : q[1] = "slices" /\ q # PServices
      BY PartNames DEF SlicesOf
    <2>7. PlanInv'
      BY <1>1, <1>9, <2>1, <2>4, <2>5, <2>6 DEF ReadInv, PlanInv
    <2>8. Wanted' = {PServices}
      <3>1. Handler(ask) = plan
        BY <1>10, <2>1 DEF Handler
      <3>2. Wanted = Planned
        BY <3>1 DEF Wanted, Planned
      <3>3. Wanted' = Wanted
        BY <1>1 DEF Wanted
      <3>. QED  BY <2>1, <3>2, <3>3, ServicesFirst
    <2>9. Items("services")' = v
      BY <1>9, <2>1, <2>2 DEF Items, PServices
    <2>10. SlicesOf(Range(Items("services")))' = SlicesOf(Range(v))
      BY <2>9 DEF SlicesOf, Range
    <2>11. CompleteInv'
      BY <1>1, <1>9, <2>1, <2>4, <2>6, <2>8, <2>10 DEF ReadInv, CompleteInv
    <2>. QED  BY <1>9, <2>7, <2>11 DEF ReadInv
  <1>11. CASE ~(ask.tool = "list_services" /\ p[1] = "services") /\ plan' = Tail(plan)
    BY <1>1, <1>9, <1>11, TailKeepsReadInv DEF p
  <1>12. CASE ask.tool = "get_workload" /\ plan' = << >>
    <2>1. IsPlan(ask', plan') /\ Planned' = {}
      BY <1>12 DEF IsPlan, Planned
    <2>. QED  BY <1>1, <1>9, <1>12, <2>1 DEF ReadInv, PlanInv, CompleteInv
  <1>. QED  BY <1>1, <1>10, <1>11, <1>12 DEF Rest, p

(* A read fails and its error is dropped.                                    *)
LEMMA TryFailsKeepsReadInv ==
    ASSUME ReadInv, TryFails
    PROVE  ReadInv'
  <1>. DEFINE step == Head(plan)
              p == step.part
              none == [items |-> << >>, more |-> FALSE]
  <1>1. /\ plan # << >> /\ ask' = ask /\ seen' = seen /\ cluster' = cluster /\ ~step.must
        /\ got' = Recorded(p, none) /\ dropped' = dropped \cup {p} /\ plan' = Tail(plan)
    BY DEF TryFails, worldVars
  <1>2. IsRead(ask, step) /\ p \in Planned /\ p \in DOMAIN cluster /\ p \notin DOMAIN got
    BY <1>1, NextPart
  <1>3. Extra(ask.tool, p[1]) /\ none.items = << >> /\ GotInv
    BY <1>1, <1>2 DEF IsRead, ReadInv
  <1>4. ask.tool = "list_services" => p[1] # "services"
    BY <1>3 DEF Extra
  <1>. HIDE DEF none, p
  <1>5. /\ GotInv' /\ DOMAIN got' = DOMAIN got \cup {p}
        /\ \A q \in DOMAIN got : got'[q] = got[q]
    BY <1>1, <1>2, <1>3, RecordedRead
  <1>. QED  BY <1>1, <1>4, <1>5, TailKeepsReadInv DEF p

(* The same read, of the older version of the API.                           *)
LEMMA NextVersionKeepsReadInv ==
    ASSUME ReadInv, NextVersion
    PROVE  ReadInv'
  <1>. DEFINE step == Head(plan)
              older == [step EXCEPT !.tries = @ - 1]
  <1>1. /\ plan # << >> /\ plan' = << older >> \o Tail(plan)
        /\ ask' = ask /\ got' = got /\ dropped' = dropped /\ seen' = seen /\ cluster' = cluster
    BY DEF NextVersion, worldVars
  <1>2. /\ IsPlan(ask, plan) /\ IsRead(ask, step) /\ step = plan[1] /\ 1 \in DOMAIN plan
    BY <1>1, NextRead DEF ReadInv, PlanInv
  <1>3. IsRead(ask, older) /\ older.part = step.part
    <2>1. DOMAIN step = {"part", "get", "must", "limit", "tries"}
      BY <1>2 DEF IsRead
    <2>2. /\ DOMAIN older = DOMAIN step /\ older.part = step.part /\ older.limit = step.limit
          /\ older.get = step.get /\ older.must = step.must
      BY <2>1
    <2>. HIDE DEF older, step
    <2>. QED  BY <1>2, <2>2 DEF IsRead
  <1>. HIDE DEF older, step
  <1>4. /\ plan \in Seq(Range(plan)) /\ DOMAIN plan = 1..Len(plan) /\ Len(plan) \in Nat \ {0}
    BY <1>1, <1>2 DEF IsPlan
  <1>5. /\ DOMAIN plan' = DOMAIN plan /\ plan'[1] = older
        /\ \A i \in DOMAIN plan : i # 1 => plan'[i] = plan[i]
    BY <1>1, <1>4
  <1>6. \A i \in DOMAIN plan : plan'[i].part = plan[i].part /\ IsRead(ask, plan'[i])
    BY <1>2, <1>3, <1>5 DEF IsPlan
  <1>7. IsPlan(ask, plan')
    <2>1. plan' \in Seq(Range(plan) \cup {older})
      BY <1>1, <1>4
    <2>2. plan' \in Seq(Range(plan'))
      BY <2>1, SeqOfRange
    <2>. QED  BY <1>2, <1>5, <1>6, <2>2 DEF IsPlan
  <1>8. Planned' = Planned
    BY <1>5, <1>6 DEF Planned
  <1>9. /\ Wanted' = Wanted
        /\ SlicesOf(Range(Items("services")))' = SlicesOf(Range(Items("services")))
    BY <1>1 DEF Wanted, SlicesOf, Range, Items
  <1>10. ASSUME ask.tool = "list_services" PROVE plan # HandleListServices(ask)
    <2>1. SUFFICES ASSUME plan = HandleListServices(ask) PROVE FALSE
      OBVIOUS
    <2>2. plan = << Read("services", FALSE, TRUE, 0, 1) >>
      BY <2>1 DEF HandleListServices, List
    <2>3. step.tries = 1
      BY <1>2, <2>2 DEF Read
    <2>. QED  BY <2>3 DEF NextVersion, step
  <1>11. GotInv'
    BY <1>1 DEF ReadInv, GotInv
  <1>. QED  BY <1>1, <1>7, <1>8, <1>9, <1>10, <1>11 DEF ReadInv, PlanInv, CompleteInv

--------------------------------------------------------------------------------
(* Redaction: the object without what is gone, and the walk over it.         *)

(* What a smaller set than the one that is gone would leave behind.          *)
LEMMA WhatIsGone ==
    ASSUME NEW o
    PROVE  /\ Noise(o) \cap DOMAIN o \subseteq Gone(o) /\ Gone(o) \subseteq DOMAIN o
           /\ \A j \in DOMAIN o : o[j].parent \in Gone(o) => j \in Gone(o)
           /\ \A j \in Gone(o) : j \in Noise(o) \/ o[j].parent \in Gone(o)
  <1>. DEFINE Closed(S) == /\ Noise(o) \subseteq S
                           /\ \A j \in DOMAIN o : o[j].parent \in S => j \in S
  <1>1. /\ Gone(o) \subseteq DOMAIN o
        /\ \A i \in DOMAIN o : i \in Gone(o) <=> \A S \in SUBSET DOMAIN o : Closed(S) => i \in S
    BY DEF Gone
  <1>2. Noise(o) \cap DOMAIN o \subseteq Gone(o)
    BY <1>1
  <1>3. \A j \in DOMAIN o : o[j].parent \in Gone(o) => j \in Gone(o)
    <2>. SUFFICES ASSUME NEW j \in DOMAIN o, o[j].parent \in Gone(o),
                         NEW S \in SUBSET DOMAIN o, Closed(S)
                  PROVE  j \in S
      BY <1>1
    <2>1. o[j].parent \in S
      BY <1>1
    <2>. QED  BY <2>1
  <1>4. \A j \in Gone(o) : j \in Noise(o) \/ o[j].parent \in Gone(o)
    <2>. SUFFICES ASSUME NEW j \in Gone(o), j \notin Noise(o), o[j].parent \notin Gone(o)
                  PROVE  FALSE
      OBVIOUS
    <2>. DEFINE S == Gone(o) \ {j}
    <2>0. Noise(o) \subseteq DOMAIN o
      BY DEF Noise, Field, Children
    <2>1. Closed(S)
      BY <1>2, <1>3, <2>0
    <2>2. S \in SUBSET DOMAIN o
      BY <1>1
    <2>. HIDE DEF S, Closed
    <2>3. j \in S
      BY <1>1, <2>1, <2>2
    <2>. QED  BY <2>3 DEF S
  <1>. QED  BY <1>1, <1>2, <1>3, <1>4

(* The values of an object that are kept: still a tree, without copies.      *)
IsTree(s) ==
    /\ IsFiniteSet(DOMAIN s) /\ DOMAIN s \subseteq Nat \ {0}
    /\ \A i \in DOMAIN s :
          /\ s[i] \in [parent : {0} \cup DOMAIN s, key : Keys, val : Vals \ (Written \cup {"copy"})]
          /\ s[i].parent < i /\ (s[i].parent # 0 => s[s[i].parent].val \in {"map", "list"})
          /\ s[i].key = "item" <=> s[i].parent # 0 /\ s[s[i].parent].val = "list"

LEMMA StrippedIsTree ==
    ASSUME NEW o, IsObject(o)
    PROVE  /\ IsTree(Stripped(o)) /\ DOMAIN Stripped(o) \subseteq DOMAIN o
           /\ \A i \in DOMAIN Stripped(o) :
                 /\ Stripped(o)[i] = o[i]
                 /\ \A j \in Children(o, o[i].parent) : j \in DOMAIN Stripped(o) \/ j \in Noise(o)
  <1>. DEFINE s == Stripped(o)
  <1>1. DOMAIN s = DOMAIN o \ Gone(o) /\ \A i \in DOMAIN s : s[i] = o[i]
    BY DEF Stripped
  <1>2. \A i \in DOMAIN s : i \in DOMAIN o /\ s[i] = o[i] /\ i \notin Gone(o)
    BY <1>1
  <1>3. \A i \in DOMAIN s : o[i].parent \in {0} \cup DOMAIN s
    BY <1>1, WhatIsGone DEF IsObject
  <1>4. Noise(o) \subseteq DOMAIN o
    BY DEF Noise, Field, Children
  <1>5. \A i \in DOMAIN s : o[i].val # "copy"
    BY <1>1, <1>4, WhatIsGone DEF IsObject
  <1>6. IsFiniteSet(DOMAIN s)
    BY <1>1, FS_Subset DEF IsObject
  <1>. HIDE DEF s
  <1>7. ASSUME NEW i \in DOMAIN s
        PROVE  /\ s[i] \in [parent : {0} \cup DOMAIN s, key : Keys,
                            val : Vals \ (Written \cup {"copy"})]
               /\ s[i].parent < i /\ (s[i].parent # 0 => s[s[i].parent].val \in {"map", "list"})
               /\ s[i].key = "item" <=> s[i].parent # 0 /\ s[s[i].parent].val = "list"
    <2>1. /\ o[i] \in [parent : {0} \cup DOMAIN o, key : Keys, val : Vals \ Written]
          /\ o[i].parent < i /\ (o[i].parent # 0 => o[o[i].parent].val \in {"map", "list"})
          /\ o[i].key = "item" <=> o[i].parent # 0 /\ o[o[i].parent].val = "list"
      BY <1>2 DEF IsObject
    <2>2. s[i] = o[i] /\ (o[i].parent # 0 => s[o[i].parent] = o[o[i].parent])
      BY <1>2, <1>3
    <2>. QED  BY <1>3, <1>5, <2>1, <2>2
  <1>8. IsTree(s)
    BY <1>1, <1>6, <1>7 DEF IsTree, IsObject
  <1>9. ASSUME NEW i \in DOMAIN s, NEW j \in Children(o, o[i].parent)
        PROVE  j \in DOMAIN s \/ j \in Noise(o)
    <2>1. j \in DOMAIN o /\ o[j].parent = o[i].parent
      BY DEF Children
    <2>2. o[i].parent \notin Gone(o)
      BY <1>2, WhatIsGone
    <2>. QED  BY <1>1, <2>1, <2>2, WhatIsGone
  <1>. QED  BY <1>1, <1>2, <1>8, <1>9 DEF s

(* What the shapes hide, and what each value ends as.                        *)
Shape(s, i) == i \in EnvValues(s, s[i].parent) \cup TLSKeys(s, s[i].parent)
After(s, i) == IF Shape(s, i) THEN "redacted" ELSE s[i].val
Final(s, i) == IF s[i].val \in {"map", "list"} THEN s[i].val ELSE Scalar(s[i].key, After(s, i))

(* A value of s, with another val.                                           *)
With(s, i, w) == [parent |-> s[i].parent, key |-> s[i].key, val |-> w]

(* The walk: it has visited V, and is to visit td next.                      *)
Now(s, V, td, i) == IF i \in V THEN Final(s, i) ELSE IF i \in td THEN After(s, i) ELSE s[i].val
Changed(s, V, td) == { i \in DOMAIN s : Now(s, V, td, i) # s[i].val }

Walked(s, V, td, obj, n) ==
    /\ V \subseteq DOMAIN s /\ td \subseteq DOMAIN s /\ V \cap td = {}
    /\ \A i \in DOMAIN s : i \in V \cup td <=> s[i].parent \in V \cup {0}
    /\ DOMAIN obj = DOMAIN s /\ \A i \in DOMAIN s : obj[i] = With(s, i, Now(s, V, td, i))
    /\ n = Cardinality(Changed(s, V, td))

(* A shape hides strings that are not hidden yet, and none in a list.        *)
LEMMA Shapes ==
    ASSUME NEW s, IsTree(s), NEW m
    PROVE  /\ \A i \in EnvValues(s, m) \cup TLSKeys(s, m) :
                 /\ i \in DOMAIN s /\ s[i].parent = m /\ s[i].val \in Strings \ Written
                 /\ s[i].key \in {"value", "key"} /\ Shape(s, i)
           /\ \A i \in DOMAIN s : s[i].parent = m =>
                 (Shape(s, i) <=> i \in EnvValues(s, m) \cup TLSKeys(s, m))
           /\ m \in DOMAIN s /\ s[m].val = "list" => EnvValues(s, m) \cup TLSKeys(s, m) = {}
  <1>1. ASSUME NEW i \in EnvValues(s, m) \cup TLSKeys(s, m)
        PROVE  /\ i \in DOMAIN s /\ s[i].parent = m /\ s[i].val \in Strings
               /\ s[i].key \in {"value", "key"}
    BY DEF EnvValues, TLSKeys, Field, Children
  <1>2. \A i \in DOMAIN s : s[i].val \notin Written /\ 0 \notin DOMAIN s
    BY DEF IsTree
  <1>3. \A i \in DOMAIN s : s[i].parent = m =>
            (Shape(s, i) <=> i \in EnvValues(s, m) \cup TLSKeys(s, m))
    BY DEF Shape
  <1>4. ASSUME m \in DOMAIN s, s[m].val = "list"
        PROVE  EnvValues(s, m) \cup TLSKeys(s, m) = {}
    <2>1. \A i \in DOMAIN s : s[i].parent = m => s[i].key = "item"
      BY <1>2, <1>4 DEF IsTree
    <2>. QED  BY <1>1, <2>1
  <1>. QED  BY <1>1, <1>2, <1>3, <1>4

(* What is hidden stays hidden; a map or list is not touched.                *)
LEMMA Finals ==
    ASSUME NEW s, IsTree(s), NEW i \in DOMAIN s
    PROVE  /\ s[i].val \in {"map", "list"} <=> After(s, i) \in {"map", "list"}
           /\ s[i].val \in {"map", "list"} => After(s, i) = s[i].val
           /\ After(s, i) # s[i].val => Scalar(s[i].key, After(s, i)) = After(s, i)
           /\ After(s, i) # s[i].val <=> Shape(s, i)
  <1>1. Shape(s, i) => s[i].val \in Strings \ Written
    BY Shapes DEF Shape
  <1>2. s[i].val \notin Written
    BY DEF IsTree
  <1>3. \A key : Scalar(key, "redacted") = "redacted"
    BY DEF Scalar, RedactString
  <1>. QED  BY <1>1, <1>2, <1>3 DEF After, Strings, Written

(* A value with another val, and what a shape makes of a value.              *)
LEMMA WithVal ==
    /\ \A s, i, w, x : With(s, i, w).parent = s[i].parent /\ With(s, i, w).key = s[i].key
                       /\ With(s, i, w).val = w
                       /\ [With(s, i, w) EXCEPT !.val = x] = With(s, i, x)
    /\ \A s : IsTree(s) => \A i \in DOMAIN s : s[i] = With(s, i, s[i].val)
  <1>1. \A s, i, w, x : With(s, i, w).parent = s[i].parent /\ With(s, i, w).key = s[i].key
                        /\ With(s, i, w).val = w
                        /\ [With(s, i, w) EXCEPT !.val = x] = With(s, i, x)
    BY DEF With
  <1>2. ASSUME NEW s, IsTree(s), NEW i \in DOMAIN s
        PROVE  s[i] = With(s, i, s[i].val)
    <2>1. s[i] \in [parent : {0} \cup DOMAIN s, key : Keys, val : Vals \ (Written \cup {"copy"})]
      BY <1>2 DEF IsTree
    <2>. QED  BY <2>1 DEF With
  <1>. QED  BY <1>1, <1>2

(* The walk begins at the fields of the object.                              *)
LEMMA RedactBegins ==
    ASSUME NEW s, IsTree(s), Redact(s)
    PROVE  Walked(s, {}, todo', object', count')
  <1>. DEFINE M == EnvValues(s, 0) \cup TLSKeys(s, 0)
              C == Children(s, 0)
  <1>1. object' = Masked(s, M) /\ todo' = C /\ count' = Cardinality(M)
    BY DEF Redact, Enter
  <1>2. C \subseteq DOMAIN s /\ \A i \in DOMAIN s : i \in C <=> s[i].parent = 0
    BY DEF Children
  <1>3. \A i \in DOMAIN s : /\ i \in M <=> i \in C /\ Shape(s, i)
                            /\ Shape(s, i) => s[i].val # "redacted"
    BY <1>2, Shapes DEF Shape, Written
  <1>4. M \subseteq DOMAIN s
    BY Shapes
  <1>. HIDE DEF M, C
  <1>5. \A i \in DOMAIN s : Now(s, {}, C, i) = IF i \in M THEN "redacted" ELSE s[i].val
    BY <1>3 DEF Now, After
  <1>6. Changed(s, {}, C) = M
    BY <1>3, <1>4, <1>5 DEF Changed
  <1>7. /\ DOMAIN object' = DOMAIN s
        /\ \A i \in DOMAIN s :
              object'[i] = IF i \in M THEN [s[i] EXCEPT !.val = "redacted"] ELSE s[i]
    BY <1>1 DEF Masked
  <1>8. \A i \in DOMAIN s : object'[i] = With(s, i, Now(s, {}, C, i))
    <2>. TAKE i \in DOMAIN s
    <2>1. s[i] = With(s, i, s[i].val) /\ [s[i] EXCEPT !.val = "redacted"] = With(s, i, "redacted")
      BY WithVal
    <2>. QED  BY <1>5, <1>7, <2>1
  <1>. QED  BY <1>1, <1>2, <1>6, <1>7, <1>8 DEF Walked

(* Neither the fields of a value that is yet to be visited nor a shape of    *)
(* theirs have changed.                                                      *)
LEMMA FieldsAreFresh ==
    ASSUME NEW s, IsTree(s), NEW V, Walked(s, V, todo, object, count), NEW m \in todo
    PROVE  /\ Children(object, m) = Children(s, m)
           /\ \A j \in Children(s, m) : j \notin V \cup todo /\ object[j] = s[j]
           /\ EnvValues(object, m) = EnvValues(s, m) /\ TLSKeys(object, m) = TLSKeys(s, m)
  <1>1. DOMAIN object = DOMAIN s /\ \A j \in DOMAIN s : object[j].parent = s[j].parent
    BY WithVal DEF Walked
  <1>2. Children(object, m) = Children(s, m)
    BY <1>1 DEF Children
  <1>3. m \notin V /\ m # 0 /\ m \in DOMAIN s
    BY DEF Walked, IsTree
  <1>4. \A j \in Children(s, m) : j \notin V \cup todo
    BY <1>3 DEF Walked, Children
  <1>5. \A j \in Children(s, m) : object[j] = s[j]
    <2>. TAKE j \in Children(s, m)
    <2>1. j \in DOMAIN s
      BY DEF Children
    <2>2. object[j] = With(s, j, s[j].val)
      BY <1>4, <2>1 DEF Walked, Now
    <2>. QED  BY <2>1, <2>2, WithVal
  <1>6. \A key : /\ Field(object, m, key) = Field(s, m, key)
                 /\ Field(s, m, key) \subseteq Children(s, m)
    BY <1>2, <1>5 DEF Field
  <1>7. EnvValues(object, m) = EnvValues(s, m)
    BY <1>5, <1>6 DEF EnvValues
  <1>8. TLSKeys(object, m) = TLSKeys(s, m)
    BY <1>5, <1>6 DEF TLSKeys
  <1>. QED  BY <1>2, <1>4, <1>5, <1>7, <1>8

(* The walk enters a map or a list.                                          *)
LEMMA ContainerVisited ==
    ASSUME NEW s, IsTree(s), NEW V, Walked(s, V, todo, object, count), NEW m, VisitContainer(m)
    PROVE  Walked(s, V \cup {m}, todo', object', count')
  <1>. DEFINE M == IF s[m].val = "map" THEN EnvValues(s, m) \cup TLSKeys(s, m) ELSE {}
              C == Children(s, m)
              W == V \cup {m}
              td == (todo \ {m}) \cup C
  <1>1. m \in todo /\ m \in DOMAIN s /\ m \notin V /\ object[m].val \in {"map", "list"}
    BY DEF VisitContainer, Walked
  <1>2. object[m].val = s[m].val /\ s[m].val \in {"map", "list"}
    <2>1. object[m].val = After(s, m)
      BY <1>1, WithVal DEF Walked, Now
    <2>. QED  BY <1>1, <2>1, Finals
  <1>3. object' = Masked(object, M) /\ todo' = td /\ count' = count + Cardinality(M)
    <2>1. /\ Children(object, m) = C /\ EnvValues(object, m) = EnvValues(s, m)
          /\ TLSKeys(object, m) = TLSKeys(s, m)
      BY <1>1, FieldsAreFresh
    <2>2. CASE s[m].val = "map"
      BY <1>2, <2>1, <2>2 DEF VisitContainer, Enter
    <2>3. CASE s[m].val = "list"
      BY <1>2, <2>1, <2>3 DEF VisitContainer
    <2>. QED  BY <1>2, <2>2, <2>3
  <1>4. /\ C \subseteq DOMAIN s /\ \A i \in DOMAIN s : i \in C <=> s[i].parent = m
        /\ \A i \in C : i \notin V \cup todo
    BY <1>1, FieldsAreFresh DEF Children
  <1>5. \A i \in DOMAIN s : /\ i \in M <=> i \in C /\ Shape(s, i)
                            /\ Shape(s, i) => s[i].val # "redacted"
    <2>1. M = EnvValues(s, m) \cup TLSKeys(s, m)
      BY <1>1, <1>2, Shapes
    <2>. HIDE DEF M
    <2>2. \A i \in DOMAIN s : i \in C => (i \in M <=> Shape(s, i))
      BY <1>4, <2>1, Shapes
    <2>3. \A i \in M : i \in C
      BY <1>4, <2>1, Shapes
    <2>4. \A i \in DOMAIN s : Shape(s, i) => s[i].val # "redacted"
      BY Shapes DEF Shape, Written
    <2>. QED  BY <2>2, <2>3, <2>4
  <1>6. M \subseteq DOMAIN s
    BY Shapes
  <1>. HIDE DEF M, C, td
  <1>7. td \subseteq DOMAIN s /\ W \subseteq DOMAIN s /\ W \cap td = {}
    BY <1>1, <1>4 DEF Walked, td
  <1>8. \A i \in DOMAIN s : i \in W \cup td <=> s[i].parent \in W \cup {0}
    BY <1>1, <1>4 DEF Walked, td
  <1>9. \A i \in DOMAIN s : Now(s, W, td, i) = IF i \in M THEN "redacted" ELSE Now(s, V, todo, i)
    <2>. TAKE i \in DOMAIN s
    <2>1. CASE i = m
      <3>1. i \notin M
        BY <1>1, <1>4, <1>5, <2>1
      <3>2. Now(s, W, td, i) = s[i].val /\ Now(s, V, todo, i) = s[i].val
        BY <1>1, <1>2, <2>1, Finals DEF Now, Final
      <3>. QED  BY <3>1, <3>2
    <2>2. CASE i \in C
      <3>1. Now(s, W, td, i) = After(s, i) /\ Now(s, V, todo, i) = s[i].val
        BY <1>1, <1>4, <2>2 DEF Now, td
      <3>. QED  BY <1>5, <2>2, <3>1 DEF After
    <2>3. CASE i # m /\ i \notin C
      <3>1. i \notin M /\ (i \in W <=> i \in V) /\ (i \in td <=> i \in todo)
        BY <1>5, <2>3 DEF td
      <3>. QED  BY <3>1 DEF Now
    <2>. QED  BY <2>1, <2>2, <2>3
  <1>10. \A i \in M : Now(s, V, todo, i) = s[i].val /\ i \in DOMAIN s /\ s[i].val # "redacted"
    BY <1>4, <1>5, <1>6 DEF Now
  <1>11. Changed(s, W, td) = Changed(s, V, todo) \cup M /\ Changed(s, V, todo) \cap M = {}
    BY <1>6, <1>9, <1>10 DEF Changed
  <1>12. count' = Cardinality(Changed(s, W, td))
    <2>1. Changed(s, V, todo) \subseteq DOMAIN s
      BY DEF Changed
    <2>2. /\ IsFiniteSet(M) /\ IsFiniteSet(Changed(s, V, todo))
          /\ Cardinality(Changed(s, V, todo)) \in Nat /\ Cardinality(M) \in Nat
      BY <1>6, <2>1, FS_Subset, FS_CardinalityType DEF IsTree
    <2>3. Cardinality(Changed(s, V, todo) \cap M) = 0
      BY <1>11, FS_EmptySet
    <2>4. Cardinality(Changed(s, W, td)) = Cardinality(Changed(s, V, todo)) + Cardinality(M)
      <3>1. Cardinality(Changed(s, V, todo) \cup M)
            = Cardinality(Changed(s, V, todo)) + Cardinality(M)
              - Cardinality(Changed(s, V, todo) \cap M)
        BY <2>2, FS_Union
      <3>2. Cardinality(Changed(s, V, todo) \cup M)
            = Cardinality(Changed(s, V, todo)) + Cardinality(M)
        BY <2>2, <2>3, <3>1
      <3>. QED  BY <1>11, <3>2, Zenon
    <2>. QED  BY <1>3, <2>4 DEF Walked
  <1>13. DOMAIN object' = DOMAIN s /\ \A i \in DOMAIN s : object'[i] = With(s, i, Now(s, W, td, i))
    <2>1. /\ DOMAIN object' = DOMAIN s
          /\ \A i \in DOMAIN s : object'[i] = IF i \in M THEN [object[i] EXCEPT !.val = "redacted"]
                                              ELSE object[i]
      BY <1>3 DEF Masked, Walked
    <2>2. \A i \in DOMAIN s : object[i] = With(s, i, Now(s, V, todo, i))
      BY DEF Walked
    <2>3. \A i \in DOMAIN s : [object[i] EXCEPT !.val = "redacted"] = With(s, i, "redacted")
      BY <2>2, WithVal
    <2>. QED  BY <1>9, <2>1, <2>2, <2>3
  <1>. QED  BY <1>3, <1>7, <1>8, <1>12, <1>13 DEF Walked

(* The walk looks at a scalar.                                               *)
LEMMA ScalarVisited ==
    ASSUME NEW s, IsTree(s), NEW V, Walked(s, V, todo, object, count), NEW m, VisitScalar(m)
    PROVE  Walked(s, V \cup {m}, todo', object', count')
  <1>. DEFINE W == V \cup {m}
              td == todo \ {m}
              new == Scalar(s[m].key, After(s, m))
  <1>1. m \in todo /\ m \in DOMAIN s /\ m \notin V /\ object[m].val \notin {"map", "list"}
    BY DEF VisitScalar, Walked
  <1>2. object[m].val = After(s, m) /\ object[m].key = s[m].key
    BY <1>1, WithVal DEF Walked, Now
  <1>3. s[m].val \notin {"map", "list"} /\ Final(s, m) = new
    BY <1>1, <1>2, Finals DEF Final
  <1>4. /\ object' = [object EXCEPT ![m].val = new] /\ todo' = td
        /\ count' = IF new # After(s, m) THEN count + 1 ELSE count
    BY <1>2 DEF VisitScalar
  <1>5. td \subseteq DOMAIN s /\ W \subseteq DOMAIN s /\ W \cap td = {}
    BY <1>1 DEF Walked
  <1>6. \A i \in DOMAIN s : i \in W \cup td <=> s[i].parent \in W \cup {0}
    <2>1. \A i \in DOMAIN s : s[i].parent # m
      BY <1>1, <1>3 DEF IsTree
    <2>. QED  BY <1>1, <2>1 DEF Walked
  <1>. HIDE DEF new, td
  <1>7. \A i \in DOMAIN s : Now(s, W, td, i) = IF i = m THEN new ELSE Now(s, V, todo, i)
    BY <1>3 DEF Now, td
  <1>8. Now(s, V, todo, m) = After(s, m)
    BY <1>1 DEF Now
  <1>9. count' = Cardinality(Changed(s, W, td))
    <2>1. Changed(s, V, todo) \subseteq DOMAIN s
      BY DEF Changed
    <2>2. IsFiniteSet(Changed(s, V, todo)) /\ count = Cardinality(Changed(s, V, todo))
      BY <2>1, FS_Subset DEF IsTree, Walked
    <2>3. CASE new = After(s, m)
      <3>1. Changed(s, W, td) = Changed(s, V, todo)
        BY <1>7, <1>8, <2>3 DEF Changed
      <3>. QED  BY <1>4, <2>2, <2>3, <3>1
    <2>4. CASE new # After(s, m)
      <3>1. After(s, m) = s[m].val
        BY <1>1, <2>4, Finals DEF new
      <3>2. Changed(s, W, td) = Changed(s, V, todo) \cup {m} /\ m \notin Changed(s, V, todo)
        BY <1>1, <1>7, <1>8, <2>4, <3>1 DEF Changed
      <3>3. Cardinality(Changed(s, W, td)) = Cardinality(Changed(s, V, todo)) + 1
        BY <2>2, <3>2, FS_AddElement
      <3>. QED  BY <1>4, <2>2, <2>4, <3>3
    <2>. QED  BY <2>3, <2>4
  <1>10. DOMAIN object' = DOMAIN s /\ \A i \in DOMAIN s : object'[i] = With(s, i, Now(s, W, td, i))
    <2>1. /\ DOMAIN object' = DOMAIN s
          /\ \A i \in DOMAIN s : object'[i] = IF i = m THEN [object[i] EXCEPT !.val = new]
                                              ELSE object[i]
      BY <1>1, <1>4 DEF Walked
    <2>2. \A i \in DOMAIN s : object[i] = With(s, i, Now(s, V, todo, i))
      BY DEF Walked
    <2>3. \A i \in DOMAIN s : [object[i] EXCEPT !.val = new] = With(s, i, new)
      BY <2>2, WithVal
    <2>. QED  BY <1>7, <2>1, <2>2, <2>3
  <1>. QED  BY <1>4, <1>5, <1>6, <1>9, <1>10 DEF Walked

(* A set of natural numbers has a least one.                                 *)
LEMMA Least ==
    ASSUME NEW T, T \subseteq Nat, T # {}
    PROVE  \E x \in T : \A y \in T : x <= y
  <1>. DEFINE R == { ss \in Nat \X Nat : ss[1] < ss[2] }
  <1>1. IsWellFoundedOn(R, Nat)
    BY NatLessThanWellFounded DEF OpToRel
  <1>2. PICK x \in T : \A y \in T : ~(<<y, x>> \in R)
    <2>. HIDE DEF R
    <2>. QED  BY <1>1, WFMin
  <1>3. \A y \in T : ~(y < x)
    BY <1>2
  <1>. QED  BY <1>3

(* A walk with nothing left to visit has visited everything: the first value *)
(* it had not seen would have a parent that it has.                          *)
LEMMA WalkEnds ==
    ASSUME NEW s, IsTree(s), NEW V, NEW obj, NEW n, Walked(s, V, {}, obj, n)
    PROVE  V = DOMAIN s
  <1>. SUFFICES ASSUME DOMAIN s \ V # {} PROVE FALSE
    BY DEF Walked
  <1>1. DOMAIN s \ V \subseteq Nat
    BY DEF IsTree
  <1>2. PICK x \in DOMAIN s \ V : \A y \in DOMAIN s \ V : x <= y
    BY <1>1, Least
  <1>3. s[x].parent \in {0} \cup DOMAIN s /\ s[x].parent < x /\ x \in Nat
    BY <1>1, <1>2 DEF IsTree
  <1>4. s[x].parent \notin DOMAIN s \ V
    BY <1>1, <1>2, <1>3
  <1>5. s[x].parent \in V \cup {0}
    BY <1>3, <1>4
  <1>. QED  BY <1>2, <1>5 DEF Walked

(* The values the walk changes are those that have to be hidden.             *)
LEMMA HiddenExactly ==
    ASSUME NEW o, IsObject(o), NEW i \in DOMAIN Stripped(o)
    PROVE  LET s == Stripped(o)
           IN  /\ Final(s, i) # s[i].val <=> IsCredential(o, i) \/ IsEmptyEnv(o, i)
               /\ Final(s, i) # s[i].val =>
                     Final(s, i) \in {"redacted", "flagRedacted", "urlRedacted"}
               /\ Final(s, i) # "copy"
  <1>. DEFINE s == Stripped(o)
              p == o[i].parent
              key == o[i].key
              v == o[i].val
              Named == \E j \in Children(o, p) :
                          o[j].key = "name" /\ o[j].val \in {"credName", "flag"}
              Route == \E j \in Children(o, p) : o[j].key = "termination"
  <1>1. /\ IsTree(s) /\ DOMAIN s \subseteq DOMAIN o /\ s[i] = o[i] /\ i \in DOMAIN s
        /\ \A j \in DOMAIN s : s[j] = o[j]
        /\ \A j \in Children(o, p) : j \in DOMAIN s \/ j \in Noise(o)
    BY StrippedIsTree
  <1>2. \A j \in Noise(o) : o[j].key \in {"managedFields", "lastApplied"}
    BY DEF Noise, Field
  <1>3. \A j : j \in Children(o, p) /\ o[j].key \in {"name", "termination"} => j \in Children(s, p)
    BY <1>1, <1>2 DEF Children
  <1>4. \A j \in Children(s, p) : j \in Children(o, p) /\ s[j] = o[j]
    BY <1>1 DEF Children
  <1>5. i \in Children(s, p) /\ i \in Children(o, p)
    BY <1>1 DEF Children
  <1>6. i \in EnvValues(s, p) <=> key = "value" /\ v \in Strings /\ Named
    <2>1. i \in EnvValues(s, p) <=> /\ key = "value" /\ v \in Strings
                                    /\ \E j \in Field(s, p, "name") : s[j].val \in {"credName", "flag"}
      BY <1>1, <1>5 DEF EnvValues, Field, SensitiveName
    <2>2. Named <=> \E j \in Field(s, p, "name") : s[j].val \in {"credName", "flag"}
      BY <1>3, <1>4 DEF Field
    <2>. QED  BY <2>1, <2>2
  <1>7. i \in TLSKeys(s, p) <=> key = "key" /\ v \in Strings \ {"empty"} /\ Route
    <2>1. i \in TLSKeys(s, p) <=> /\ key = "key" /\ v \in Strings \ {"empty"}
                                  /\ Field(s, p, "termination") # {}
      BY <1>1, <1>5 DEF TLSKeys, Field
    <2>2. Route <=> Field(s, p, "termination") # {}
      BY <1>3, <1>4 DEF Field
    <2>. QED  BY <2>1, <2>2
  <1>8. key # "item" => p = 0 \/ o[p].val = "map"
    BY <1>1 DEF IsObject
  <1>9. IsEmptyEnv(o, i) <=> v = "empty" /\ key = "value" /\ Named
    BY DEF IsEmptyEnv, Field
  <1>10. IsCredential(o, i) <=>
            /\ v \notin {"map", "list", "nil", "empty"}
            /\ \/ key = "password" \/ v \in {"flag", "url"}
               \/ key = "value" /\ v \in Strings /\ Named
               \/ key = "key" /\ v \in Strings /\ Route
    <2>. DEFINE InMap == p = 0 \/ o[p].val = "map"
                Sibs == { o[j] : j \in Children(o, p) }
    <2>1. /\ Named <=> \E x \in Sibs : x.key = "name" /\ x.val \in {"credName", "flag"}
          /\ Route <=> \E x \in Sibs : x.key = "termination"
      OBVIOUS
    <2>2. IsCredential(o, i) <=>
            /\ v \notin {"map", "list", "nil", "empty"}
            /\ \/ InMap /\ key = "password"
               \/ v \in {"flag", "url"}
               \/ InMap /\ key = "value" /\ v \in Strings /\ Named
               \/ InMap /\ key = "key" /\ v \in Strings /\ Route
      BY <2>1 DEF IsCredential
    <2>. HIDE DEF Named, Route, Sibs
    <2>. QED  BY <1>8, <2>2
  <1>11. /\ Shape(s, i) <=> \/ key = "value" /\ v \in Strings /\ Named
                            \/ key = "key" /\ v \in Strings \ {"empty"} /\ Route
         /\ v \in Vals \ (Written \cup {"copy"}) /\ key \in Keys
    BY <1>1, <1>6, <1>7 DEF Shape, IsTree
  <1>12. Final(s, i) = IF v \in {"map", "list"} THEN v
                       ELSE Scalar(key, IF Shape(s, i) THEN "redacted" ELSE v)
    BY <1>1 DEF Final, After
  <1>. HIDE DEF Named, Route, v, key, s, p
  <1>13. Final(s, i) # v <=> IsCredential(o, i) \/ IsEmptyEnv(o, i)
    BY <1>9, <1>10, <1>11, <1>12
       DEF Scalar, RedactString, SensitiveKey, Vals, Strings, Written
  <1>14. /\ Final(s, i) # v => Final(s, i) \in {"redacted", "flagRedacted", "urlRedacted"}
         /\ Final(s, i) # "copy"
    BY <1>11, <1>12 DEF Scalar, RedactString, SensitiveKey, Vals, Strings, Written
  <1>. QED  BY <1>1, <1>13, <1>14 DEF s, v

(* What a walk writes has a type.                                            *)
LEMMA WalkTypes ==
    ASSUME NEW s, IsTree(s), NEW V, Walked(s, V, todo, object, count)
    PROVE  RedTypeOK
  <1>1. ASSUME NEW i \in DOMAIN s PROVE object[i].key \in Keys /\ object[i].val \in Vals
    <2>1. s[i].key \in Keys /\ s[i].val \in Vals
      BY DEF IsTree
    <2>2. object[i].key = s[i].key /\ object[i].val = Now(s, V, todo, i)
      BY WithVal DEF Walked
    <2>3. Now(s, V, todo, i) \in Vals
      BY <2>1 DEF Now, Final, After, Scalar, RedactString, Vals, Strings
    <2>. QED  BY <2>1, <2>2, <2>3
  <1>2. Changed(s, V, todo) \subseteq DOMAIN s
    BY DEF Changed
  <1>3. count \in Nat
    BY <1>2, FS_Subset, FS_CardinalityType DEF Walked, IsTree
  <1>. QED  BY <1>1, <1>3 DEF RedTypeOK, Walked, IsTree

--------------------------------------------------------------------------------
(* The invariant of a call, in every state.                                  *)

(* Only get_resource redacts, once it has read its object.                   *)
WalkInv ==
    IF phase \in {"redacting", "answered"} /\ ask.tool = "get_resource"
    THEN \E V \in SUBSET DOMAIN object :
            Walked(Stripped(Items("object")[1]), V, todo, object, count)
    ELSE object = << >> /\ todo = {} /\ count = 0

PhaseInv ==
    /\ phase \in {"reading", "redacting", "answered", "failed"}
    /\ phase \in {"redacting", "answered"} => plan = << >>
    /\ phase = "redacting" => ask.tool = "get_resource"
    /\ phase = "answered" => todo = {}
    /\ WalkInv

Inv == WorldInv /\ ReadInv /\ PhaseInv

(* A part that is read without a limit is what it was at some moment.        *)
LEMMA WasRead ==
    ASSUME ReadInv, NEW p \in DOMAIN got \ dropped, LimitOf(ask, p[1]) = 0, p[1] # "log"
    PROVE  got[p].items \in seen[p]
  <1>1. PICK v \in seen[p] : got[p] = Serve(p[1], 0, v)
    BY DEF ReadInv, GotInv
  <1>2. Serve(p[1], 0, v).items = v
    BY WholePart
  <1>. QED  BY <1>1, <1>2

(* When all is read, get_resource has an object.                             *)
LEMMA ObjectRead ==
    ASSUME WorldInv, ReadInv, plan = << >>, ask.tool = "get_resource"
    PROVE  /\ PObject \in DOMAIN got /\ IsObject(Items("object")[1])
           /\ IsTree(Stripped(Items("object")[1]))
  <1>1. PObject \in Wanted
    <2>1. Handler(ask) = << Get("object") >>
      BY DEF Handler, HandleGetResource
    <2>2. 1 \in DOMAIN Handler(ask) /\ Handler(ask)[1] = Get("object")
      BY <2>1
    <2>. QED  BY <2>2, GetListTry DEF Wanted, PObject
  <1>2. Planned = {}
    BY NonePlanned
  <1>3. PObject \in DOMAIN got \ dropped
    BY <1>1, <1>2, PartNames DEF ReadInv, CompleteInv, GotInv, Extra
  <1>4. got[PObject].items \in seen[PObject] /\ got[PObject].items # << >>
    <2>1. LimitOf(ask, "object") = 0
      BY DEF LimitOf
    <2>. QED  BY <1>3, <2>1, PartNames, WasRead DEF ReadInv, GotInv
  <1>5. Holding("object", got[PObject].items)
    BY <1>3, <1>4, PartNames DEF WorldInv, ReadInv, GotInv
  <1>6. IsObject(Items("object")[1])
    <2>. DEFINE v == got[PObject].items
    <2>1. v = Items("object")
      BY DEF Items, PObject
    <2>. HIDE DEF v
    <2>2. 1 \in DOMAIN v
      BY <1>4, <1>5 DEF Holding, v
    <2>3. v[1] \in Range(v)
      BY <2>2 DEF Range
    <2>. QED  BY <1>5, <2>1, <2>3 DEF Holding, v
  <1>. QED  BY <1>3, <1>6, StrippedIsTree

(* A call begins with the reads of its handler to come.                      *)
LEMMA InitInv == Init => Inv
  <1>. SUFFICES ASSUME Init PROVE Inv
    OBVIOUS
  <1>1. PICK i \in DOMAIN Cases : \E c \in Cases[i] :
            ask = c.ask /\ cluster = c.cluster /\ changes = c.changes
    BY DEF Init
  <1>2. PICK c \in Cases[i] : ask = c.ask /\ cluster = c.cluster /\ changes = c.changes
    BY <1>1
  <1>3. /\ DOMAIN seen = DOMAIN cluster /\ \A p \in DOMAIN cluster : seen[p] = {cluster[p]}
        /\ plan = Handler(ask) /\ DOMAIN got = {} /\ dropped = {} /\ phase = "reading"
        /\ object = << >> /\ todo = {} /\ count = 0
    BY DEF Init
  <1>4. /\ ask.tool \in Tools /\ ask.limit \in Int /\ changes \in Nat
        /\ \A p \in DOMAIN cluster : Holding(p[1], cluster[p]) /\ p[1] \in DOMAIN Holds
        /\ \A step \in Range(Handler(ask)) : step.part \in DOMAIN cluster
        /\ ask.tool = "list_services" =>
              \A v \in Holds["services"] \cup {cluster[PServices]} :
                  \A s \in Range(v) : <<"slices", s>> \in DOMAIN cluster
    BY <1>2, CasesAssumption DEF PServices
  <1>5. WorldInv
    BY <1>3, <1>4 DEF WorldInv
  <1>6. Planned = Wanted /\ Planned \subseteq DOMAIN cluster
    BY <1>3, <1>4 DEF Planned, Wanted, Range
  <1>7. PlanInv
    BY <1>3, <1>4, <1>6, HandlerPlans DEF PlanInv
  <1>8. GotInv
    BY <1>3 DEF GotInv
  <1>9. ASSUME ask.tool = "list_services"
        PROVE  /\ plan = HandleListServices(ask) /\ PServices \in DOMAIN cluster
               /\ \A v \in seen[PServices] \cup Holds["services"] :
                     SlicesOf(Range(v)) \subseteq DOMAIN cluster
    <2>1. plan = HandleListServices(ask)
      BY <1>3, <1>9 DEF Handler
    <2>2. PServices \in DOMAIN cluster
      BY <1>6, <2>1, ServicesFirst
    <2>. QED  BY <1>3, <1>4, <1>9, <2>1, <2>2 DEF SlicesOf
  <1>10. CompleteInv
    BY <1>3, <1>6, <1>9 DEF CompleteInv
  <1>11. PhaseInv
    BY <1>3 DEF PhaseInv, WalkInv
  <1>. QED  BY <1>5, <1>7, <1>8, <1>10, <1>11 DEF Inv, ReadInv

(* The parts of the cluster stay, and remember what they held.               *)
LEMMA ChangeKeepsInv ==
    ASSUME Inv, NEW p \in DOMAIN cluster, NEW v \in Holds[p[1]], Change(p, v)
    PROVE  Inv'
  <1>1. /\ DOMAIN cluster' = DOMAIN cluster /\ DOMAIN seen' = DOMAIN seen
        /\ \A q \in DOMAIN cluster :
              /\ cluster'[q] = IF q = p THEN v ELSE cluster[q]
              /\ seen'[q] = IF q = p THEN seen[q] \cup {v} ELSE seen[q]
    BY DEF Change, Inv, WorldInv
  <1>2. changes' \in Nat /\ callVars' = callVars /\ redVars' = redVars
    BY DEF Change, Inv, WorldInv
  <1>3. WorldInv'
    <2>1. Holding(p[1], v)
      BY CasesAssumption DEF Inv, WorldInv
    <2>. QED  BY <1>1, <1>2, <2>1 DEF Inv, WorldInv
  <1>4. /\ ask' = ask /\ plan' = plan /\ got' = got /\ dropped' = dropped /\ phase' = phase
        /\ object' = object /\ todo' = todo /\ count' = count
    BY <1>2 DEF callVars, redVars
  <1>5. Planned' = Planned /\ Wanted' = Wanted /\ Items("services")' = Items("services")
    BY <1>4 DEF Planned, Wanted, Items
  <1>6. PlanInv'
    BY <1>1, <1>4, <1>5 DEF Inv, ReadInv, PlanInv
  <1>7. \A q \in DOMAIN cluster : seen[q] \subseteq seen'[q]
    BY <1>1
  <1>8. GotInv'
    <2>1. \A q \in DOMAIN got \ dropped :
            /\ \E w \in seen'[q] : got[q] = Serve(q[1], LimitOf(ask, q[1]), w)
            /\ q[1] \in {"namespace", "object"} => got[q].items # << >>
            /\ q[1] = "log" => LimitOf(ask, q[1]) >= 0
      BY <1>7 DEF Inv, ReadInv, GotInv
    <2>. QED  BY <1>1, <1>4, <2>1 DEF Inv, ReadInv, GotInv
  <1>9. CompleteInv'
    <2>1. SlicesOf(Range(Items("services")))' = SlicesOf(Range(Items("services")))
      BY <1>5 DEF SlicesOf, Range
    <2>2. ASSUME ask.tool = "list_services"
          PROVE  seen'[PServices] \subseteq seen[PServices] \cup Holds["services"]
      <3>1. PServices \in DOMAIN cluster
        BY <2>2 DEF Inv, ReadInv, CompleteInv
      <3>2. p = PServices => v \in Holds["services"]
        BY PartNames
      <3>. QED  BY <1>1, <3>1, <3>2
    <2>. QED  BY <1>1, <1>4, <1>5, <2>1, <2>2 DEF Inv, ReadInv, CompleteInv
  <1>10. PhaseInv'
    BY <1>4 DEF Inv, PhaseInv, WalkInv, Items
  <1>. QED  BY <1>3, <1>6, <1>8, <1>9, <1>10 DEF Inv, ReadInv

(* What a step leaves alone that reads nothing.                              *)
LEMMA NothingRead ==
    ASSUME WorldInv, ReadInv, UNCHANGED <<ask, plan, got, dropped, worldVars>>
    PROVE  WorldInv' /\ ReadInv' /\ Items("object")' = Items("object")
  <1>1. /\ ask' = ask /\ plan' = plan /\ got' = got /\ dropped' = dropped
        /\ cluster' = cluster /\ seen' = seen /\ changes' = changes
    BY DEF worldVars
  <1>2. /\ Planned' = Planned /\ Wanted' = Wanted /\ \A r : Items(r)' = Items(r)
    BY <1>1 DEF Planned, Wanted, Items
  <1>3. SlicesOf(Range(Items("services")))' = SlicesOf(Range(Items("services")))
    BY <1>2 DEF SlicesOf, Range
  <1>4. WorldInv'
    BY <1>1 DEF WorldInv
  <1>5. PlanInv' /\ GotInv'
    BY <1>1, <1>2 DEF ReadInv, PlanInv, GotInv
  <1>6. CompleteInv'
    BY <1>1, <1>2, <1>3 DEF ReadInv, CompleteInv
  <1>. QED  BY <1>2, <1>4, <1>5, <1>6 DEF ReadInv

(* The object is stripped and its redaction begins, or the call answers.     *)
LEMMA ReturnKeepsInv ==
    ASSUME Inv, Return
    PROVE  Inv'
  <1>1. /\ WorldInv' /\ ReadInv' /\ ask' = ask /\ plan' = plan /\ plan = << >>
        /\ Items("object")' = Items("object") /\ phase = "reading"
    BY NothingRead DEF Inv, Return
  <1>2. CASE ask.tool = "get_resource"
    <2>1. PICK s : s = Stripped(Items("object")[1])
      OBVIOUS
    <2>2. IsTree(s)
      BY <1>1, <1>2, <2>1, ObjectRead DEF Inv
    <2>3. phase' = "redacting" /\ Redact(s)
      BY <1>2, <2>1 DEF Return, Items
    <2>4. Walked(s, {}, todo', object', count')
      BY <2>2, <2>3, RedactBegins
    <2>5. s = Stripped(Items("object")[1])'
      BY <1>1, <2>1
    <2>6. {} \in SUBSET DOMAIN object'
      OBVIOUS
    <2>7. WalkInv'
      BY <1>1, <1>2, <2>3, <2>4, <2>5, <2>6 DEF WalkInv
    <2>. QED  BY <1>1, <1>2, <2>3, <2>7 DEF Inv, PhaseInv
  <1>3. CASE ask.tool # "get_resource"
    <2>1. phase' = "answered" /\ UNCHANGED redVars
      BY <1>3 DEF Return
    <2>. QED  BY <1>1, <1>3, <2>1 DEF Inv, PhaseInv, WalkInv, redVars
  <1>. QED  BY <1>2, <1>3

(* The walk goes on or ends.                                                 *)
LEMMA WalkKeepsInv ==
    ASSUME Inv, Walk
    PROVE  Inv'
  <1>1. /\ WorldInv' /\ ReadInv' /\ ask' = ask /\ plan' = plan /\ plan = << >>
        /\ Items("object")' = Items("object") /\ phase = "redacting" /\ ask.tool = "get_resource"
    BY NothingRead DEF Inv, PhaseInv, Walk
  <1>2. PICK s : s = Stripped(Items("object")[1])
    OBVIOUS
  <1>3. IsTree(s) /\ s = Stripped(Items("object")[1])'
    BY <1>1, <1>2, ObjectRead DEF Inv
  <1>4. PICK V \in SUBSET DOMAIN object : Walked(s, V, todo, object, count)
    BY <1>1, <1>2 DEF Inv, PhaseInv, WalkInv
  <1>5. CASE todo = {}
    <2>1. phase' = "answered" /\ UNCHANGED redVars
      BY <1>5 DEF Walk
    <2>2. WalkInv'
      BY <1>1, <1>3, <1>4, <2>1 DEF WalkInv, redVars
    <2>. QED  BY <1>1, <1>5, <2>1, <2>2 DEF Inv, PhaseInv, redVars
  <1>6. CASE todo # {}
    <2>1. phase' = phase /\ Visit
      BY <1>6 DEF Walk
    <2>2. PICK m \in todo : VisitContainer(m) \/ VisitScalar(m)
      BY <2>1 DEF Visit
    <2>3. Walked(s, V \cup {m}, todo', object', count')
      BY <1>3, <1>4, <2>2, ContainerVisited, ScalarVisited
    <2>4. V \cup {m} \in SUBSET DOMAIN object'
      BY <2>3 DEF Walked
    <2>5. WalkInv'
      BY <1>1, <1>3, <2>1, <2>3, <2>4 DEF WalkInv
    <2>. QED  BY <1>1, <2>1, <2>5 DEF Inv, PhaseInv
  <1>. QED  BY <1>5, <1>6

(* Every step keeps the invariant.                                           *)
LEMMA NextInv == Inv /\ [Next]_vars => Inv'
  <1>. SUFFICES ASSUME Inv, [Next]_vars PROVE Inv'
    OBVIOUS
  <1>1. ASSUME NEW p \in DOMAIN cluster, NEW v \in Holds[p[1]], Change(p, v) PROVE Inv'
    BY <1>1, ChangeKeepsInv
  <1>2. CASE Served
    <2>1. ReadInv'
      BY <1>2, ServedKeepsReadInv DEF Inv
    <2>. QED  BY <1>2, <2>1 DEF Served, Inv, WorldInv, PhaseInv, WalkInv, worldVars, redVars
  <1>3. CASE TryFails
    <2>1. ReadInv'
      BY <1>3, TryFailsKeepsReadInv DEF Inv
    <2>. QED  BY <1>3, <2>1 DEF TryFails, Inv, WorldInv, PhaseInv, WalkInv, worldVars, redVars
  <1>4. CASE NextVersion
    <2>1. ReadInv'
      BY <1>4, NextVersionKeepsReadInv DEF Inv
    <2>. QED  BY <1>4, <2>1 DEF NextVersion, Inv, WorldInv, PhaseInv, WalkInv, worldVars, redVars
  <1>5. CASE MustFails
    <2>1. WorldInv' /\ ReadInv'
      BY <1>5, NothingRead DEF MustFails, Inv
    <2>. QED  BY <1>5, <2>1 DEF MustFails, Inv, PhaseInv, WalkInv, redVars
  <1>6. CASE UnknownKind
    <2>1. WorldInv' /\ ReadInv'
      BY <1>6, NothingRead DEF UnknownKind, Inv
    <2>. QED  BY <1>6, <2>1 DEF UnknownKind, Inv, PhaseInv, WalkInv, redVars
  <1>7. CASE Return
    BY <1>7, ReturnKeepsInv
  <1>8. CASE Walk
    BY <1>8, WalkKeepsInv
  <1>9. CASE UNCHANGED vars
    <2>1. /\ UNCHANGED <<ask, plan, got, dropped, worldVars>> /\ phase' = phase
          /\ object' = object /\ todo' = todo /\ count' = count
      BY <1>9 DEF vars, worldVars, redVars
    <2>2. WorldInv' /\ ReadInv' /\ Items("object")' = Items("object")
      BY <2>1, NothingRead DEF Inv
    <2>. QED  BY <2>1, <2>2 DEF Inv, PhaseInv, WalkInv
  <1>. QED  BY <1>1, <1>2, <1>3, <1>4, <1>5, <1>6, <1>7, <1>8, <1>9 DEF Next

(* The invariant in every state.                                             *)
LEMMA InvHolds == Spec => []Inv
  BY InitInv, NextInv, PTL DEF Spec

--------------------------------------------------------------------------------
(* What an answer is made of.                                                *)

(* A part the handler wants was read; unless its error may be dropped, it is *)
(* what the server returned of the part at some moment.                      *)
LEMMA AnswerHas ==
    ASSUME Inv, phase = "answered", ask.tool # "get_workload",
           NEW r, NEW i \in DOMAIN Handler(ask), Handler(ask)[i].part = <<r, "">>
    PROVE  /\ <<r, "">> \in DOMAIN got /\ <<r, "">> \in DOMAIN seen
           /\ ~Extra(ask.tool, r) => <<r, "">> \notin dropped
           /\ <<r, "">> \notin dropped =>
                 \E v \in seen[<<r, "">>] :
                    /\ Holding(r, v) /\ got[<<r, "">>] = Serve(r, LimitOf(ask, r), v)
  <1>1. Planned = {} /\ <<r, "">> \in Wanted
    <2>1. plan = << >>
      BY DEF Inv, PhaseInv
    <2>2. Planned = {}
      BY <2>1, NonePlanned
    <2>3. Handler(ask)[i].part \in Wanted
      BY DEF Wanted
    <2>. QED  BY <2>2, <2>3
  <1>2. <<r, "">> \in DOMAIN got /\ <<r, "">> \in DOMAIN cluster /\ <<r, "">> \in DOMAIN seen
    BY <1>1 DEF Inv, ReadInv, CompleteInv, GotInv, WorldInv
  <1>3. <<r, "">>[1] = r
    BY PartNames
  <1>4. ~Extra(ask.tool, r) => <<r, "">> \notin dropped
    BY <1>3 DEF Inv, ReadInv, GotInv
  <1>5. ASSUME <<r, "">> \notin dropped
        PROVE  \E v \in seen[<<r, "">>] :
                  Holding(r, v) /\ got[<<r, "">>] = Serve(r, LimitOf(ask, r), v)
    <2>1. PICK v \in seen[<<r, "">>] : got[<<r, "">>] = Serve(r, LimitOf(ask, r), v)
      BY <1>2, <1>3, <1>5 DEF Inv, ReadInv, GotInv
    <2>2. Holding(r, v)
      BY <1>2, <1>3 DEF Inv, WorldInv
    <2>. QED  BY <2>1, <2>2
  <1>. QED  BY <1>2, <1>4, <1>5

(* Of a part that is read without a limit, the answer has all.               *)
LEMMA AnswerHasAll ==
    ASSUME Inv, phase = "answered", ask.tool # "get_workload",
           NEW r, NEW i \in DOMAIN Handler(ask), Handler(ask)[i].part = <<r, "">>,
           LimitOf(ask, r) = 0, r # "log", <<r, "">> \notin dropped
    PROVE  Items(r) \in seen[<<r, "">>] /\ Holding(r, Items(r))
  <1>1. PICK v \in seen[<<r, "">>] : Holding(r, v) /\ got[<<r, "">>] = Serve(r, 0, v)
    BY AnswerHas
  <1>2. Serve(r, 0, v).items = v
    BY WholePart
  <1>. QED  BY <1>1, <1>2 DEF Items

(* The parts that list_policies reads.                                       *)
PNamespace == <<"namespace", "">>
PCluster == <<"clusterpolicies", "">>
PExceptions == <<"exceptions", "">>

(* What the four reads of an answered call are worth: the labels are those   *)
(* of the namespace at some moment; a policy or exception the answer is made *)
(* from was there at some moment, and one that was there all through the     *)
(* call is among them unless the read was dropped.                           *)
LEMMA WhatWasRead ==
    ASSUME Inv, Answered("list_policies")
    PROVE  /\ NsLabels \in Some("namespace")
           /\ \A r \in {"clusterpolicies", "policies", "exceptions"} :
                 /\ Range(Items(r)) \subseteq Some(r)
                 /\ <<r, "">> \notin dropped => Always(r) \subseteq Range(Items(r))
           /\ PCluster \notin dropped
  <1>1. phase = "answered" /\ ask.tool = "list_policies"
    BY DEF Answered
  <1>. DEFINE h == Handler(ask)
              parts == {"namespace", "clusterpolicies", "policies", "exceptions"}
  <1>2. \A r \in parts : \E i \in DOMAIN h : h[i].part = <<r, "">>
    <2>1. h = << Get("namespace"), List("clusterpolicies", 0), Try("policies", 0),
                 Read("exceptions", FALSE, FALSE, 0, 2) >>
      BY <1>1 DEF Handler, HandleListPolicies
    <2>2. /\ DOMAIN h = 1..4 /\ h[1] = Get("namespace") /\ h[2] = List("clusterpolicies", 0)
          /\ h[3] = Try("policies", 0) /\ h[4] = Read("exceptions", FALSE, FALSE, 0, 2)
      BY <2>1
    <2>. HIDE DEF h
    <2>3. /\ h[1].part = <<"namespace", "">> /\ h[2].part = <<"clusterpolicies", "">>
          /\ h[3].part = <<"policies", "">> /\ h[4].part = <<"exceptions", "">>
      <3>1. /\ Get("namespace").part = <<"namespace", "">>
            /\ List("clusterpolicies", 0).part = <<"clusterpolicies", "">>
            /\ Try("policies", 0).part = <<"policies", "">>
        BY GetListTry
      <3>2. Read("exceptions", FALSE, FALSE, 0, 2).part = <<"exceptions", "">>
        BY ReadOf
      <3>. QED  BY <2>2, <3>1, <3>2
    <2>4. {1, 2, 3, 4} \subseteq DOMAIN h
      BY <2>2
    <2>5. \A r \in parts : \/ r = "namespace" \/ r = "clusterpolicies"
                           \/ r = "policies" \/ r = "exceptions"
      OBVIOUS
    <2>. HIDE DEF parts
    <2>. QED  BY <2>3, <2>4, <2>5
  <1>3. \A r \in parts : LimitOf(ask, r) = 0 /\ r # "log"
    BY <1>1 DEF LimitOf
  <1>4. ~Extra(ask.tool, "namespace") /\ ~Extra(ask.tool, "clusterpolicies")
    BY <1>1 DEF Extra
  <1>. HIDE DEF h
  <1>5. PNamespace \notin dropped /\ PCluster \notin dropped /\ ask.tool # "get_workload"
    BY <1>1, <1>2, <1>4, AnswerHas DEF PNamespace, PCluster, h
  <1>6. ASSUME NEW r \in parts, <<r, "">> \notin dropped
        PROVE  Items(r) \in seen[<<r, "">>] /\ Holding(r, Items(r))
    <2>1. PICK i \in DOMAIN Handler(ask) : Handler(ask)[i].part = <<r, "">>
      BY <1>2 DEF h
    <2>. QED  BY <1>1, <1>3, <1>5, <1>6, <2>1, AnswerHasAll
  <1>7. NsLabels \in Some("namespace")
    <2>. DEFINE v == Items("namespace")
    <2>1. v \in seen[PNamespace] /\ Holding("namespace", v)
      BY <1>5, <1>6 DEF PNamespace
    <2>2. v # << >>
      <3>1. PNamespace \in DOMAIN got \ dropped /\ PNamespace[1] = "namespace"
        BY <1>1, <1>2, <1>5, AnswerHas DEF PNamespace, h
      <3>. QED  BY <3>1 DEF Inv, ReadInv, GotInv, Items, PNamespace
    <2>3. 1 \in DOMAIN v
      <3>. HIDE DEF v
      <3>. QED  BY <2>1, <2>2 DEF Holding
    <2>4. v[1] \in Range(v)
      BY <2>3 DEF Range
    <2>. QED  BY <2>1, <2>4 DEF Some, NsLabels, PNamespace
  <1>8. ASSUME NEW r \in {"clusterpolicies", "policies", "exceptions"}
        PROVE  /\ Range(Items(r)) \subseteq Some(r)
               /\ <<r, "">> \notin dropped => Always(r) \subseteq Range(Items(r))
    <2>1. CASE <<r, "">> \in dropped
      <3>1. Items(r) = << >>
        BY <2>1 DEF Inv, ReadInv, GotInv, Items
      <3>2. Range(Items(r)) = {}
        BY <3>1 DEF Range
      <3>. QED  BY <2>1, <3>2
    <2>2. CASE <<r, "">> \notin dropped
      <3>1. Items(r) \in seen[<<r, "">>]
        BY <1>6, <2>2
      <3>. QED  BY <3>1 DEF Some, Always
    <2>. QED  BY <2>1, <2>2
  <1>. QED  BY <1>5, <1>7, <1>8

(* The answer lists an entry for each rule that applies, and nothing else.   *)
LEMMA ListedExactly ==
    ASSUME NEW policies, NEW exceptions, NEW kind, NEW l
    PROVE  LET L == ListedRules(policies, exceptions, kind, l)
               exempt == Exemptions(exceptions, kind, l)
           IN  /\ \A pol \in policies : \A r \in pol.rules :
                     RuleApplies(r, kind, l, Controllers(pol, r))
                     => Entry(pol, r, kind, l, exempt) \in L
               /\ \A e \in L : \E pol \in policies : \E r \in pol.rules :
                     /\ RuleApplies(r, kind, l, Controllers(pol, r))
                     /\ e = Entry(pol, r, kind, l, exempt)
  <1>. DEFINE exempt == Exemptions(exceptions, kind, l)
              Applying(pol) == { r \in pol.rules : RuleApplies(r, kind, l, Controllers(pol, r)) }
              rules == UNION { { Entry(pol, r, kind, l, exempt) : r \in Applying(pol) } :
                               pol \in policies }
              L == ListedRules(policies, exceptions, kind, l)
  <1>1. L = rules
    BY DEF ListedRules
  <1>2. /\ \A pol \in policies : \A r \in Applying(pol) : Entry(pol, r, kind, l, exempt) \in rules
        /\ \A e \in rules : \E pol \in policies : \E r \in Applying(pol) :
              e = Entry(pol, r, kind, l, exempt)
    <2>. HIDE DEF Applying, exempt
    <2>. QED  OBVIOUS
  <1>. HIDE DEF rules, L, exempt
  <1>3. /\ \A pol \in policies : \A r \in pol.rules :
              RuleApplies(r, kind, l, Controllers(pol, r))
              => Entry(pol, r, kind, l, exempt) \in L
        /\ \A e \in L : \E pol \in policies : \E r \in pol.rules :
              /\ RuleApplies(r, kind, l, Controllers(pol, r))
              /\ e = Entry(pol, r, kind, l, exempt)
    BY <1>1, <1>2
  <1>. QED  BY <1>3 DEF L, exempt

(* The policies and exceptions the answer is made from.                      *)
ReadPolicies == Range(Items("clusterpolicies")) \cup Range(Items("policies"))
ReadExceptions == Range(Items("exceptions"))
Exempt == Exemptions(ReadExceptions, ask.kind, NsLabels)

(* What the answer lists of them.                                            *)
LEMMA ListedNow ==
    /\ \A pol \in ReadPolicies : \A r \in pol.rules :
          RuleApplies(r, ask.kind, NsLabels, Controllers(pol, r))
          => Entry(pol, r, ask.kind, NsLabels, Exempt) \in Listed
    /\ \A e \in Listed : \E pol \in ReadPolicies : \E r \in pol.rules :
          /\ RuleApplies(r, ask.kind, NsLabels, Controllers(pol, r))
          /\ e = Entry(pol, r, ask.kind, NsLabels, Exempt)
  <1>. DEFINE L == ListedRules(ReadPolicies, ReadExceptions, ask.kind, NsLabels)
  <1>1. Listed = L
    BY DEF Listed, ReadPolicies, ReadExceptions
  <1>. HIDE DEF ReadPolicies, ReadExceptions, NsLabels
  <1>. QED  BY <1>1, ListedExactly DEF Exempt

(* A policy that stands all through the call was read, and its rule covers a *)
(* request with the labels that were read.                                   *)
LEMMA InvMissingRules ==
    ASSUME Inv
    PROVE  MissingRulesHaveAReason
  <1>. SUFFICES ASSUME Answered("list_policies"), NEW pol \in StandingPolicies, NEW r \in pol.rules,
                       Concerns(pol, r), ~OnlyUsers(r.match),
                       \A f \in ExcludeFilters(r) : ~ExcludesTooMuch(f),
                       \A f \in ResourceFilters(r.match).filters : ~MissesAutogen(f)
                PROVE  IsListed(pol, r)
    BY DEF MissingRulesHaveAReason
  <1>2. pol \in ReadPolicies
    BY WhatWasRead DEF StandingPolicies, ReadPolicies, PCluster
  <1>3. NsLabels \in Some("namespace")
    BY WhatWasRead
  <1>4. PICK q \in Requests : AsksFor(q) /\ RuleCovers(pol, r, q, NsLabels)
    BY <1>3 DEF Concerns
  <1>5. PlainExcludes(r, ask.kind)
    BY DEF PlainExcludes, Plain, ExcludesTooMuch
  <1>6. BlockReaches(r.match, ask.kind)
    BY DEF BlockReaches, MissesAutogen, Reaches
  <1>7. RuleApplies(r, ask.kind, NsLabels, Controllers(pol, r))
    BY <1>4, <1>5, <1>6, CoveringRuleApplies, Zenon DEF AsksFor
  <1>8. Entry(pol, r, ask.kind, NsLabels, Exempt) \in Listed
    BY <1>2, <1>7, ListedNow
  <1>9. /\ Entry(pol, r, ask.kind, NsLabels, Exempt).policy = pol.name
        /\ Entry(pol, r, ask.kind, NsLabels, Exempt).rule = r.name
    BY DEF Entry
  <1>. QED  BY <1>8, <1>9 DEF IsListed

(* An entry of the answer comes from a rule that was read; without conditions *)
(* it covers every request with the labels that were read.                   *)
LEMMA InvOnlyIf ==
    ASSUME Inv
    PROVE  UnconditionalRulesApply
  <1>. SUFFICES ASSUME PoliciesAnswered, ask.kind.name # "", NEW e \in Listed, e.onlyIf = {}
                PROVE  \E pol \in Some("clusterpolicies") \cup Some("policies") : \E r \in pol.rules :
                          /\ pol.name = e.policy /\ r.name = e.rule
                          /\ Decidable(r) => \E l \in Some("namespace") :
                                \A q \in Requests : AsksFor(q) => RuleCovers(pol, r, q, l)
    BY DEF UnconditionalRulesApply
  <1>1. Answered("list_policies") /\ ask.kind.exact
    BY DEF PoliciesAnswered
  <1>2. PICK pol \in ReadPolicies : \E r \in pol.rules :
            /\ RuleApplies(r, ask.kind, NsLabels, Controllers(pol, r))
            /\ e = Entry(pol, r, ask.kind, NsLabels, Exempt)
    BY ListedNow
  <1>3. PICK r \in pol.rules :
            /\ RuleApplies(r, ask.kind, NsLabels, Controllers(pol, r))
            /\ e = Entry(pol, r, ask.kind, NsLabels, Exempt)
    BY <1>2
  <1>4. /\ pol.name = e.policy /\ r.name = e.rule
        /\ OnlyIf(r, ask.kind, NsLabels, Controllers(pol, r)) = {}
    <2>1. /\ Entry(pol, r, ask.kind, NsLabels, Exempt).policy = pol.name
          /\ Entry(pol, r, ask.kind, NsLabels, Exempt).rule = r.name
          /\ Entry(pol, r, ask.kind, NsLabels, Exempt).onlyIf
             = OnlyIf(r, ask.kind, NsLabels, Controllers(pol, r))
      BY DEF Entry
    <2>. QED  BY <1>3, <2>1
  <1>5. pol \in Some("clusterpolicies") \cup Some("policies")
    BY <1>1, WhatWasRead DEF ReadPolicies
  <1>6. NsLabels \in Some("namespace")
    BY <1>1, WhatWasRead
  <1>7. ASSUME Decidable(r), NEW q \in Requests, AsksFor(q)
        PROVE  RuleCovers(pol, r, q, NsLabels)
    <2>1. ask.kind.name = q.kind
      BY <1>7 DEF AsksFor
    <2>. QED  BY <1>1, <1>3, <1>4, <1>7, <2>1, ApplyingRuleCovers
  <1>. QED  BY <1>4, <1>5, <1>6, <1>7

(* An exception that stands all through the call was read, and hits with the *)
(* labels that were read.                                                    *)
LEMMA InvExemptions ==
    ASSUME Inv
    PROVE  ExemptionsAreMarked
  <1>. SUFFICES ASSUME PoliciesAnswered, PExceptions \notin dropped, NEW e \in Listed,
                       NEW x \in Always("exceptions"), x.policy = e.policy,
                       x.rules = {} \/ e.rule \in x.rules, ~OnlyUsers(x.match),
                       \A l \in Some("namespace") : \E q \in Requests :
                           AsksFor(q) /\ BlockCovers(x.match, q, l, PodControllers)
                PROVE  e.exempted
    BY DEF ExemptionsAreMarked, PExceptions
  <1>1. Answered("list_policies") /\ ask.kind.exact
    BY DEF PoliciesAnswered
  <1>2. x \in ReadExceptions /\ NsLabels \in Some("namespace")
    BY <1>1, WhatWasRead DEF ReadExceptions, PExceptions
  <1>3. PICK q \in Requests : AsksFor(q) /\ BlockCovers(x.match, q, NsLabels, PodControllers)
    BY <1>2
  <1>4. {x.policy} \X (IF x.rules = {} THEN {"*"} ELSE x.rules) \subseteq Exempt
    <2>. DEFINE rf(y) == ResourceFilters(y.match)
                Hit(f) == KindMatches(f, ask.kind, PodControllers) /\ NsMatches(f, NsLabels)
                HitBy(y) == /\ rf(y).filters # {}
                            /\ IF rf(y).all THEN \A f \in rf(y).filters : Hit(f)
                                            ELSE \E f \in rf(y).filters : Hit(f)
                Freed(y) == {y.policy} \X (IF y.rules = {} THEN {"*"} ELSE y.rules)
    <2>1. HitBy(x)
      <3>1. BlockReaches(x.match, ask.kind)
        BY <1>1 DEF BlockReaches, Reaches
      <3>2. BlockHits(x.match, ask.kind, NsLabels, PodControllers)
        BY <1>3, <3>1, CoveringBlockHits, Zenon DEF AsksFor
      <3>. QED  BY <3>2 DEF BlockHits
    <2>2. Exempt = UNION { Freed(y) : y \in { z \in ReadExceptions : HitBy(z) } }
      BY DEF Exempt, Exemptions, Hits
    <2>. HIDE DEF HitBy, Freed
    <2>3. Freed(x) \subseteq Exempt
      BY <1>2, <2>1, <2>2
    <2>. QED  BY <2>3 DEF Freed
  <1>5. PICK pol \in ReadPolicies : \E r \in pol.rules :
            e = Entry(pol, r, ask.kind, NsLabels, Exempt)
    BY ListedNow
  <1>6. PICK r \in pol.rules : e = Entry(pol, r, ask.kind, NsLabels, Exempt)
    BY <1>5
  <1>7. /\ e.policy = pol.name /\ e.rule = r.name
        /\ e.exempted = (Exempt \cap {<<pol.name, r.name>>, <<pol.name, "*">>} # {})
    BY <1>6 DEF Entry
  <1>8. Exempt \cap {<<pol.name, r.name>>, <<pol.name, "*">>} # {}
    <2>1. CASE x.rules = {}
      BY <2>1, <1>4, <1>7
    <2>2. CASE e.rule \in x.rules
      BY <2>2, <1>4, <1>7
    <2>. QED  BY <2>1, <2>2
  <1>. QED  BY <1>7, <1>8

--------------------------------------------------------------------------------
(* Answers in general.                                                       *)

(* The end of a sequence is a suffix of it.                                  *)
LEMMA EndIsSuffix ==
    ASSUME NEW S, NEW v \in Seq(S), NEW k \in 0..Len(v)
    PROVE  /\ IsSuffix(SubSeq(v, k + 1, Len(v)), v)
           /\ Len(SubSeq(v, k + 1, Len(v))) = Len(v) - k
           /\ \A i \in 1..(Len(v) - k) : SubSeq(v, k + 1, Len(v))[i] = v[k + i]
           /\ SubSeq(v, k + 1, Len(v)) \in Seq(S)
  <1>. DEFINE n == Len(v)
              m == n - k
              e == SubSeq(v, k + 1, n)
              re == Reverse(e)
              rv == Reverse(v)
  <1>1. n \in Nat /\ m \in Nat /\ m <= n /\ k \in Nat /\ \A i \in 1..n : v[i] \in S
    OBVIOUS
  <1>2. e \in Seq(S) /\ Len(e) = m /\ \A i \in 1..m : e[i] = v[k + i]
    <2>1. \A i \in (k + 1)..n : v[i] \in S
      BY <1>1
    <2>2. /\ e \in Seq(S) /\ Len(e) = IF k + 1 <= n THEN n - (k + 1) + 1 ELSE 0
          /\ \A i \in 1..(n - (k + 1) + 1) : e[i] = v[(k + 1) + i - 1]
      BY <1>1, <2>1, SubSeqProperties
    <2>3. n - (k + 1) + 1 = m /\ \A i \in 1..m : (k + 1) + i - 1 = k + i
      BY <1>1
    <2>. HIDE DEF e, m, n
    <2>4. Len(e) = m
      BY <1>1, <2>2 DEF m
    <2>5. \A i \in 1..m : e[i] = v[k + i]
      BY <2>2, <2>3
    <2>. QED  BY <2>2, <2>4, <2>5
  <1>. HIDE DEF e, n
  <1>3. re = [i \in 1..m |-> e[(m - i) + 1]] /\ rv = [i \in 1..n |-> v[(n - i) + 1]]
    BY <1>2 DEF Reverse, n
  <1>4. \A i \in 1..m : re[i] = rv[i]
    <2>. TAKE i \in 1..m
    <2>1. (m - i) + 1 \in 1..m /\ k + ((m - i) + 1) = (n - i) + 1 /\ i \in 1..n
      BY <1>1
    <2>. QED  BY <1>2, <1>3, <2>1
  <1>5. re \in Seq(S) /\ Len(re) = m /\ rv \in Seq(S) /\ Len(rv) = n
    <2>1. re \in [1..m -> S]
      <3>1. \A i \in 1..m : (m - i) + 1 \in 1..m /\ k + ((m - i) + 1) \in 1..n
        BY <1>1
      <3>. QED  BY <1>1, <1>2, <1>3, <3>1
    <2>2. rv \in [1..n -> S]
      <3>1. \A i \in 1..n : (n - i) + 1 \in 1..n
        BY <1>1
      <3>. QED  BY <1>1, <1>3, <3>1
    <2>. HIDE DEF re, rv, m
    <2>. QED  BY <1>1, <2>1, <2>2, SeqDef
  <1>. HIDE DEF re, rv, m
  <1>6. SubSeq(re, 1, m) = re
    BY <1>5, SubSeqFull
  <1>7. SubSeq(rv, 1, m) = re
    <2>1. \A i \in 1..m : rv[i] \in S
      BY <1>1, <1>5
    <2>2. /\ SubSeq(rv, 1, m) \in Seq(S) /\ Len(SubSeq(rv, 1, m)) = IF 1 <= m THEN m - 1 + 1 ELSE 0
          /\ \A i \in 1..(m - 1 + 1) : SubSeq(rv, 1, m)[i] = rv[1 + i - 1]
      BY <1>1, <2>1, SubSeqProperties
    <2>3. Len(SubSeq(rv, 1, m)) = m /\ \A i \in 1..m : SubSeq(rv, 1, m)[i] = re[i]
      BY <1>1, <1>4, <2>2
    <2>. QED  BY <1>5, <2>2, <2>3, SeqEqual
  <1>8. IsSuffix(e, v)
    BY <1>1, <1>5, <1>6, <1>7 DEF IsSuffix, IsPrefix, re, rv
  <1>. QED  BY <1>2, <1>8 DEF e, m, n

(* The first numbers, how many they are, and some of them.                   *)
LEMMA UpTo ==
    ASSUME NEW n \in Nat
    PROVE  /\ IsFiniteSet(1..n) /\ Cardinality(1..n) = n
           /\ \A S \in SUBSET (1..n) : /\ IsFiniteSet(S) /\ Cardinality(S) \in Nat
                                       /\ Cardinality(S) <= n
  <1>1. IsFiniteSet(1..n) /\ Cardinality(1..n) = IF 1 > n THEN 0 ELSE n - 1 + 1
    BY FS_Interval
  <1>2. Cardinality(1..n) = n
    BY <1>1
  <1>3. ASSUME NEW S \in SUBSET (1..n)
        PROVE  IsFiniteSet(S) /\ Cardinality(S) \in Nat /\ Cardinality(S) <= n
    BY <1>1, <1>2, FS_Subset, FS_CardinalityType
  <1>. QED  BY <1>1, <1>2, <1>3

(* The lines of a log that the server leaves out.                            *)
Older(v, limit) == { i \in DOMAIN v : v[i] <= Last(v) - limit }

LEMMA ServedLog ==
    ASSUME NEW v, v \in Seq(Range(v)), NEW limit
    PROVE  LET k == Cardinality(Older(v, limit))
           IN  /\ k \in 0..Len(v) /\ IsFiniteSet(Older(v, limit))
               /\ Serve("log", limit, v).items = SubSeq(v, k + 1, Len(v))
  <1>1. Older(v, limit) \subseteq 1..Len(v) /\ Len(v) \in Nat
    BY DEF Older
  <1>2. /\ IsFiniteSet(Older(v, limit)) /\ Cardinality(Older(v, limit)) <= Len(v)
        /\ Cardinality(Older(v, limit)) \in Nat
    BY <1>1, UpTo
  <1>3. Serve("log", limit, v) = [items |-> SubSeq(v, Cardinality(Older(v, limit)) + 1, Len(v)),
                                  more |-> FALSE]
    BY Zenon DEF Serve, Older
  <1>. QED  BY <1>1, <1>2, <1>3

(* What the server returns of a part is the beginning of what it holds, and  *)
(* either all of it or as much as was asked for.                             *)
LEMMA ServedList ==
    ASSUME NEW r, r # "log", NEW v, v \in Seq(Range(v)), NEW limit
    PROVE  LET s == Serve(r, limit, v)
           IN  /\ IsPrefix(s.items, v) /\ s.items \in Seq(Range(v))
               /\ \/ s.items = v /\ ~s.more /\ ~(limit \in 1..(Len(v) - 1))
                  \/ s.more /\ limit \in 1..(Len(v) - 1) /\ Len(s.items) = limit
  <1>1. Len(v) \in Nat /\ \A i \in 1..Len(v) : v[i] \in Range(v)
    OBVIOUS
  <1>2. CASE limit \in 1..(Len(v) - 1)
    <2>. DEFINE s == SubSeq(v, 1, limit)
    <2>1. Serve(r, limit, v) = [items |-> s, more |-> TRUE]
      BY <1>2, Zenon DEF Serve
    <2>2. s \in Seq(Range(v)) /\ Len(s) = limit
      <3>1. \A i \in 1..limit : v[i] \in Range(v)
        BY <1>1, <1>2
      <3>2. s \in Seq(Range(v)) /\ Len(s) = IF 1 <= limit THEN limit - 1 + 1 ELSE 0
        BY <1>2, <3>1, SubSeqProperties
      <3>. QED  BY <1>2, <3>2
    <2>3. SubSeq(s, 1, Len(s)) = s
      BY <2>2, SubSeqFull
    <2>4. IsPrefix(s, v)
      BY <1>1, <1>2, <2>2, <2>3 DEF IsPrefix
    <2>. HIDE DEF s
    <2>. QED  BY <1>2, <2>1, <2>2, <2>4
  <1>3. CASE ~(limit \in 1..(Len(v) - 1))
    <2>1. Serve(r, limit, v) = [items |-> v, more |-> FALSE]
      BY <1>3, Zenon DEF Serve
    <2>2. IsPrefix(v, v)
      BY <1>1 DEF IsPrefix
    <2>. QED  BY <1>3, <2>1, <2>2
  <1>. QED  BY <1>2, <1>3

(* A list that was read and not cut has what was there all through the call. *)
LEMMA UncutIsWhole ==
    ASSUME Inv, NEW p \in DOMAIN got \ dropped, p[1] # "log", ~got[p].more
    PROVE  got[p].items \in seen[p]
  <1>1. PICK v \in seen[p] : got[p] = Serve(p[1], LimitOf(ask, p[1]), v)
    BY DEF Inv, ReadInv, GotInv
  <1>2. v \in Seq(Range(v))
    BY DEF Inv, WorldInv, ReadInv, GotInv, Holding
  <1>3. got[p].items = v \/ got[p].more
    BY <1>1, <1>2, ServedList
  <1>. QED  BY <1>3

(* The slices of each service were read, and its endpoints are those of the  *)
(* slices that were read.                                                    *)
LEMMA InvServices ==
    ASSUME Inv, phase = "answered", ask.tool = "list_services"
    PROVE  /\ \A s \in Range(Items("services")) : <<"slices", s>> \in DOMAIN got
           /\ \A s \in DOMAIN ServiceEndpoints : <<"slices", s>> \notin dropped =>
                 \E v \in seen[<<"slices", s>>] : ServiceEndpoints[s] = Endpoints(v)
  <1>1. ASSUME NEW s \in Range(Items("services"))
        PROVE  <<"slices", s>> \in DOMAIN got
    <2>1. plan = << >> /\ Planned = {}
      BY NonePlanned DEF Inv, PhaseInv
    <2>2. plan # HandleListServices(ask)
      BY <2>1 DEF HandleListServices
    <2>3. SlicesOf(Range(Items("services"))) \subseteq DOMAIN got
      BY <2>1, <2>2 DEF Inv, ReadInv, CompleteInv
    <2>. QED  BY <2>3 DEF SlicesOf
  <1>2. ASSUME NEW s \in DOMAIN ServiceEndpoints, <<"slices", s>> \notin dropped
        PROVE  \E v \in seen[<<"slices", s>>] : ServiceEndpoints[s] = Endpoints(v)
    <2>. DEFINE p == <<"slices", s>>
    <2>1. s \in Range(Items("services")) /\ p[1] = "slices"
      BY DEF ServiceEndpoints
    <2>2. LimitOf(ask, "slices") = 0
      BY DEF LimitOf
    <2>3. got[p].items \in seen[p]
      BY <1>1, <1>2, <2>1, <2>2, WasRead DEF Inv
    <2>4. ServiceEndpoints[s] = Endpoints(got[p].items)
      BY <2>1 DEF ServiceEndpoints
    <2>. QED  BY <2>3, <2>4
  <1>. QED  BY <1>1, <1>2

(* The needed parts of tools that make several reads.                        *)
LEMMA NeededIsPlanned ==
    ASSUME NEW a, a.tool \in DOMAIN Needed, NEW r \in Needed[a.tool]
    PROVE  /\ \E i \in DOMAIN Handler(a) : Handler(a)[i].part = <<r, "">>
           /\ ~Extra(a.tool, r) /\ a.tool # "get_workload"
  <1>1. CASE a.tool = "list_workloads"
    <2>1. Handler(a) = << List("deployments", 0), List("statefulsets", 0), List("daemonsets", 0) >>
      BY <1>1 DEF Handler, HandleListWorkloads
    <2>2. r = "deployments" \/ r = "statefulsets" \/ r = "daemonsets"
      BY <1>1 DEF Needed
    <2>3. /\ {1, 2, 3} \subseteq DOMAIN Handler(a) /\ Handler(a)[1] = List("deployments", 0)
          /\ Handler(a)[2] = List("statefulsets", 0) /\ Handler(a)[3] = List("daemonsets", 0)
      BY <2>1
    <2>4. ~Extra(a.tool, r)
      BY <1>1 DEF Extra
    <2>. QED  BY <1>1, <2>2, <2>3, <2>4, GetListTry
  <1>2. CASE a.tool = "get_service"
    <2>1. Handler(a) = << Get("service"), List("slices", 0) >>
      BY <1>2 DEF Handler, HandleGetService
    <2>2. r = "service" \/ r = "slices"
      BY <1>2 DEF Needed
    <2>3. /\ {1, 2} \subseteq DOMAIN Handler(a) /\ Handler(a)[1] = Get("service")
          /\ Handler(a)[2] = List("slices", 0)
      BY <2>1
    <2>4. ~Extra(a.tool, r)
      BY <1>2 DEF Extra
    <2>. QED  BY <1>2, <2>2, <2>3, <2>4, GetListTry
  <1>3. CASE a.tool = "get_quota"
    <2>1. Handler(a) = << List("quotas", 0), List("limitranges", 0) >>
      BY <1>3 DEF Handler, HandleGetQuota
    <2>2. r = "quotas" \/ r = "limitranges"
      BY <1>3 DEF Needed
    <2>3. /\ {1, 2} \subseteq DOMAIN Handler(a) /\ Handler(a)[1] = List("quotas", 0)
          /\ Handler(a)[2] = List("limitranges", 0)
      BY <2>1
    <2>4. ~Extra(a.tool, r)
      BY <1>3 DEF Extra
    <2>. QED  BY <1>3, <2>2, <2>3, <2>4, GetListTry
  <1>4. CASE a.tool = "list_services"
    <2>1. Handler(a) = << List("services", 0) >>
      BY <1>4 DEF Handler, HandleListServices
    <2>2. r = "services"
      BY <1>4 DEF Needed
    <2>3. ~Extra(a.tool, r)
      BY <1>4, <2>2 DEF Extra
    <2>. QED  BY <1>4, <2>1, <2>2, <2>3, OneListRead
  <1>5. CASE a.tool = "list_policies"
    <2>1. Handler(a) = << Get("namespace"), List("clusterpolicies", 0), Try("policies", 0),
                          Read("exceptions", FALSE, FALSE, 0, 2) >>
      BY <1>5 DEF Handler, HandleListPolicies
    <2>2. r = "namespace" \/ r = "clusterpolicies"
      BY <1>5 DEF Needed
    <2>3. /\ {1, 2} \subseteq DOMAIN Handler(a) /\ Handler(a)[1] = Get("namespace")
          /\ Handler(a)[2] = List("clusterpolicies", 0)
      BY <2>1
    <2>4. ~Extra(a.tool, r)
      BY <1>5, <2>2 DEF Extra
    <2>. QED  BY <1>5, <2>2, <2>3, <2>4, GetListTry
  <1>. QED  BY <1>1, <1>2, <1>3, <1>4, <1>5 DEF Needed

(* The types of an answer, and that it is complete.                            *)
LEMMA InvAnswer ==
    ASSUME Inv
    PROVE  AnswerInv
  <1>1. RedTypeOK
    <2>1. CASE phase \in {"redacting", "answered"} /\ ask.tool = "get_resource"
      <3>1. plan = << >>
        BY <2>1 DEF Inv, PhaseInv
      <3>2. IsTree(Stripped(Items("object")[1]))
        BY <2>1, <3>1, ObjectRead DEF Inv
      <3>3. PICK V \in SUBSET DOMAIN object :
                Walked(Stripped(Items("object")[1]), V, todo, object, count)
        BY <2>1 DEF Inv, PhaseInv, WalkInv
      <3>. QED  BY <3>2, <3>3, WalkTypes
    <2>2. CASE ~(phase \in {"redacting", "answered"} /\ ask.tool = "get_resource")
      <3>1. object = << >> /\ todo = {} /\ count = 0
        BY <2>2 DEF Inv, PhaseInv, WalkInv
      <3>. QED  BY <3>1 DEF RedTypeOK
    <2>. QED  BY <2>1, <2>2
  <1>2. CallTypeOK
    BY <1>1 DEF Inv, WorldInv, ReadInv, GotInv, PhaseInv, CallTypeOK
  <1>3. \A p \in dropped : Extra(ask.tool, p[1])
    BY DEF Inv, ReadInv, GotInv
  <1>4. ASSUME phase = "answered", ask.tool \in DOMAIN Needed, NEW r \in Needed[ask.tool]
        PROVE  <<r, "">> \in DOMAIN got \ dropped
    <2>1. /\ \E i \in DOMAIN Handler(ask) : Handler(ask)[i].part = <<r, "">>
          /\ ~Extra(ask.tool, r) /\ ask.tool # "get_workload"
      BY <1>4, NeededIsPlanned
    <2>. QED  BY <1>4, <2>1, AnswerHas
  <1>5. ASSUME NEW p \in DOMAIN got \ dropped, p[1] # "log", ~got[p].more, NEW x,
               \A v \in seen[p] : x \in Range(v)
        PROVE  x \in Range(got[p].items)
    BY <1>5, UncutIsWhole
  <1>6. AnswerIsComplete
    BY <1>3, <1>4, <1>5, InvServices DEF AnswerIsComplete
  <1>. QED  BY <1>2, <1>6 DEF AnswerInv

(* The walk has visited everything when the call answers.                    *)
LEMMA InvMasks ==
    ASSUME Inv
    PROVE  MaskedExactly
  <1>. SUFFICES ASSUME Answered("get_resource")
                PROVE  LET o == Items("object")[1]
                           new == { i \in DOMAIN object : object[i] # o[i] }
                       IN  /\ new = { i \in DOMAIN object : IsCredential(o, i) \/ IsEmptyEnv(o, i) }
                           /\ \A i \in new : object[i].val \in {"redacted", "flagRedacted", "urlRedacted"}
                           /\ \A i \in DOMAIN object : object[i].val # "copy"
                           /\ count = Cardinality(new)
    BY DEF MaskedExactly
  <1>. DEFINE o == Items("object")[1]
              s == Stripped(o)
              new == { i \in DOMAIN object : object[i] # o[i] }
  <1>1. phase = "answered" /\ ask.tool = "get_resource" /\ plan = << >> /\ todo = {}
    BY DEF Answered, Inv, PhaseInv
  <1>2. IsObject(o) /\ IsTree(s) /\ \A i \in DOMAIN s : s[i] = o[i]
    BY <1>1, ObjectRead, StrippedIsTree DEF Inv
  <1>3. PICK V \in SUBSET DOMAIN object : Walked(s, V, {}, object, count)
    BY <1>1 DEF Inv, PhaseInv, WalkInv
  <1>4. V = DOMAIN s
    BY <1>2, <1>3, WalkEnds
  <1>. DEFINE F(i) == Final(s, i)
  <1>5. ASSUME NEW i \in DOMAIN s
        PROVE  /\ F(i) # s[i].val <=> IsCredential(o, i) \/ IsEmptyEnv(o, i)
               /\ F(i) # s[i].val => F(i) \in {"redacted", "flagRedacted", "urlRedacted"}
               /\ F(i) # "copy"
    BY <1>2, HiddenExactly
  <1>. HIDE DEF s, o
  <1>6. DOMAIN object = DOMAIN s /\ \A i \in DOMAIN s : object[i] = With(s, i, F(i))
    BY <1>3, <1>4 DEF Walked, Now
  <1>7. \A i \in DOMAIN s : object[i].val = F(i) /\ (object[i] # o[i] <=> F(i) # s[i].val)
    <2>. TAKE i \in DOMAIN s
    <2>1. o[i] = With(s, i, s[i].val)
      BY <1>2, WithVal
    <2>2. With(s, i, F(i)).val = F(i) /\ With(s, i, s[i].val).val = s[i].val
      BY WithVal
    <2>. QED  BY <1>6, <2>1, <2>2
  <1>. HIDE DEF F
  <1>8. Changed(s, V, {}) = new
    <2>1. \A i \in DOMAIN s : Now(s, V, {}, i) = F(i)
      BY <1>4 DEF Now, F
    <2>. QED  BY <1>6, <1>7, <2>1 DEF Changed
  <1>9. count = Cardinality(new)
    BY <1>3, <1>8 DEF Walked
  <1>. QED  BY <1>5, <1>6, <1>7, <1>9 DEF o

--------------------------------------------------------------------------------
(* Sorting.                                                                  *)

(* ahead says for each index of D which ones come before it.                 *)
IsOrder(D, ahead) ==
    /\ IsFiniteSet(D) /\ DOMAIN ahead = D /\ \A i \in D : ahead[i] \subseteq D
    /\ \A i \in D : i \notin ahead[i]
    /\ \A i, j \in D : i # j => i \in ahead[j] \/ j \in ahead[i]
    /\ \A i, j \in D : j \in ahead[i] => ahead[j] \subseteq ahead[i]

(* Each index has a place of its own, after those ahead of it, and no place  *)
(* is left empty.                                                            *)
LEMMA Places ==
    ASSUME NEW D, NEW ahead, IsOrder(D, ahead)
    PROVE  /\ Cardinality(D) \in Nat
           /\ \A i \in D : Cardinality(ahead[i]) \in 0..(Cardinality(D) - 1)
           /\ \A i, j \in D : j \in ahead[i] => Cardinality(ahead[j]) < Cardinality(ahead[i])
           /\ \A i, j \in D : Cardinality(ahead[i]) = Cardinality(ahead[j]) => i = j
           /\ \A k \in 1..Cardinality(D) : \E i \in D : Cardinality(ahead[i]) = k - 1
  <1>. DEFINE n == Cardinality(D)
              place == [i \in D |-> Cardinality(ahead[i])]
  <1>1. n \in Nat /\ \A i \in D : IsFiniteSet(ahead[i]) /\ Cardinality(ahead[i]) \in Nat
    BY FS_CardinalityType, FS_Subset DEF IsOrder
  <1>2. ASSUME NEW S, IsFiniteSet(S), NEW T, T \subseteq S, T # S
        PROVE  Cardinality(T) < Cardinality(S)
    <2>1. Cardinality(T) <= Cardinality(S) /\ Cardinality(T) # Cardinality(S) /\ IsFiniteSet(T)
      BY <1>2, FS_Subset
    <2>2. Cardinality(T) \in Nat /\ Cardinality(S) \in Nat
      BY <1>2, <2>1, FS_CardinalityType
    <2>. QED  BY <2>1, <2>2
  <1>3. \A i \in D : Cardinality(ahead[i]) \in 0..(n - 1)
    <2>. TAKE i \in D
    <2>1. Cardinality(ahead[i]) < n
      BY <1>2 DEF IsOrder
    <2>. QED  BY <1>1, <2>1
  <1>4. ASSUME NEW i \in D, NEW j \in D, j \in ahead[i]
        PROVE  Cardinality(ahead[j]) < Cardinality(ahead[i])
    <2>1. ahead[j] \subseteq ahead[i] /\ ahead[j] # ahead[i]
      BY <1>4 DEF IsOrder
    <2>. QED  BY <1>1, <1>2, <2>1
  <1>5. ASSUME NEW i \in D, NEW j \in D, Cardinality(ahead[i]) = Cardinality(ahead[j])
        PROVE  i = j
    <2>1. j \notin ahead[i] /\ i \notin ahead[j]
      BY <1>1, <1>4, <1>5
    <2>. QED  BY <2>1 DEF IsOrder
  <1>6. Cardinality(0..(n - 1)) = n /\ IsFiniteSet(0..(n - 1))
    <2>1. /\ IsFiniteSet(0..(n - 1))
          /\ Cardinality(0..(n - 1)) = IF 0 > n - 1 THEN 0 ELSE (n - 1) - 0 + 1
      BY <1>1, FS_Interval
    <2>. HIDE DEF n
    <2>. QED  BY <1>1, <2>1
  <1>7. place \in Injection(D, 0..(n - 1))
    BY <1>3, <1>5 DEF Injection, IsInjective
  <1>8. place \in Surjection(D, 0..(n - 1))
    <2>. HIDE DEF place
    <2>. QED  BY <1>6, <1>7, FS_Injection
  <1>9. ASSUME NEW k \in 1..n
        PROVE  \E i \in D : Cardinality(ahead[i]) = k - 1
    <2>1. k - 1 \in 0..(n - 1)
      BY <1>1
    <2>2. PICK i \in D : place[i] = k - 1
      BY <1>8, <2>1 DEF Surjection
    <2>. QED  BY <2>2
  <1>. QED  BY <1>1, <1>3, <1>4, <1>5, <1>9

(* What is sorted has the values of the indices, each in its place.          *)
LEMMA OrderedValues ==
    ASSUME NEW s, NEW D, NEW ahead, IsOrder(D, ahead), NEW V, \A i \in D : s[i] \in V
    PROVE  /\ Ordered(s, ahead) \in Seq(V)
           /\ Len(Ordered(s, ahead)) = Cardinality(D)
           /\ DOMAIN Ordered(s, ahead) = 1..Cardinality(D)
           /\ \A i \in D : Ordered(s, ahead)[Cardinality(ahead[i]) + 1] = s[i]
  <1>. DEFINE n == Cardinality(D)
              o == Ordered(s, ahead)
  <1>1. n \in Nat /\ DOMAIN ahead = D
    BY Places DEF IsOrder
  <1>2. o = [k \in 1..n |-> s[CHOOSE i \in D : Cardinality(ahead[i]) = k - 1]]
    BY <1>1 DEF Ordered
  <1>3. ASSUME NEW i \in D
        PROVE  o[Cardinality(ahead[i]) + 1] = s[i]
    <2>. DEFINE k == Cardinality(ahead[i]) + 1
    <2>1. k \in 1..n /\ Cardinality(ahead[i]) = k - 1
      <3>1. Cardinality(ahead[i]) \in 0..(n - 1)
        BY Places
      <3>. HIDE DEF n
      <3>. QED  BY <1>1, <3>1
    <2>2. \A j \in D : Cardinality(ahead[j]) = k - 1 => j = i
      BY <2>1, Places
    <2>. HIDE DEF k
    <2>3. i = CHOOSE j \in D : Cardinality(ahead[j]) = k - 1
      BY <2>1, <2>2
    <2>4. o[k] = s[i]
      BY <1>2, <2>1, <2>3
    <2>. QED  BY <2>4 DEF k
  <1>4. o \in [1..n -> V]
    <2>1. ASSUME NEW k \in 1..n
          PROVE  s[CHOOSE i \in D : Cardinality(ahead[i]) = k - 1] \in V
      <3>1. \E i \in D : Cardinality(ahead[i]) = k - 1
        BY Places
      <3>2. (CHOOSE i \in D : Cardinality(ahead[i]) = k - 1) \in D
        BY <3>1
      <3>. QED  BY <3>2
    <2>. QED  BY <1>2, <2>1
  <1>. HIDE DEF n, o
  <1>5. o \in Seq(V) /\ Len(o) = n /\ DOMAIN o = 1..n
    BY <1>1, <1>4, SeqDef
  <1>. QED  BY <1>3, <1>5 DEF n, o

(* What Ascending puts before each index.                                    *)
Ahead(s) == [j \in DOMAIN s |-> { i \in DOMAIN s : s[i] < s[j] \/ (s[i] = s[j] /\ i < j) }]

LEMMA AscendingOrder ==
    ASSUME NEW s \in Seq(Int)
    PROVE  /\ IsOrder(DOMAIN s, Ahead(s))
           /\ \A i, j \in DOMAIN s : j \in Ahead(s)[i] => s[j] <= s[i]
  <1>. DEFINE D == DOMAIN s
              ahead == [j \in D |-> { i \in D : s[i] < s[j] \/ (s[i] = s[j] /\ i < j) }]
  <1>1. D = 1..Len(s) /\ Len(s) \in Nat /\ \A i \in D : s[i] \in Int
    OBVIOUS
  <1>2. IsFiniteSet(D)
    BY <1>1, UpTo
  <1>3. \A i \in D : i \notin ahead[i]
    BY <1>1
  <1>4. \A i, j \in D : i # j => i \in ahead[j] \/ j \in ahead[i]
    BY <1>1
  <1>5. \A i, j \in D : j \in ahead[i] => ahead[j] \subseteq ahead[i] /\ s[j] <= s[i]
    BY <1>1
  <1>. QED  BY <1>2, <1>3, <1>4, <1>5 DEF IsOrder, Ahead

(* Numbers in ascending order: as many, the largest at the end.              *)
LEMMA AscendingEnds ==
    ASSUME NEW s, s \in Seq(Range(s)), Range(s) \subseteq Int
    PROVE  /\ Len(Ascending(s)) = Len(s)
           /\ s # << >> => \A t \in Range(s) : t <= Last(Ascending(s))
  <1>. DEFINE D == DOMAIN s
              n == Len(s)
              Place(i) == Cardinality(Ahead(s)[i])
              o == Ascending(s)
  <1>1. D = 1..n /\ n \in Nat /\ \A i \in D : s[i] \in Range(s)
    OBVIOUS
  <1>2. /\ IsOrder(D, Ahead(s)) /\ Cardinality(D) = n
        /\ \A i, j \in D : j \in Ahead(s)[i] => s[j] <= s[i]
    BY <1>1, SeqMonotonic, AscendingOrder, UpTo
  <1>3. o = Ordered(s, Ahead(s))
    BY DEF Ascending, Ahead
  <1>4. Len(o) = n /\ \A i \in D : o[Place(i) + 1] = s[i]
    BY <1>1, <1>2, <1>3, OrderedValues
  <1>5. ASSUME s # << >>, NEW t \in Range(s)
        PROVE  t <= Last(o)
    <2>1. n >= 1
      BY <1>5
    <2>2. PICK j \in D : t = s[j]
      BY DEF Range
    <2>. HIDE DEF o, n, D
    <2>3. PICK i \in D : Cardinality(Ahead(s)[i]) = n - 1
      BY <1>1, <1>2, <2>1, Places
    <2>4. Last(o) = s[i]
      <3>1. Place(i) + 1 = n
        BY <1>1, <2>3
      <3>2. o[n] = s[i]
        BY <1>4, <3>1
      <3>. QED  BY <1>4, <3>2 DEF Last
    <2>5. CASE j = i
      BY <2>2, <2>4, <2>5
    <2>6. CASE j # i
      <3>1. i \notin Ahead(s)[j]
        <4>1. Cardinality(Ahead(s)[j]) \in 0..(n - 1)
          BY <1>2, Places
        <4>2. ~(Cardinality(Ahead(s)[i]) < Cardinality(Ahead(s)[j]))
          BY <1>1, <2>3, <4>1
        <4>. QED  BY <1>2, <4>2, Places
      <3>2. j \in Ahead(s)[i]
        BY <1>2, <2>6, <3>1 DEF IsOrder
      <3>. QED  BY <1>2, <2>2, <2>4, <3>2
    <2>. QED  BY <2>5, <2>6
  <1>. QED  BY <1>4, <1>5

--------------------------------------------------------------------------------
(* What is cut off.                                                          *)

(* The values of a sequence of integers.                                     *)
LEMMA RangeOfInts ==
    ASSUME NEW s \in Seq(Int)
    PROVE  s \in Seq(Range(s)) /\ Range(s) \subseteq Int
  <1>1. s \in Seq(Range(s))
    BY SeqOfRange
  <1>2. \A i \in DOMAIN s : s[i] \in Int
    OBVIOUS
  <1>3. Range(s) \subseteq Int
    BY <1>2 DEF Range
  <1>. QED  BY <1>1, <1>3

(* Under the limit that the code chooses, n objects of which none is lacking *)
(* unless there are as many as the limit are as the caller may expect.       *)
LEMMA LimitFits ==
    ASSUME NEW asked \in Int, NEW max \in Nat, DefaultListLimit <= max, NEW n \in Nat,
           NEW whole \in BOOLEAN, n <= Limit(asked, max), whole \/ n = Limit(asked, max)
    PROVE  /\ n <= max
           /\ asked \in 1..max /\ n # asked => whole /\ n < asked
           /\ asked \notin 1..max /\ n < DefaultListLimit => whole
  BY LimitsAssumption DEF Limit

(* What the server returns under a limit is all, or as much as the limit and *)
(* less than there is.                                                       *)
LEMMA ServedWithin ==
    ASSUME NEW r, r # "log", NEW v, v \in Seq(Range(v)), NEW limit \in Nat \ {0}
    PROVE  LET s == Serve(r, limit, v)
           IN  /\ Len(s.items) \in Nat /\ Len(s.items) <= limit
               /\ \/ s.items = v /\ ~s.more
                  \/ s.more /\ Len(s.items) = limit /\ Len(s.items) < Len(v)
  <1>. DEFINE s == Serve(r, limit, v)
  <1>1. \/ s.items = v /\ ~s.more /\ ~(limit \in 1..(Len(v) - 1))
        \/ s.more /\ Len(s.items) = limit /\ limit \in 1..(Len(v) - 1)
    BY ServedList
  <1>. HIDE DEF s
  <1>2. Len(v) \in Nat
    OBVIOUS
  <1>3. /\ ~(limit \in 1..(Len(v) - 1)) => Len(v) <= limit
        /\ limit \in 1..(Len(v) - 1) => limit < Len(v)
    BY <1>2
  <1>4. CASE s.items = v /\ ~s.more /\ ~(limit \in 1..(Len(v) - 1))
    BY <1>2, <1>3, <1>4 DEF s
  <1>5. CASE s.more /\ Len(s.items) = limit /\ limit \in 1..(Len(v) - 1)
    BY <1>3, <1>5 DEF s
  <1>. QED  BY <1>1, <1>4, <1>5

(* A list that lacks an object has as many as the limit.                     *)
LEMMA CutLists ==
    ASSUME Inv, phase = "answered", ask.tool # "get_workload", NEW r, r # "log",
           NEW i \in DOMAIN Handler(ask), Handler(ask)[i].part = <<r, "">>,
           Extra(ask.tool, r) => <<r, "">> \notin dropped,
           NEW limit \in Nat \ {0}, limit = LimitOf(ask, r)
    PROVE  /\ Len(Items(r)) \in Nat /\ Len(Items(r)) <= limit
           /\ \/ Items(r) \in seen[<<r, "">>] /\ ~got[<<r, "">>].more
              \/ /\ got[<<r, "">>].more /\ Len(Items(r)) = limit
                 /\ \E v \in seen[<<r, "">>] : Len(v) > Len(Items(r))
           /\ r = "events" => Items(r) \in Seq(Int)
  <1>1. PICK v \in seen[<<r, "">>] : Holding(r, v) /\ got[<<r, "">>] = Serve(r, limit, v)
    BY AnswerHas
  <1>2. v \in Seq(Range(v))
    BY <1>1 DEF Holding
  <1>. DEFINE s == Serve(r, limit, v)
  <1>3. /\ Len(s.items) \in Nat /\ Len(s.items) <= limit
        /\ \/ s.items = v /\ ~s.more
           \/ s.more /\ Len(s.items) = limit /\ Len(s.items) < Len(v)
    BY <1>2, ServedWithin
  <1>4. s.items \in Seq(Range(v))
    BY <1>2, ServedList
  <1>5. Items(r) = s.items /\ got[<<r, "">>].more = s.more
    BY <1>1 DEF Items
  <1>. HIDE DEF s
  <1>6. r = "events" => Items(r) \in Seq(Int)
    BY <1>1, <1>4, <1>5, SeqMonotonic DEF Holding
  <1>7. Len(v) \in Nat
    BY <1>2, LenProperties
  <1>8. Len(s.items) < Len(v) => Len(v) > Len(s.items)
    BY <1>3, <1>7
  <1>. QED  BY <1>3, <1>5, <1>6, <1>8, Zenon

(* No list is too long, and a short one is whole.                            *)
LEMMA InvLists ==
    ASSUME Inv
    PROVE  ShortListsAreWhole
  <1>. DEFINE Whole(r) == Items(r) \in seen[<<r, "">>]
              Fits(r, max) ==
                 /\ Len(Items(r)) <= max
                 /\ ask.limit \in 1..max /\ Len(Items(r)) # ask.limit
                    => Whole(r) /\ Len(Items(r)) < ask.limit
                 /\ ask.limit \notin 1..max /\ Len(Items(r)) < DefaultListLimit => Whole(r)
  <1>1. ask.limit \in Int
    BY DEF Inv, ReadInv, PlanInv
  <1>2. \A max \in {MaxPods, MaxResources} :
            Limit(ask.limit, max) \in Nat \ {0} /\ max \in Nat /\ DefaultListLimit <= max
    BY <1>1, LimitsAssumption DEF Limit
  <1>3. ASSUME NEW r, NEW max \in {MaxPods, MaxResources}, Len(Items(r)) \in Nat,
               Len(Items(r)) <= Limit(ask.limit, max),
               Whole(r) \/ Len(Items(r)) = Limit(ask.limit, max)
        PROVE  Fits(r, max)
    <2>. DEFINE w == Whole(r)
    <2>1. w \in BOOLEAN
      OBVIOUS
    <2>. HIDE DEF w
    <2>2. w \/ Len(Items(r)) = Limit(ask.limit, max)
      BY <1>3 DEF w
    <2>3. /\ Len(Items(r)) <= max
          /\ ask.limit \in 1..max /\ Len(Items(r)) # ask.limit => w /\ Len(Items(r)) < ask.limit
          /\ ask.limit \notin 1..max /\ Len(Items(r)) < DefaultListLimit => w
      BY <1>1, <1>2, <1>3, <2>1, <2>2, LimitFits
    <2>. QED  BY <2>3 DEF w
  <1>4. ASSUME Answered("list_pods")
        PROVE  Fits("pods", MaxPods)
    <2>1. phase = "answered" /\ ask.tool = "list_pods"
      BY <1>4 DEF Answered
    <2>2. LimitOf(ask, "pods") = Limit(ask.limit, MaxPods) /\ ~Extra(ask.tool, "pods")
      BY <2>1 DEF LimitOf, Extra
    <2>3. 1 \in DOMAIN Handler(ask) /\ Handler(ask)[1].part = <<"pods", "">>
      BY <2>1, OneListRead DEF Handler, HandleListPods
    <2>4. Limit(ask.limit, MaxPods) \in Nat \ {0}
      BY <1>2
    <2>5. /\ Len(Items("pods")) \in Nat /\ Len(Items("pods")) <= Limit(ask.limit, MaxPods)
          /\ Whole("pods") \/ Len(Items("pods")) = Limit(ask.limit, MaxPods)
      BY <2>1, <2>2, <2>3, <2>4, CutLists
    <2>. HIDE DEF Fits, Whole
    <2>. QED  BY <1>3, <2>5
  <1>5. ASSUME Answered("list_resource")
        PROVE  /\ Fits("items", MaxResources)
               /\ ~Truncated => Whole("items")
               /\ Truncated => \E v \in seen[<<"items", "">>] : Len(v) > Len(Items("items"))
    <2>1. phase = "answered" /\ ask.tool = "list_resource"
      BY <1>5 DEF Answered
    <2>2. LimitOf(ask, "items") = Limit(ask.limit, MaxResources) /\ ~Extra(ask.tool, "items")
      BY <2>1 DEF LimitOf, Extra
    <2>3. 1 \in DOMAIN Handler(ask) /\ Handler(ask)[1].part = <<"items", "">>
      BY <2>1, OneListRead DEF Handler, HandleListResource
    <2>4. Limit(ask.limit, MaxResources) \in Nat \ {0}
      BY <1>2
    <2>5. /\ Len(Items("items")) \in Nat /\ Len(Items("items")) <= Limit(ask.limit, MaxResources)
          /\ \/ Whole("items") /\ ~Truncated
             \/ /\ Truncated /\ Len(Items("items")) = Limit(ask.limit, MaxResources)
                /\ \E v \in seen[<<"items", "">>] : Len(v) > Len(Items("items"))
      BY <2>1, <2>2, <2>3, <2>4, CutLists DEF Truncated
    <2>. HIDE DEF Fits, Whole
    <2>6. Fits("items", MaxResources)
      BY <1>3, <2>5
    <2>. QED  BY <2>5, <2>6
  <1>6. ASSUME Answered("list_events")
        PROVE  /\ Len(Sorted) <= DefaultListLimit
               /\ Len(Sorted) < DefaultListLimit => Whole("events")
               /\ Sorted # << >> => \A t \in Range(Items("events")) : t <= Last(Sorted)
    <2>1. phase = "answered" /\ ask.tool = "list_events"
      BY <1>6 DEF Answered
    <2>2. LimitOf(ask, "events") = DefaultListLimit /\ ~Extra(ask.tool, "events")
      BY <2>1 DEF LimitOf, Extra
    <2>3. 1 \in DOMAIN Handler(ask) /\ Handler(ask)[1].part = <<"events", "">>
      BY <2>1, OneListRead DEF Handler, HandleListEvents
    <2>4. DefaultListLimit \in Nat \ {0}
      BY LimitsAssumption
    <2>. DEFINE s == Items("events")
    <2>5. Sorted = Ascending(s)
      BY <2>1 DEF Sorted
    <2>6. /\ s \in seen[<<"events", "">>] \/ Len(s) = DefaultListLimit
          /\ Len(s) <= DefaultListLimit /\ s \in Seq(Int)
      BY <2>1, <2>2, <2>3, <2>4, CutLists
    <2>7. s \in Seq(Range(s)) /\ Range(s) \subseteq Int
      BY <2>6, RangeOfInts
    <2>8. Len(Sorted) = Len(s) /\ (s # << >> => \A t \in Range(s) : t <= Last(Sorted))
      BY <2>5, <2>7, AscendingEnds
    <2>9. Len(s) < DefaultListLimit => Len(s) # DefaultListLimit
      BY <2>4
    <2>10. s = << >> => Range(s) = {}
      BY DEF Range
    <2>. HIDE DEF s
    <2>. QED  BY <2>6, <2>8, <2>9, <2>10 DEF s
  <1>7. ASSUME Answered("get_pod"), <<"events", "">> \notin dropped,
               Len(Items("events")) < ObjectEvents
        PROVE  Whole("events")
    <2>1. phase = "answered" /\ ask.tool = "get_pod"
      BY <1>7 DEF Answered
    <2>2. LimitOf(ask, "events") = ObjectEvents
      BY <2>1 DEF LimitOf
    <2>3. 2 \in DOMAIN Handler(ask) /\ Handler(ask)[2].part = <<"events", "">>
      <3>1. Handler(ask) = << Get("pod"), Try("events", ObjectEvents) >>
        BY <2>1 DEF Handler, HandleGetPod, PodEvents
      <3>2. 2 \in DOMAIN Handler(ask) /\ Handler(ask)[2] = Try("events", ObjectEvents)
        BY <3>1
      <3>. QED  BY <3>2, GetListTry
    <2>4. ObjectEvents \in Nat \ {0}
      BY LimitsAssumption
    <2>5. /\ Whole("events") \/ Len(Items("events")) = ObjectEvents
          /\ Len(Items("events")) \in Nat
      BY <1>7, <2>1, <2>2, <2>3, <2>4, CutLists
    <2>. DEFINE n == Len(Items("events"))
    <2>6. n \in Nat /\ n < ObjectEvents
      BY <1>7, <2>5
    <2>. HIDE DEF n, Whole
    <2>7. n # ObjectEvents
      BY <2>4, <2>6
    <2>. QED  BY <2>5, <2>7 DEF n
  <1>. QED  BY <1>4, <1>5, <1>6, <1>7 DEF ShortListsAreWhole

(* The end of the end of a sequence.                                         *)
LEMMA EndOfEnd ==
    ASSUME NEW S, NEW v \in Seq(S), NEW k \in 0..Len(v), NEW m \in k..Len(v)
    PROVE  LET e == SubSeq(v, k + 1, Len(v))
           IN  SubSeq(e, (m - k) + 1, Len(e)) = SubSeq(v, m + 1, Len(v))
  <1>. DEFINE n == Len(v)
              e == SubSeq(v, k + 1, n)
              x == SubSeq(e, (m - k) + 1, Len(e))
              y == SubSeq(v, m + 1, n)
  <1>1. n \in Nat /\ k \in Nat /\ m \in Nat /\ k <= m /\ m <= n
    OBVIOUS
  <1>2. e \in Seq(S) /\ Len(e) = n - k /\ \A i \in 1..(n - k) : e[i] = v[k + i]
    BY EndIsSuffix
  <1>3. m \in 0..n /\ (m - k) \in 0..(n - k)
    BY <1>1
  <1>4. y \in Seq(S) /\ Len(y) = n - m /\ \A i \in 1..(n - m) : y[i] = v[m + i]
    BY <1>3, EndIsSuffix
  <1>. HIDE DEF e, n
  <1>5. /\ x \in Seq(S) /\ Len(x) = (n - k) - (m - k)
        /\ \A i \in 1..((n - k) - (m - k)) : x[i] = e[(m - k) + i]
    <2>. DEFINE p == m - k
    <2>1. p \in 0..Len(e)
      BY <1>2, <1>3
    <2>. HIDE DEF p
    <2>2. /\ SubSeq(e, p + 1, Len(e)) \in Seq(S)
          /\ Len(SubSeq(e, p + 1, Len(e))) = Len(e) - p
          /\ \A i \in 1..(Len(e) - p) : SubSeq(e, p + 1, Len(e))[i] = e[p + i]
      BY <1>2, <2>1, EndIsSuffix
    <2>. QED  BY <1>2, <2>2 DEF p
  <1>6. /\ (n - k) - (m - k) = n - m
        /\ \A i \in 1..(n - m) : (m - k) + i \in 1..(n - k) /\ k + ((m - k) + i) = m + i
    BY <1>1
  <1>. HIDE DEF x, y
  <1>7. Len(x) = Len(y) /\ \A i \in 1..Len(x) : x[i] = y[i]
    <2>1. Len(x) = n - m /\ Len(y) = n - m
      BY <1>4, <1>5, <1>6
    <2>2. ASSUME NEW i \in 1..(n - m) PROVE x[i] = y[i]
      <3>1. x[i] = e[(m - k) + i] /\ y[i] = v[m + i]
        BY <1>4, <1>5, <1>6
      <3>2. e[(m - k) + i] = v[k + ((m - k) + i)]
        BY <1>2, <1>6
      <3>3. k + ((m - k) + i) = m + i
        BY <1>6
      <3>. QED  BY <3>1, <3>2, <3>3
    <2>. QED  BY <2>1, <2>2
  <1>8. x = y
    BY <1>4, <1>5, <1>7, SeqEqual
  <1>. QED  BY <1>8 DEF x, y, e, n

(* What pod_logs answers of a log v.                                         *)
LogEnd(v, lines) ==
    LET raw == Serve("log", lines, v).items
    IN  IF Len(raw) > MaxLogBytes THEN SubSeq(raw, Len(raw) - MaxLogBytes + 1, Len(raw)) ELSE raw

(* The lines that are left out come before the ones that are asked for.      *)
LEMMA OlderFirst ==
    ASSUME NEW v, Holding("log", v), NEW lines \in Nat, NEW i \in DOMAIN v,
           v[i] > Last(v) - lines
    PROVE  Cardinality(Older(v, lines)) < i
  <1>1. v \in Seq(Range(v)) /\ \A a, b \in DOMAIN v : v[a] \in Nat /\ (a < b => v[a] <= v[b])
    BY DEF Holding
  <1>2. Len(v) \in Nat /\ DOMAIN v = 1..Len(v) /\ i \in 1..Len(v) /\ Last(v) = v[Len(v)]
    BY <1>1 DEF Last
  <1>3. Len(v) \in DOMAIN v
    BY <1>2
  <1>4. Last(v) \in Nat
    BY <1>1, <1>2, <1>3
  <1>5. ASSUME NEW j \in Older(v, lines) PROVE j \in 1..(i - 1)
    <2>1. j \in DOMAIN v /\ v[j] <= Last(v) - lines
      BY DEF Older
    <2>2. v[i] \in Nat /\ v[j] \in Nat
      BY <1>1, <2>1
    <2>3. ~(i < j) /\ i # j
      <3>1. v[j] < v[i]
        BY <1>4, <2>1, <2>2
      <3>. QED  BY <1>1, <2>1, <2>2, <3>1
    <2>. QED  BY <1>2, <2>1, <2>3
  <1>6. Older(v, lines) \in SUBSET (1..(i - 1)) /\ i - 1 \in Nat
    BY <1>2, <1>5
  <1>7. Cardinality(Older(v, lines)) <= i - 1 /\ Cardinality(Older(v, lines)) \in Nat
    BY <1>6, UpTo
  <1>. QED  BY <1>2, <1>7

(* The answer of pod_logs ends the log, has the lines asked for unless it is *)
(* as large as it may be, and is empty only for a reason.                    *)
LEMMA EndOfLog ==
    ASSUME NEW v, Holding("log", v), NEW lines \in Nat
    PROVE  LET text == LogEnd(v, lines)
           IN  /\ IsSuffix(text, v)
               /\ Len(text) <= MaxLogBytes
               /\ Len(text) < MaxLogBytes => \A i \in DOMAIN v :
                     v[i] > Last(v) - lines => i > Len(v) - Len(text)
               /\ text = << >> => v = << >> \/ lines = 0
  <1>. DEFINE text == LogEnd(v, lines)
              older == Older(v, lines)
              k == Cardinality(older)
              n == Len(v)
              m == IF n - k > MaxLogBytes THEN n - MaxLogBytes ELSE k
              raw == SubSeq(v, k + 1, n)
  <1>1. v \in Seq(Range(v)) /\ n \in Nat /\ MaxLogBytes \in Nat /\ MaxLogBytes # 0
    BY LimitsAssumption DEF Holding
  <1>2. k \in 0..n /\ IsFiniteSet(older) /\ Serve("log", lines, v).items = raw
    BY <1>1, ServedLog
  <1>3. k \in 0..Len(v)
    BY <1>2
  <1>. HIDE DEF k
  <1>4. Len(raw) = n - k
    BY <1>1, <1>3, EndIsSuffix
  <1>5. m \in k..n /\ (n - k > MaxLogBytes => n - MaxLogBytes = m)
    <2>. HIDE DEF n
    <2>. QED  BY <1>1, <1>2
  <1>6. text = SubSeq(v, m + 1, n)
    <2>1. CASE n - k > MaxLogBytes
      <3>1. SubSeq(raw, (m - k) + 1, Len(raw)) = SubSeq(v, m + 1, n)
        BY <1>1, <1>3, <1>5, EndOfEnd
      <3>2. Len(raw) - MaxLogBytes + 1 = (m - k) + 1
        <4>. HIDE DEF raw, n
        <4>. QED  BY <1>1, <1>2, <1>4, <2>1
      <3>3. text = SubSeq(raw, Len(raw) - MaxLogBytes + 1, Len(raw))
        BY <1>2, <1>4, <2>1 DEF LogEnd
      <3>. QED  BY <3>1, <3>2, <3>3
    <2>2. CASE ~(n - k > MaxLogBytes)
      BY <1>2, <1>4, <2>2 DEF LogEnd
    <2>. QED  BY <2>1, <2>2
  <1>7. m \in 0..Len(v)
    <2>. HIDE DEF m
    <2>. QED  BY <1>2, <1>5
  <1>8. IsSuffix(text, v) /\ Len(text) = n - m
    <2>. HIDE DEF m
    <2>. QED  BY <1>1, <1>6, <1>7, EndIsSuffix
  <1>. HIDE DEF text, n, raw
  <1>9. Len(text) <= MaxLogBytes /\ (Len(text) < MaxLogBytes => n - Len(text) = k)
    BY <1>1, <1>2, <1>8
  <1>10. ASSUME Len(text) < MaxLogBytes, NEW i \in DOMAIN v, v[i] > Last(v) - lines
         PROVE  i > n - Len(text)
    <2>1. k < i
      BY <1>10, OlderFirst DEF k
    <2>. QED  BY <1>9, <1>10, <2>1
  <1>11. ASSUME text = << >>, v # << >> PROVE lines = 0
    <2>1. Len(text) = 0
      BY <1>11
    <2>2. k = n /\ n >= 1 /\ DOMAIN v = 1..n
      BY <1>1, <1>9, <1>11, <2>1 DEF n
    <2>3. older = 1..n
      <3>1. older \in SUBSET (1..n) /\ IsFiniteSet(1..n) /\ Cardinality(1..n) = n
        BY <1>1, <2>2, UpTo DEF Older
      <3>. QED  BY <2>2, <3>1, FS_Subset DEF k
    <2>4. n \in older
      BY <1>1, <2>2, <2>3
    <2>5. v[n] <= v[n] - lines /\ v[n] \in Nat
      BY <1>1, <2>2, <2>4 DEF Older, Last, Holding, n
    <2>. QED  BY <2>5
  <1>. QED  BY <1>8, <1>9, <1>10, <1>11 DEF text, n

(* The lines that are asked for, if no less than none.                       *)
LEMMA TailLines ==
    ASSUME Inv
    PROVE  LET lines == IF ask.limit > MaxTail THEN MaxTail ELSE ask.limit
           IN  lines >= 0 => lines \in Nat
  <1>1. ask.limit \in Int
    BY DEF Inv, ReadInv, PlanInv
  <1>2. MaxTail \in Nat
    BY LimitsAssumption
  <1>. QED  BY <1>1, <1>2

(* A log is cut at its beginning only.                                       *)
LEMMA InvLogs ==
    ASSUME Inv
    PROVE  LogsKeepTheEnd
  <1>. DEFINE lines == IF ask.limit > MaxTail THEN MaxTail ELSE ask.limit
  <1>. SUFFICES ASSUME Answered("pod_logs")
                PROVE  \E v \in seen[<<"log", "">>] :
                          /\ IsSuffix(LogText, v)
                          /\ Len(LogText) <= MaxLogBytes
                          /\ Len(LogText) < MaxLogBytes => \A i \in DOMAIN v :
                                v[i] > Last(v) - lines => i > Len(v) - Len(LogText)
                          /\ LogText = << >> => v = << >> \/ lines = 0
    BY DEF LogsKeepTheEnd
  <1>1. phase = "answered" /\ ask.tool = "pod_logs"
    BY DEF Answered
  <1>2. LimitOf(ask, "log") = lines /\ ~Extra(ask.tool, "log")
    BY <1>1 DEF LimitOf, Extra
  <1>3. 1 \in DOMAIN Handler(ask) /\ Handler(ask)[1].part = <<"log", "">>
    BY <1>1, OneListRead DEF Handler, HandlePodLogs
  <1>4. PICK v \in seen[<<"log", "">>] :
            Holding("log", v) /\ got[<<"log", "">>] = Serve("log", lines, v)
    BY <1>1, <1>2, <1>3, AnswerHas
  <1>5. LogText = LogEnd(v, lines)
    BY <1>4 DEF LogText, LogEnd, Items
  <1>6. lines \in Nat
    <2>1. <<"log", "">> \in DOMAIN got \ dropped /\ <<"log", "">>[1] = "log"
      BY <1>1, <1>2, <1>3, AnswerHas, PartNames
    <2>2. lines >= 0
      BY <1>2, <2>1 DEF Inv, ReadInv, GotInv
    <2>. QED  BY <2>2, TailLines
  <1>. QED  BY <1>4, <1>5, <1>6, EndOfLog

(* No answer that is cut reads like a whole one.                             *)
LEMMA InvCuts ==
    ASSUME Inv
    PROVE  ShortAnswersAreWhole
  BY InvLists, InvLogs DEF ShortAnswersAreWhole

--------------------------------------------------------------------------------
(* What a policy report shows.                                               *)

(* What comes before a result in a report: the worse ones and, of those that *)
(* are as bad, the earlier ones.                                             *)
Worse(v, i, j) == Rank(v[i]) < Rank(v[j])
Before(v) == [j \in Reported(v) |->
    { i \in Reported(v) : Worse(v, i, j) \/ (~Worse(v, j, i) /\ i < j) }]

LEMMA ReportOrder ==
    ASSUME NEW v, v \in Seq(Range(v))
    PROVE  IsOrder(Reported(v), Before(v))
  <1>. DEFINE D == Reported(v)
              R(i) == Rank(v[i])
              B(j) == { i \in D : R(i) < R(j) \/ (~(R(j) < R(i)) /\ i < j) }
  <1>1. D \subseteq 1..Len(v) /\ Len(v) \in Nat
    BY DEF Reported
  <1>2. IsFiniteSet(D) /\ \A i \in D : i \in Nat
    BY <1>1, UpTo
  <1>3. \A i : R(i) \in Nat
    BY DEF Rank
  <1>4. DOMAIN Before(v) = D /\ \A j \in D : Before(v)[j] = B(j)
    BY DEF Before, Worse
  <1>. HIDE DEF D, R
  <1>5. \A i \in D : i \notin B(i)
    BY <1>2, <1>3
  <1>6. \A i, j \in D : i # j => i \in B(j) \/ j \in B(i)
    BY <1>2, <1>3
  <1>7. \A i, j \in D : j \in B(i) => B(j) \subseteq B(i)
    BY <1>2, <1>3
  <1>8. \A i \in D : B(i) \subseteq D
    OBVIOUS
  <1>. HIDE DEF B
  <1>9. IsOrder(D, Before(v))
    BY <1>2, <1>4, <1>5, <1>6, <1>7, <1>8 DEF IsOrder
  <1>. QED  BY <1>9 DEF D

(* The results of one kind that are shown are those in the first places.     *)
Kept(v, max) ==
    IF Cardinality(Reported(v)) > max THEN max ELSE Cardinality(Reported(v))
InFront(v, max, r) ==
    { i \in Reported(v) : v[i] = r /\ Cardinality(Before(v)[i]) < Kept(v, max) }

LEMMA ShownCount ==
    ASSUME NEW v, v \in Seq(Range(v)), NEW max \in Nat, NEW r
    PROVE  Count(ShownResults(v, max), r) = Cardinality(InFront(v, max, r))
  <1>. DEFINE all == Reported(v)
              n == Cardinality(all)
              m == IF n > max THEN max ELSE n
              Place(i) == Cardinality(Before(v)[i])
              o == Ordered(v, Before(v))
              shown == ShownResults(v, max)
              S == { i \in all : v[i] = r /\ Place(i) < m }
              T == { k \in DOMAIN shown : shown[k] = r }
              f == [i \in S |-> Place(i) + 1]
  <1>1. IsOrder(all, Before(v)) /\ \A i \in all : v[i] \in Range(v)
    BY ReportOrder DEF Reported, Range
  <1>2. /\ n \in Nat /\ \A i \in all : Place(i) \in 0..(n - 1)
        /\ \A i, j \in all : Place(i) = Place(j) => i = j
        /\ \A k \in 1..n : \E i \in all : Place(i) = k - 1
    BY <1>1, Places
  <1>3. /\ o \in Seq(Range(v)) /\ Len(o) = n
        /\ \A i \in all : o[Place(i) + 1] = v[i]
    BY <1>1, OrderedValues
  <1>4. shown = SubSeq(o, 1, m)
    BY Zenon DEF ShownResults, Before, Worse
  <1>. HIDE DEF n, all, Place, o
  <1>5. m \in Nat /\ m <= n /\ m \in 0..n
    BY <1>2
  <1>. HIDE DEF m, shown
  <1>6. DOMAIN shown = 1..m /\ \A k \in 1..m : shown[k] = o[k]
    <2>1. \A k \in 1..m : o[k] \in Range(v)
      <3>1. \A k \in 1..m : k \in 1..Len(o)
        BY <1>3, <1>5
      <3>. QED  BY <1>3, <3>1, ElementOfSeq
    <2>2. /\ shown \in Seq(Range(v)) /\ Len(shown) = IF 1 <= m THEN m - 1 + 1 ELSE 0
          /\ \A k \in 1..(m - 1 + 1) : shown[k] = o[1 + k - 1]
      BY <1>4, <1>5, <2>1, SubSeqProperties
    <2>3. Len(shown) = m /\ \A k \in 1..m : k \in 1..(m - 1 + 1) /\ 1 + k - 1 = k
      BY <1>5, <2>2
    <2>4. DOMAIN shown = 1..Len(shown)
      BY <2>2
    <2>. QED  BY <2>2, <2>3, <2>4
  <1>7. ASSUME NEW i \in S
        PROVE  f[i] \in T
    <2>1. i \in all /\ v[i] = r /\ Place(i) < m /\ Place(i) \in 0..(n - 1)
      BY <1>2
    <2>2. Place(i) + 1 \in 1..m
      BY <1>2, <1>5, <2>1
    <2>. QED  BY <1>3, <1>6, <2>1, <2>2
  <1>8. ASSUME NEW i \in S, NEW j \in S, f[i] = f[j]
        PROVE  i = j
    <2>1. i \in all /\ j \in all /\ Place(i) \in Nat /\ Place(j) \in Nat
      BY <1>2
    <2>2. Place(i) = Place(j)
      BY <1>8, <2>1
    <2>. QED  BY <1>2, <2>1, <2>2
  <1>9. ASSUME NEW k \in T
        PROVE  \E i \in S : f[i] = k
    <2>1. k \in 1..m /\ k \in 1..n /\ shown[k] = r
      BY <1>2, <1>5, <1>6
    <2>2. PICK i \in all : Place(i) = k - 1
      BY <1>2, <2>1
    <2>3. Place(i) + 1 = k /\ Place(i) < m
      BY <1>5, <2>1, <2>2
    <2>4. o[k] = v[i]
      BY <1>3, <2>3
    <2>5. v[i] = r
      BY <1>6, <2>1, <2>4
    <2>6. i \in S /\ f[i] = k
      BY <2>3, <2>5
    <2>. QED  BY <2>6
  <1>10. f \in Bijection(S, T)
    <2>. DEFINE g == f
    <2>1. f \in [S -> T]
      BY <1>7
    <2>. HIDE DEF f, S, T
    <2>. QED  BY <1>8, <1>9, <2>1 DEF Bijection, Injection, Surjection, IsInjective
  <1>11. IsFiniteSet(S)
    BY <1>1, FS_Subset DEF IsOrder
  <1>12. Cardinality(T) = Cardinality(S)
    <2>. HIDE DEF S, T
    <2>1. ExistsBijection(S, T)
      BY <1>10 DEF ExistsBijection
    <2>. QED  BY <1>11, <2>1, FS_Bijection
  <1>. QED  BY <1>12 DEF Count, InFront, Kept, n, all, Place, shown, m

(* A report shows the worst first, and all if it is not cut.                 *)
LEMMA ReportShows ==
    ASSUME NEW v, v \in Seq(Range(v)), NEW max \in Nat,
           NEW r, r \in {"fail", "error", "warn"}
    PROVE  LET Shown(x) == Count(ShownResults(v, max), x)
           IN  /\ \A x : /\ x \in {"fail", "error", "warn"} /\ Rank(r) < Rank(x)
                         /\ Shown(x) > 0
                         => Shown(r) = Count(v, r)
               /\ ~(Cardinality(Reported(v)) > max) => Shown(r) = Count(v, r)
  <1>. DEFINE all == Reported(v)
              n == Cardinality(all)
              m == IF n > max THEN max ELSE n
              Place(i) == Cardinality(Before(v)[i])
              Shown(x) == Count(ShownResults(v, max), x)
              First(x) == { i \in all : v[i] = x /\ Place(i) < m }
              Each == { i \in all : v[i] = r }
  <1>1. n \in Nat /\ \A x : Shown(x) = Cardinality(First(x))
    <2>1. n \in Nat
      BY ReportOrder, Places
    <2>2. \A x : Shown(x) = Cardinality(InFront(v, max, x))
      BY ShownCount
    <2>. QED  BY <2>1, <2>2 DEF InFront, Kept
  <1>2. IsOrder(all, Before(v))
    BY ReportOrder
  <1>3. /\ \A i \in all : Place(i) \in 0..(n - 1)
        /\ \A i, j \in all : j \in Before(v)[i] => Place(j) < Place(i)
    BY <1>2, Places
  <1>4. Count(v, r) = Cardinality(Each)
    <2>1. Each = { i \in DOMAIN v : v[i] = r }
      BY DEF Reported
    <2>. QED  BY <2>1 DEF Count
  <1>5. \A i, j \in all : Rank(v[i]) < Rank(v[j]) => i \in Before(v)[j]
    BY DEF Before, Worse
  <1>. HIDE DEF Place, Shown
  <1>6. ASSUME NEW x, Rank(r) < Rank(x), Shown(x) > 0
        PROVE  Shown(r) = Count(v, r)
    <2>1. First(x) # {}
      <3>1. First(x) = {} => Shown(x) = 0
        BY <1>1, FS_EmptySet, Zenon
      <3>. QED  BY <1>6, <3>1
    <2>2. PICK j \in all : v[j] = x /\ Place(j) < m
      BY <2>1
    <2>3. m \in Nat
      <3>. HIDE DEF n
      <3>. QED  BY <1>1
    <2>. HIDE DEF m, all, n
    <2>4. ASSUME NEW i \in Each PROVE Place(i) < m
      <3>1. i \in all /\ v[i] = r
        BY <2>4
      <3>2. i \in Before(v)[j]
        BY <1>5, <1>6, <2>2, <3>1
      <3>3. Place(i) < Place(j) /\ Place(i) \in 0..(n - 1) /\ Place(j) \in 0..(n - 1)
        BY <1>3, <2>2, <3>1, <3>2
      <3>. QED  BY <1>1, <2>2, <2>3, <3>3
    <2>5. First(r) = Each
      BY <2>4
    <2>. QED  BY <1>1, <1>4, <2>5
  <1>7. ASSUME ~(n > max)
        PROVE  Shown(r) = Count(v, r)
    <2>1. m = n
      BY <1>7
    <2>. HIDE DEF m, n
    <2>2. \A i \in all : Place(i) < m
      BY <1>1, <1>3, <2>1
    <2>3. First(r) = Each
      BY <2>2
    <2>. QED  BY <1>1, <1>4, <2>3
  <1>. QED  BY <1>6, <1>7 DEF Shown

(* A report is read whole, and shows the worst first.                        *)
LEMMA InvWorstFirst ==
    ASSUME Inv
    PROVE  WorstFirst
  <1>. DEFINE v == Items("reports")
              Shown(r) == Count(Report.results, r)
              Total(r) == IF r \in DOMAIN Report.totals THEN Report.totals[r] ELSE 0
              severity == <<"fail", "error", "warn">>
  <1>. SUFFICES ASSUME Answered("get_policy_report")
                PROVE  /\ \E w \in seen[<<"reports", "">>] : \A r \in Range(w) : Total(r) = Count(w, r)
                       /\ \A i, j \in 1..3 : i < j /\ Shown(severity[j]) > 0 =>
                             Shown(severity[i]) = Total(severity[i])
                       /\ ~Report.truncated => \A i \in 1..3 : Shown(severity[i]) = Total(severity[i])
    BY DEF WorstFirst
  <1>1. phase = "answered" /\ ask.tool = "get_policy_report"
    BY DEF Answered
  <1>2. LimitOf(ask, "reports") = 0 /\ ~Extra(ask.tool, "reports")
    BY <1>1 DEF LimitOf, Extra
  <1>3. 1 \in DOMAIN Handler(ask) /\ Handler(ask)[1].part = <<"reports", "">>
    BY <1>1, OneListRead DEF Handler, HandleGetPolicyReport
  <1>4. <<"reports", "">> \notin dropped
    BY <1>1, <1>2, <1>3, AnswerHas
  <1>5. v \in seen[<<"reports", "">>] /\ v \in Seq(Range(v))
    BY <1>1, <1>2, <1>3, <1>4, AnswerHasAll DEF Holding
  <1>6. /\ Report.results = ShownResults(v, MaxReportResults)
        /\ Report.truncated = (Cardinality(Reported(v)) > MaxReportResults)
        /\ Report.totals = [r \in Range(v) |-> Count(v, r)]
    BY DEF Report, PolicyReport
  <1>. HIDE DEF v
  <1>7. \A r : Total(r) = Count(v, r)
    <2>. TAKE r
    <2>1. CASE r \in Range(v)
      BY <1>6, <2>1
    <2>2. CASE r \notin Range(v)
      <3>1. { i \in DOMAIN v : v[i] = r } = {}
        BY <2>2 DEF Range
      <3>2. Count(v, r) = 0
        BY <3>1, FS_EmptySet DEF Count
      <3>3. Total(r) = 0
        BY <1>6, <2>2
      <3>. QED  BY <3>2, <3>3
    <2>. QED  BY <2>1, <2>2
  <1>8. MaxReportResults \in Nat
    BY LimitsAssumption
  <1>9. \A i \in 1..3 : severity[i] \in {"fail", "error", "warn"} /\ Rank(severity[i]) = i - 1
    <2>1. /\ severity[1] = "fail" /\ severity[2] = "error" /\ severity[3] = "warn"
      OBVIOUS
    <2>2. Rank("fail") = 0 /\ Rank("error") = 1 /\ Rank("warn") = 2
      BY DEF Rank
    <2>. HIDE DEF severity
    <2>. QED  BY <2>1, <2>2
  <1>10. \A r \in {"fail", "error", "warn"} :
            /\ \A x \in {"fail", "error", "warn"} :
                  Rank(r) < Rank(x) /\ Shown(x) > 0 => Shown(r) = Count(v, r)
            /\ ~Report.truncated => Shown(r) = Count(v, r)
    BY <1>5, <1>6, <1>8, ReportShows
  <1>. HIDE DEF Shown, Total, severity
  <1>11. ASSUME NEW i \in 1..3, NEW j \in 1..3, i < j, Shown(severity[j]) > 0
         PROVE  Shown(severity[i]) = Total(severity[i])
    <2>1. Rank(severity[i]) < Rank(severity[j])
      BY <1>9, <1>11
    <2>. QED  BY <1>7, <1>9, <1>10, <1>11, <2>1
  <1>12. ~Report.truncated => \A i \in 1..3 : Shown(severity[i]) = Total(severity[i])
    BY <1>7, <1>9, <1>10
  <1>13. \A r \in Range(v) : Total(r) = Count(v, r)
    BY <1>7
  <1>. QED  BY <1>5, <1>11, <1>12, <1>13

--------------------------------------------------------------------------------
(* The theorems: for every cluster, every change of it during the call and   *)
(* every failure of a read.                                                  *)

(* However the cluster changes and reads fail, an answer was made from every *)
(* part it needs and lacks only extras; a list that is not cut has what was  *)
(* there all through the call; and a service has the endpoints of its own    *)
(* slices, unless their read failed.  The state has its types.               *)
THEOREM AnswersAreComplete == Spec => []AnswerInv
  BY InvHolds, InvAnswer, PTL

(* No list is longer than its limit, one that is shorter is whole, what      *)
(* list_resource says of its cut is so, and a cut log has lost its beginning *)
(* only.  A cut list of exactly the limit reads like a whole one.            *)
THEOREM ShortIsWhole == Spec => []ShortAnswersAreWhole
  BY InvHolds, InvCuts, PTL

(* get_policy_report leaves out no result while it shows a less severe one,  *)
(* and its totals count what it leaves out.                                  *)
THEOREM ReportsShowTheWorst == Spec => []WorstFirst
  BY InvHolds, InvWorstFirst, PTL

(* Of an object of any shape, get_resource hides the credentials and nothing *)
(* else, in whatever order its maps are walked.                              *)
THEOREM CredentialsAreMasked == Spec => []MaskedExactly
  BY InvHolds, InvMasks, PTL

(* For any policies with any match and exclude blocks and any kind asked     *)
(* about, however the cluster changes between the reads and whichever of     *)
(* them fail: a rule that some object of the kind comes under is in the      *)
(* answer of list_policies, or the code hides it in one of the four ways     *)
(* that MissingRulesHaveAReason names.                                       *)
THEOREM MissingRulesAreExplained == Spec => []MissingRulesHaveAReason
  BY InvHolds, InvMissingRules, PTL

(* A decidable rule that list_policies shows without only_if holds for every *)
(* object of the kind asked about.                                           *)
THEOREM OnlyIfIsComplete == Spec => []UnconditionalRulesApply
  BY InvHolds, InvOnlyIf, PTL

(* A rule from which a readable exception frees some object of the kind all  *)
(* through the call is marked as exempted.                                   *)
THEOREM ExceptionsAreMarked == Spec => []ExemptionsAreMarked
  BY InvHolds, InvExemptions, PTL

================================================================================
