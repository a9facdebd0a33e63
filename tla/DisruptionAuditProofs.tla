-------------------------- MODULE DisruptionAuditProofs --------------------------
(***************************************************************************)
(* Facts about every report of the disruption audit.  Budgets, for any      *)
(* objects and any number of changes of the cluster while the audit runs:   *)
(* no list failed on the way to the report, the overlaps it names are       *)
(* mutual, and if the cluster stood still it is exact.  Data services, for  *)
(* any lists in any order and any keywords: replicas are counted once, no   *)
(* service is missing, and leaders give the budgets of their cluster.       *)
(***************************************************************************)
EXTENDS DisruptionAudit, DataServices, FiniteSetTheorems, WellFoundedInduction,
        TLAPS

(* Where a failure can be seen before g.Wait turns it into an error: in the  *)
(* group that is running.  Past both groups there was none.                  *)
FailureInv ==
    /\ step \in {"idle", "first", "second", "join", "done", "error"}
    /\ task \in [Lists -> {"todo", "ok", "failed"}]
    /\ anyFailed \in BOOLEAN
    /\ step = "first" /\ anyFailed => \E l \in FirstLists : task[l] = "failed"
    /\ step = "second" /\ anyFailed => \E l \in SecondLists : task[l] = "failed"
    /\ step \in {"idle", "join", "done"} => ~anyFailed

(* p and a PDB named n are told of each other by m.                          *)
MutualIn(listed, m, p, n) ==
    \E q \in listed : q.ns = p.ns /\ q.name = n /\ q # p /\ p.name \in m[q]

(* The overlaps recorded by scanPods are mutual among the listed PDBs, which *)
(* are those of PDBObjects and do not change after step 1.                   *)
OverlapInv ==
    /\ seenPDBs \subseteq PDBObjects
    /\ pdbs \subseteq PDBObjects
    /\ \A p \in PDBObjects : \A n \in overlaps[p] : MutualIn(seenPDBs, overlaps, p, n)
    /\ step \in {"idle", "first"} => overlaps = [p \in PDBObjects |-> {}]
    /\ step # "done" => report = {}

(* The invariant starts with an idle audit.                                  *)
LEMMA InitFailure == Init => FailureInv
  BY DEF Init, FailureInv

(* A failure stays visible until g.Wait ends the audit with it.              *)
LEMMA NextFailure == FailureInv /\ [Next]_vars => FailureInv'
<1> SUFFICES ASSUME FailureInv, [Next]_vars PROVE FailureInv'
  OBVIOUS
<1>1. CASE Begin
  BY <1>1 DEF Begin, FailureInv
<1>2. ASSUME NEW l \in Lists, Listed(l) PROVE FailureInv'
  <2>1. UNCHANGED <<step, anyFailed>>
    BY <1>2 DEF Listed
  <2>2. task[l] = "todo" /\ task' = [task EXCEPT ![l] = "ok"]
    BY <1>2 DEF Listed, Running
  <2>3. \A k \in Lists : task[k] = "failed" => task'[k] = "failed"
    BY <2>2 DEF FailureInv
  <2> QED
    BY <2>1, <2>2, <2>3 DEF FailureInv, Lists
<1>3. ASSUME NEW l \in Lists, ListFails(l) PROVE FailureInv'
  <2>1. /\ step = IF l \in FirstLists THEN "first" ELSE "second"
        /\ task' = [task EXCEPT ![l] = "failed"]
        /\ anyFailed' /\ step' = step
        /\ anyFailed' \in BOOLEAN
    BY <1>3 DEF ListFails, Running
  <2>2. task'[l] = "failed"
    BY <2>1 DEF FailureInv
  <2> QED
    BY <2>1, <2>2 DEF FailureInv, Lists, FirstLists, SecondLists
<1>4. CASE Wait
  BY <1>4 DEF Wait, After, FailureInv
<1>5. CASE Join
  BY <1>5 DEF Join, FailureInv
<1>6. CASE Return
  BY <1>6 DEF Return, FailureInv
<1>7. CASE Change
  BY <1>7 DEF Change, FailureInv
<1>8. CASE UNCHANGED vars
  BY <1>8 DEF vars, FailureInv
<1>9. CASE listPDBs
  BY <1>9, <1>2 DEF listPDBs, Lists, FirstLists
<1>10. CASE listAuditWorkloads
  BY <1>10, <1>2 DEF listAuditWorkloads, Lists, FirstLists
<1>11. CASE listTheRest
  BY <1>11, <1>2 DEF listTheRest, Lists, FirstLists
<1>12. CASE listReplicaSetDeployments
  BY <1>12, <1>2 DEF listReplicaSetDeployments, Lists, SecondLists
<1>13. CASE scanPods
  BY <1>13, <1>2 DEF scanPods, Lists, SecondLists
<1> QED
  BY <1>1, <1>3, <1>4, <1>5, <1>6, <1>7, <1>8, <1>9, <1>10, <1>11, <1>12, <1>13
     DEF Next, handleDisruptionAudit, List

(* "Any other list error ... fails the call": no report follows a failure.   *)
THEOREM ReportsAreWhole == Spec => []NoPartialReport
<1>1. FailureInv => NoPartialReport
  BY DEF FailureInv, NoPartialReport
<1> QED
  BY <1>1, InitFailure, NextFailure, PTL DEF Spec

--------------------------------------------------------------------------------
(* What scanPods records of one PDB names another that records it in turn:   *)
(* both are in the matched list of the same pod.                             *)
LEMMA ScanIsMutual ==
    ASSUME OverlapInv, scanPods,
           NEW p \in PDBObjects, NEW n \in overlaps'[p]
    PROVE  MutualIn(seenPDBs, overlaps', p, n)
<1> DEFINE guarded(x) == {pod \in pods : ~Finished(pod) /\ x \in Matched(pod)}
<1>1. overlaps' = [x \in PDBObjects |->
                      UNION {Overlapping(x, pod) : pod \in guarded(x)}]
  BY DEF scanPods
<1>2. PICK pod \in guarded(p) : n \in Overlapping(p, pod)
  BY <1>1
<1>3. Evictable(pod) /\ n \in {q.name : q \in Matched(pod) \ {p}}
  BY <1>2 DEF Overlapping
<1>4. PICK q \in Matched(pod) \ {p} : q.name = n
  BY <1>3
<1>5. q \in seenPDBs /\ q.ns = p.ns /\ q \in PDBObjects
  BY <1>2, <1>4 DEF Matched, InNamespace, OverlapInv
<1>6. pod \in guarded(q)
  BY <1>2, <1>4
<1>7. p \in Matched(pod) \ {q}
  BY <1>2, <1>4
<1>8. p.name \in Overlapping(q, pod)
  BY <1>3, <1>7 DEF Overlapping
<1>9. p.name \in overlaps'[q]
  BY <1>1, <1>5, <1>6, <1>8
<1> QED
  BY <1>4, <1>5, <1>9 DEF MutualIn

(* Nothing is recorded before the pods are scanned.                          *)
LEMMA InitOverlap == Init => OverlapInv
  BY DEF Init, OverlapInv

(* Only scanPods and Return write the overlaps, and only listPDBs, before    *)
(* there are any, the PDBs they refer to.                                    *)
LEMMA NextOverlap == OverlapInv /\ [Next]_vars => OverlapInv'
<1> SUFFICES ASSUME OverlapInv, [Next]_vars PROVE OverlapInv'
  OBVIOUS
<1>1. ASSUME UNCHANGED <<seenPDBs, overlaps, pdbs, report>>,
             step' \in {"idle", "first"} => step \in {"idle", "first"},
             step' # "done" => step # "done"
      PROVE  OverlapInv'
  BY <1>1 DEF OverlapInv, MutualIn
<1>2. CASE Begin
  BY <1>2, <1>1 DEF Begin
<1>3. CASE listPDBs
  <2>1. /\ step = "first" /\ seenPDBs' = pdbs
        /\ UNCHANGED <<step, pdbs, overlaps, report>>
    BY <1>3 DEF listPDBs, Listed, Running, FirstLists, cluster
  <2>2. \A p \in PDBObjects : overlaps'[p] = {}
    BY <2>1 DEF OverlapInv
  <2> QED
    BY <2>1, <2>2 DEF OverlapInv, MutualIn
<1>4. CASE listAuditWorkloads
  BY <1>4, <1>1 DEF listAuditWorkloads, Listed, cluster
<1>5. CASE listTheRest
  BY <1>5, <1>1 DEF listTheRest, Listed, cluster
<1>6. CASE listReplicaSetDeployments
  BY <1>6, <1>1 DEF listReplicaSetDeployments, Listed, cluster
<1>7. CASE scanPods
  <2>1. /\ UNCHANGED <<seenPDBs, pdbs, step, report>>
        /\ step = "second"
    BY <1>7 DEF scanPods, Listed, Running, FirstLists, cluster
  <2>2. \A p \in PDBObjects : \A n \in overlaps'[p] :
            MutualIn(seenPDBs, overlaps', p, n)
    BY <1>7, ScanIsMutual
  <2> QED
    BY <2>1, <2>2 DEF OverlapInv, MutualIn
<1>8. CASE \E l \in Lists : ListFails(l)
  BY <1>8, <1>1 DEF ListFails, cluster
<1>9. CASE Wait
  BY <1>9, <1>1 DEF Wait, After, cluster
<1>10. CASE Join
  BY <1>10 DEF Join, OverlapInv, MutualIn, cluster
<1>11. CASE Return
  <2>1. overlaps' = [p \in PDBObjects |-> {}] /\ report' = {} /\ seenPDBs' = {}
        /\ pdbs' = pdbs
    BY <1>11 DEF Return, cluster
  <2> QED
    BY <2>1 DEF OverlapInv
<1>12. CASE Change
  <2>1. UNCHANGED <<seenPDBs, overlaps, step, report>>
    BY <1>12 DEF Change
  <2>2. pdbs' \subseteq PDBObjects
    BY <1>12 DEF Change, Toggle, OverlapInv
  <2> QED
    BY <2>1, <2>2 DEF OverlapInv, MutualIn
<1>13. CASE UNCHANGED vars
  BY <1>13, <1>1 DEF vars, cluster
<1> QED
  BY <1>2, <1>3, <1>4, <1>5, <1>6, <1>7, <1>8, <1>9, <1>10, <1>11, <1>12, <1>13
     DEF Next, handleDisruptionAudit, List

(* The entries of a report are the listed PDBs with what scanPods recorded.  *)
ReportInv ==
    \A e \in report :
        e.pdb \in seenPDBs /\ e.overlapsWith = overlaps[e.pdb]
        /\ \A q \in seenPDBs : \E f \in report : f.pdb = q

(* A report is written once, by Join, and dropped before anything changes.   *)
LEMMA NextReport == OverlapInv /\ ReportInv /\ [Next]_vars => ReportInv'
<1> SUFFICES ASSUME OverlapInv, ReportInv, [Next]_vars PROVE ReportInv'
  OBVIOUS
<1>1. ASSUME UNCHANGED <<seenPDBs, overlaps, report>> PROVE ReportInv'
  BY <1>1 DEF ReportInv
<1>2. ASSUME report' = {} PROVE ReportInv'
  BY <1>2 DEF ReportInv
<1>3. CASE Begin
  BY <1>3, <1>1 DEF Begin
<1>4. CASE listPDBs
  BY <1>4, <1>2 DEF listPDBs, Listed, Running, FirstLists, OverlapInv
<1>5. CASE listAuditWorkloads
  BY <1>5, <1>1 DEF listAuditWorkloads, Listed
<1>6. CASE listTheRest
  BY <1>6, <1>1 DEF listTheRest, Listed
<1>7. CASE listReplicaSetDeployments
  BY <1>7, <1>1 DEF listReplicaSetDeployments, Listed
<1>8. CASE scanPods
  BY <1>8, <1>2 DEF scanPods, Listed, Running, FirstLists, OverlapInv
<1>9. CASE \E l \in Lists : ListFails(l)
  BY <1>9, <1>1 DEF ListFails
<1>10. CASE Wait
  BY <1>10, <1>1 DEF Wait
<1>11. CASE Join
  <2> DEFINE entry(p) == [pdb |-> p,
                          owners |-> {Resolve(p.ns, ref) : ref \in owners[p]},
                          overlapsWith |-> overlaps[p]]
  <2>1. /\ report' = {entry(p) : p \in seenPDBs}
        /\ UNCHANGED <<seenPDBs, overlaps>>
    BY <1>11 DEF Join
  <2>2. \A p \in seenPDBs : entry(p).pdb = p /\ entry(p).overlapsWith = overlaps[p]
    OBVIOUS
  <2> HIDE DEF entry
  <2> QED
    BY <2>1, <2>2 DEF ReportInv
<1>12. CASE Return
  BY <1>12, <1>2 DEF Return
<1>13. CASE Change
  BY <1>13, <1>1 DEF Change
<1>14. CASE UNCHANGED vars
  BY <1>14, <1>1 DEF vars
<1> QED
  BY <1>3, <1>4, <1>5, <1>6, <1>7, <1>8, <1>9, <1>10, <1>11, <1>12, <1>13, <1>14
     DEF Next, handleDisruptionAudit, List

(* Whatever changed between the lists, overlaps are reported on both sides.  *)
THEOREM OverlapsAreReportedTwice == Spec => []OverlapsAreMutual
<1>1. Init => ReportInv
  BY DEF Init, ReportInv
<1>2. ASSUME OverlapInv, ReportInv PROVE OverlapsAreMutual
  <2> SUFFICES ASSUME NEW e \in report, NEW n \in e.overlapsWith
               PROVE  \E f \in report :
                         /\ f.pdb.ns = e.pdb.ns /\ f.pdb.name = n /\ f # e
                         /\ e.pdb.name \in f.overlapsWith
    BY DEF OverlapsAreMutual
  <2>1. e.pdb \in PDBObjects /\ n \in overlaps[e.pdb]
    BY <1>2 DEF OverlapInv, ReportInv
  <2>2. PICK q \in seenPDBs : /\ q.ns = e.pdb.ns /\ q.name = n /\ q # e.pdb
                              /\ e.pdb.name \in overlaps[q]
    BY <1>2, <2>1 DEF OverlapInv, MutualIn
  <2>3. PICK f \in report : f.pdb = q
    BY <1>2, <2>2 DEF ReportInv
  <2> QED
    BY <1>2, <2>2, <2>3 DEF ReportInv
<1> QED
  BY <1>1, <1>2, InitOverlap, NextOverlap, NextReport, PTL DEF Spec

--------------------------------------------------------------------------------
(* Exactness.                                                                *)

(* Which lists have been read follows from where the audit is.               *)
ProgressInv ==
    /\ step = "idle" => \A l \in Lists : task[l] = "todo"
    /\ step = "first" => \A l \in SecondLists : task[l] = "todo"
    /\ step \in {"second", "join", "done"} => \A l \in FirstLists : task[l] = "ok"
    /\ step \in {"join", "done"} => \A l \in SecondLists : task[l] = "ok"

(* The pods that budget p counts.                                            *)
Guarded(p) == {pod \in pods : ~Finished(pod) /\ p \in Matched(pod)}

DeployedSets == {rs \in replicaSets : InNamespace(rs.ns) # {} /\ rs.deployment # NoName}

(* While the cluster stands still, what was read is what is there.           *)
SnapshotInv ==
    ~moved =>
        /\ task["pdbs"] = "ok" => seenPDBs = pdbs
        /\ task["workloads"] = "ok" => seenWorkloads = workloads
        /\ task["replicaSets"] = "ok" => rsDeployment = DeployedSets
        /\ task["pods"] = "ok" =>
              \A p \in PDBObjects :
                  /\ owners[p] = {Ref(pod) : pod \in Guarded(p)}
                  /\ overlaps[p] = UNION {Overlapping(p, pod) : pod \in Guarded(p)}

ExactInv ==
    /\ TypeOK
    /\ \A rs \in rsDeployment : rs.deployment # NoName
    /\ ProgressInv
    /\ SnapshotInv
    /\ QuietReportIsExact

(* The fields of a resolved reference.                                       *)
LEMMA ResolveFacts ==
    ASSUME NEW ns, NEW ref
    PROVE  LET rs == {r \in rsDeployment :
                         ref.kind = "ReplicaSet" /\ r.ns = ns /\ r.name = ref.name}
               o == Resolve(ns, ref)
           IN  /\ rs = {} => o.kind = ref.kind /\ o.name = ref.name
               /\ rs # {} => /\ o.kind = "Deployment"
                             /\ \E r \in rs : o.name = r.deployment
               /\ o.replicas <=>
                     \E w \in seenWorkloads : w.kind = o.kind /\ w.ns = ns /\ w.name = o.name
               /\ o.replicas \in BOOLEAN
               /\ o = [kind |-> o.kind, name |-> o.name, replicas |-> o.replicas,
                       apiVersion |-> ~o.replicas /\ ref.apiVersion]
<1> DEFINE rs == {r \in rsDeployment :
                     ref.kind = "ReplicaSet" /\ r.ns = ns /\ r.name = ref.name}
           kind == IF rs # {} THEN "Deployment" ELSE ref.kind
           name == IF rs # {} THEN (CHOOSE r \in rs : TRUE).deployment ELSE ref.name
           known == \E w \in seenWorkloads : w.kind = kind /\ w.ns = ns /\ w.name = name
<1>1. Resolve(ns, ref) = [kind |-> kind, name |-> name, replicas |-> known,
                          apiVersion |-> ~known /\ ref.apiVersion]
  BY DEF Resolve
<1>2. rs = {} => kind = ref.kind /\ name = ref.name
  OBVIOUS
<1>3. rs # {} => kind = "Deployment" /\ \E r \in rs : name = r.deployment
  OBVIOUS
<1>4. known \in BOOLEAN /\ (known <=>
        \E w \in seenWorkloads : w.kind = kind /\ w.ns = ns /\ w.name = name)
  OBVIOUS
<1> HIDE DEF rs, kind, name, known
<1>5. /\ Resolve(ns, ref).kind = kind /\ Resolve(ns, ref).name = name
      /\ Resolve(ns, ref).replicas = known
  BY <1>1
<1> QED
  BY <1>1, <1>2, <1>3, <1>4, <1>5 DEF rs

(* References and resolved references are of their types.                    *)
LEMMA RefType == ASSUME NEW pod \in PodObjects PROVE Ref(pod) \in OwnerRefs
<1>1. /\ pod.ctlKind \in ControllerKinds \cup {"none"} /\ pod.name \in Names
      /\ pod.ctlKind # "none" => pod.ctlName \in Names
  BY ObjectsAssumption DEF Pods
<1> QED
  BY <1>1 DEF Ref, OwnerRefs

LEMMA ResolveType ==
    ASSUME TypeOK, \A rs \in rsDeployment : rs.deployment # NoName,
           NEW ns, NEW ref \in OwnerRefs
    PROVE  Resolve(ns, ref) \in AuditOwners
<1> DEFINE o == Resolve(ns, ref)
<1>1. \A r \in rsDeployment : r.deployment \in Names
  BY ObjectsAssumption DEF TypeOK, ReplicaSets
<1>2. /\ ref.kind \in ControllerKinds \cup {"Pod"} /\ ref.name \in Names
      /\ ref.apiVersion \in BOOLEAN
  BY DEF OwnerRefs
<1>3. /\ o.kind \in ControllerKinds \cup WorkloadKinds \cup {"Pod"} /\ o.name \in Names
      /\ o.replicas \in BOOLEAN
  BY <1>1, <1>2, ResolveFacts DEF WorkloadKinds
<1>4. o = [kind |-> o.kind, name |-> o.name, replicas |-> o.replicas,
           apiVersion |-> ~o.replicas /\ ref.apiVersion]
  BY ResolveFacts
<1> HIDE DEF o
<1> DEFINE kind == o.kind
           name == o.name
           replicas == o.replicas
           apiVersion == ~o.replicas /\ ref.apiVersion
<1>5. /\ o = [kind |-> kind, name |-> name, replicas |-> replicas, apiVersion |-> apiVersion]
      /\ kind \in ControllerKinds \cup WorkloadKinds \cup {"Pod"} /\ name \in Names
      /\ replicas \in BOOLEAN /\ apiVersion \in BOOLEAN
  BY <1>3, <1>4
<1> HIDE DEF kind, name, replicas, apiVersion
<1>6. o \in AuditOwners
  BY <1>5 DEF AuditOwners
<1> QED
  BY <1>6 DEF o

--------------------------------------------------------------------------------
(* The types, step by step.                                                  *)
LEMMA TypeStep ==
    ASSUME TypeOK, \A rs \in rsDeployment : rs.deployment # NoName, [Next]_vars
    PROVE  TypeOK' /\ \A rs \in rsDeployment' : rs.deployment # NoName
<1> DEFINE Goal == TypeOK' /\ \A rs \in rsDeployment' : rs.deployment # NoName
<1>1. CASE Begin
  BY <1>1 DEF Begin, TypeOK
<1>2. CASE listPDBs
  BY <1>2 DEF listPDBs, Listed, cluster, TypeOK
<1>3. CASE listAuditWorkloads
  BY <1>3 DEF listAuditWorkloads, Listed, cluster, TypeOK
<1>4. CASE listTheRest
  BY <1>4 DEF listTheRest, Listed, cluster, TypeOK
<1>5. CASE listReplicaSetDeployments
  BY <1>5 DEF listReplicaSetDeployments, Listed, cluster, TypeOK
<1>6. CASE scanPods
  <2> DEFINE guarded(p) == {pod \in pods : ~Finished(pod) /\ p \in Matched(pod)}
  <2>1. /\ owners' = [p \in PDBObjects |-> {Ref(pod) : pod \in guarded(p)}]
        /\ overlaps' = [p \in PDBObjects |->
                           UNION {Overlapping(p, pod) : pod \in guarded(p)}]
    BY <1>6 DEF scanPods
  <2>2. \A p \in PDBObjects : {Ref(pod) : pod \in guarded(p)} \subseteq OwnerRefs
    BY RefType DEF TypeOK
  <2>3. \A p \in PDBObjects, pod \in pods : Overlapping(p, pod) \subseteq Names
    BY ObjectsAssumption DEF Overlapping, Matched, InNamespace, TypeOK, PDBs
  <2>4. \A p \in PDBObjects : UNION {Overlapping(p, pod) : pod \in guarded(p)} \subseteq Names
    BY <2>3
  <2>5. owners' \in [PDBObjects -> SUBSET OwnerRefs]
    BY <2>1, <2>2
  <2>6. overlaps' \in [PDBObjects -> SUBSET Names]
    BY <2>1, <2>4
  <2> QED
    BY <1>6, <2>5, <2>6 DEF scanPods, Listed, cluster, TypeOK
<1>7. ASSUME NEW l \in Lists, ListFails(l) PROVE Goal
  BY <1>7 DEF ListFails, cluster, TypeOK
<1>8. CASE Wait
  BY <1>8 DEF Wait, After, cluster, TypeOK
<1>9. CASE Join
  <2> DEFINE entry(p) == [pdb |-> p,
                          owners |-> {Resolve(p.ns, ref) : ref \in owners[p]},
                          overlapsWith |-> overlaps[p]]
  <2>1. report' = {entry(p) : p \in seenPDBs}
    BY <1>9 DEF Join
  <2>2. ASSUME NEW p \in seenPDBs
        PROVE  /\ entry(p).pdb \in PDBObjects /\ entry(p).owners \subseteq AuditOwners
               /\ entry(p).overlapsWith \subseteq Names
    <3>1. p \in PDBObjects /\ owners[p] \subseteq OwnerRefs /\ overlaps[p] \subseteq Names
      BY DEF TypeOK
    <3>2. \A ref \in owners[p] : Resolve(p.ns, ref) \in AuditOwners
      BY <3>1, ResolveType
    <3> QED
      BY <3>1, <3>2
  <2> HIDE DEF entry
  <2>3. \A e \in report' : /\ e.pdb \in PDBObjects /\ e.owners \subseteq AuditOwners
                           /\ e.overlapsWith \subseteq Names
    BY <2>1, <2>2
  <2> QED
    BY <1>9, <2>3 DEF Join, cluster, TypeOK
<1>10. CASE Return
  BY <1>10 DEF Return, cluster, TypeOK
<1>11. CASE Change
  <2>1. changes' \in 0..MaxChanges /\ moved' \in BOOLEAN
    BY <1>11, ObjectsAssumption DEF Change, TypeOK
  <2>2. /\ pdbs' \subseteq PDBObjects /\ pods' \subseteq PodObjects
        /\ replicaSets' \subseteq ReplicaSetObjects /\ workloads' \subseteq WorkloadObjects
    BY <1>11 DEF Change, Toggle, TypeOK
  <2> QED
    BY <1>11, <2>1, <2>2 DEF Change, TypeOK
<1>12. CASE UNCHANGED vars
  BY <1>12 DEF vars, cluster, TypeOK
<1> QED
  BY <1>1, <1>2, <1>3, <1>4, <1>5, <1>6, <1>7, <1>8, <1>9, <1>10, <1>11, <1>12
     DEF Next, handleDisruptionAudit, List

(* The lists go on in their groups.                                          *)
LEMMA ProgressStep == ASSUME TypeOK, ProgressInv, [Next]_vars PROVE ProgressInv'
<1>1. ASSUME NEW l \in Lists, NEW r \in {"ok", "failed"},
             Running(l), task' = [task EXCEPT ![l] = r], step' = step
      PROVE  ProgressInv'
  <2>1. \/ l \in FirstLists /\ step = "first"
        \/ l \in SecondLists /\ l \notin FirstLists /\ step = "second"
    BY <1>1 DEF Running, Lists
  <2>2. /\ FirstLists \cap SecondLists = {} /\ Lists = FirstLists \cup SecondLists
    BY DEF Lists, FirstLists, SecondLists
  <2>3. \A k \in Lists : k # l => task'[k] = task[k]
    BY <1>1 DEF TypeOK
  <2> QED
    BY <1>1, <2>1, <2>2, <2>3 DEF ProgressInv
<1>2. ASSUME NEW l \in Lists, Listed(l) PROVE ProgressInv'
  BY <1>1, <1>2 DEF Listed
<1>3. CASE List
  <2>1. ASSUME NEW l \in Lists, ListFails(l) PROVE ProgressInv'
    BY <1>1, <2>1 DEF ListFails
  <2> QED
    BY <1>2, <1>3, <2>1 DEF List, listPDBs, listAuditWorkloads, listTheRest,
       listReplicaSetDeployments, scanPods, Lists, FirstLists, SecondLists
<1>4. CASE Wait
  <2>1. \A l \in Lists : task[l] \in {"todo", "ok", "failed"}
    BY DEF TypeOK
  <2> QED
    BY <1>4, <2>1 DEF Wait, After, ProgressInv, Lists
<1>5. CASE Begin \/ Join \/ Return \/ Change \/ UNCHANGED vars
  BY <1>5 DEF Begin, Join, Return, Change, vars, cluster, ProgressInv, Lists
<1> QED
  BY <1>3, <1>4, <1>5 DEF Next, handleDisruptionAudit

(* What was read stays what is there until the cluster moves.                *)
LEMMA SnapshotStep ==
    ASSUME TypeOK, ProgressInv, SnapshotInv, [Next]_vars
    PROVE  SnapshotInv'
<1>L. {"pdbs", "workloads", "namespaces", "dataServices"} \subseteq Lists
      /\ {"replicaSets", "pods"} \subseteq Lists
  BY DEF Lists, FirstLists, SecondLists
<1>1. CASE Begin
  BY <1>1, <1>L DEF Begin, ProgressInv, SnapshotInv
<1>2. CASE listPDBs
  <2>1. /\ step = "first" /\ task' = [task EXCEPT !["pdbs"] = "ok"] /\ seenPDBs' = pdbs
        /\ UNCHANGED <<pdbs, workloads, moved, seenWorkloads>>
    BY <1>2 DEF listPDBs, Listed, Running, FirstLists, cluster
  <2>2. task["replicaSets"] = "todo" /\ task["pods"] = "todo"
    BY <2>1 DEF ProgressInv, SecondLists
  <2>3. /\ task'["replicaSets"] = "todo" /\ task'["pods"] = "todo"
        /\ task'["workloads"] = task["workloads"]
    BY <1>L, <2>1, <2>2 DEF TypeOK
  <2> QED
    BY <2>1, <2>3 DEF SnapshotInv
<1>3. CASE listAuditWorkloads
  <2>1. /\ step = "first" /\ task' = [task EXCEPT !["workloads"] = "ok"]
        /\ seenWorkloads' = workloads
        /\ UNCHANGED <<pdbs, workloads, moved, seenPDBs>>
    BY <1>3 DEF listAuditWorkloads, Listed, Running, FirstLists, cluster
  <2>2. task["replicaSets"] = "todo" /\ task["pods"] = "todo"
    BY <2>1 DEF ProgressInv, SecondLists
  <2>3. /\ task'["replicaSets"] = "todo" /\ task'["pods"] = "todo"
        /\ task'["pdbs"] = task["pdbs"]
    BY <1>L, <2>1, <2>2 DEF TypeOK
  <2> QED
    BY <2>1, <2>3 DEF SnapshotInv
<1>4. ASSUME UNCHANGED <<cluster, seenPDBs, seenWorkloads, rsDeployment, owners, overlaps>>,
             \A l \in {"pdbs", "workloads", "replicaSets", "pods"} :
                 task'[l] = "ok" => task[l] = "ok"
      PROVE  SnapshotInv'
  BY <1>4 DEF cluster, SnapshotInv, DeployedSets, Guarded, Matched, InNamespace, Overlapping
<1>5. CASE listTheRest
  BY <1>4, <1>5, <1>L DEF listTheRest, Listed, TypeOK
<1>6. CASE listReplicaSetDeployments
  <2>1. /\ task' = [task EXCEPT !["replicaSets"] = "ok"] /\ rsDeployment' = DeployedSets
        /\ UNCHANGED <<cluster, seenPDBs, seenWorkloads, owners, overlaps>>
    BY <1>6 DEF listReplicaSetDeployments, Listed, DeployedSets
  <2>2. DeployedSets' = DeployedSets
    BY <2>1 DEF cluster, DeployedSets, InNamespace
  <2>3. /\ task'["pdbs"] = task["pdbs"] /\ task'["workloads"] = task["workloads"]
        /\ task'["pods"] = task["pods"]
    BY <1>L, <2>1 DEF TypeOK
  <2>4. \A p \in PDBObjects :
           /\ Guarded(p)' = Guarded(p)
           /\ \A pod : Overlapping(p, pod)' = Overlapping(p, pod)
    BY <2>1 DEF cluster, Guarded, Matched, InNamespace, Overlapping
  <2> QED
    BY <2>1, <2>2, <2>3, <2>4 DEF cluster, SnapshotInv
<1>7. CASE scanPods
  <2>1. /\ task' = [task EXCEPT !["pods"] = "ok"]
        /\ UNCHANGED <<cluster, seenPDBs, seenWorkloads, rsDeployment>>
    BY <1>7 DEF scanPods, Listed
  <2>2. \A p \in PDBObjects :
           /\ owners'[p] = {Ref(pod) : pod \in Guarded(p)}
           /\ overlaps'[p] = UNION {Overlapping(p, pod) : pod \in Guarded(p)}
    BY <1>7 DEF scanPods, Guarded
  <2>3. \A p \in PDBObjects :
           /\ Guarded(p)' = Guarded(p)
           /\ \A pod : Overlapping(p, pod)' = Overlapping(p, pod)
    BY <2>1 DEF cluster, Guarded, Matched, InNamespace, Overlapping
  <2>4. DeployedSets' = DeployedSets
    BY <2>1 DEF cluster, DeployedSets, InNamespace
  <2>5. /\ task'["pdbs"] = task["pdbs"] /\ task'["workloads"] = task["workloads"]
        /\ task'["replicaSets"] = task["replicaSets"]
    BY <1>L, <2>1 DEF TypeOK
  <2> QED
    BY <2>1, <2>2, <2>3, <2>4, <2>5 DEF cluster, SnapshotInv
<1>8. ASSUME NEW l \in Lists, ListFails(l) PROVE SnapshotInv'
  BY <1>4, <1>8, <1>L DEF ListFails, TypeOK
<1>9. CASE Wait \/ Join
  BY <1>4, <1>9 DEF Wait, Join
<1>10. CASE Return
  BY <1>10, <1>L DEF Return, SnapshotInv
<1>11. CASE Change
  <2>1. task' = task /\ (step # "idle" => moved')
    BY <1>11 DEF Change
  <2>2. step = "idle" => \A l \in Lists : task[l] = "todo"
    BY DEF ProgressInv
  <2> QED
    BY <1>L, <2>1, <2>2 DEF SnapshotInv
<1>12. CASE UNCHANGED vars
  BY <1>4, <1>12 DEF vars
<1> QED
  BY <1>1, <1>2, <1>3, <1>5, <1>6, <1>7, <1>8, <1>9, <1>10, <1>11, <1>12
     DEF Next, handleDisruptionAudit, List

--------------------------------------------------------------------------------
(* The join of what was read of a cluster that stood still.                  *)
Quiet ==
    /\ seenPDBs = pdbs /\ seenWorkloads = workloads /\ rsDeployment = DeployedSets
    /\ \A p \in PDBObjects :
          /\ owners[p] = {Ref(pod) : pod \in Guarded(p)}
          /\ overlaps[p] = UNION {Overlapping(p, pod) : pod \in Guarded(p)}

(* The pods a budget counts are those it selects that are not finished.      *)
LEMMA GuardedIsSelected ==
    ASSUME Quiet, NEW p \in pdbs
    PROVE  Guarded(p) = {pod \in pods : Selects(p, pod) /\ ~Finished(pod)}
<1>1. \A pod \in pods : p \in Matched(pod) <=> Selects(p, pod)
  BY DEF Quiet, Matched, InNamespace, Matches, Selects
<1> QED
  BY <1>1 DEF Guarded

(* What the reference of a pod is resolved to is its controller.             *)
LEMMA ResolvedIsController ==
    ASSUME TypeOK, Quiet, NEW p \in pdbs, NEW pod \in pods, pod.ns = p.ns
    PROVE  IsController(Resolve(p.ns, Ref(pod)), pod)
<1> DEFINE ref == Ref(pod)
           o == Resolve(p.ns, ref)
           rs == {r \in rsDeployment :
                     ref.kind = "ReplicaSet" /\ r.ns = p.ns /\ r.name = ref.name}
<1>1. /\ rs = {} => o.kind = ref.kind /\ o.name = ref.name
      /\ rs # {} => o.kind = "Deployment" /\ \E r \in rs : o.name = r.deployment
  BY ResolveFacts
<1> HIDE DEF o
<1>2. CASE pod.ctlKind = "none"
  <2>1. ref.kind = "Pod" /\ ref.name = pod.name
    BY <1>2 DEF Ref
  <2>2. rs = {}
    BY <2>1
  <2> QED
    BY <1>1, <1>2, <2>1, <2>2 DEF IsController, o
<1>3. CASE pod.ctlKind # "none"
  <2>1. ref.kind = pod.ctlKind /\ ref.name = pod.ctlName
    BY <1>3 DEF Ref
  <2>2. CASE rs # {}
    <3>1. PICK r \in rs : o.name = r.deployment
      BY <1>1, <2>2
    <3>2. /\ r \in replicaSets /\ r.deployment # NoName
          /\ pod.ctlKind = "ReplicaSet" /\ r.ns = p.ns /\ r.name = pod.ctlName
      BY <2>1, <3>1 DEF Quiet, DeployedSets
    <3> HIDE DEF rs
    <3> QED
      BY <1>1, <2>2, <3>1, <3>2 DEF IsController, o
  <2>3. CASE rs = {}
    <3>1. ~\E r \in replicaSets :
             /\ pod.ctlKind = "ReplicaSet" /\ pod.ctlName = r.name /\ pod.ns = r.ns
             /\ r.deployment # NoName
      <4> SUFFICES ASSUME NEW r \in replicaSets, pod.ctlKind = "ReplicaSet",
                          pod.ctlName = r.name, pod.ns = r.ns, r.deployment # NoName
                   PROVE  FALSE
        OBVIOUS
      <4>1. p \in InNamespace(r.ns)
        BY DEF Quiet, InNamespace
      <4>2. r \in rsDeployment
        BY <4>1 DEF Quiet, DeployedSets
      <4> QED
        BY <2>1, <2>3, <4>2
    <3> HIDE DEF rs
    <3> QED
      BY <1>1, <2>1, <2>3, <3>1 DEF IsController, o
  <2> QED
    BY <2>2, <2>3
<1> QED
  BY <1>2, <1>3

(* The overlaps of a budget, read off the cluster.                           *)
LEMMA OverlapsAreExact ==
    ASSUME TypeOK, Quiet, NEW p \in pdbs
    PROVE  overlaps[p] =
             {q.name : q \in {q \in pdbs \ {p} :
                \E pod \in {pod \in pods : Selects(p, pod) /\ ~Finished(pod)} :
                    Selects(q, pod) /\ pod.phase = "Running" /\ ~pod.deleting}}
<1> DEFINE G == {pod \in pods : Selects(p, pod) /\ ~Finished(pod)}
           Q == {q \in pdbs \ {p} : \E pod \in G :
                    Selects(q, pod) /\ pod.phase = "Running" /\ ~pod.deleting}
<1>1. Guarded(p) = G /\ p \in PDBObjects
  BY GuardedIsSelected DEF TypeOK
<1>2. overlaps[p] = UNION {Overlapping(p, pod) : pod \in G}
  BY <1>1 DEF Quiet
<1>3. \A pod \in G : Evictable(pod) <=> pod.phase = "Running" /\ ~pod.deleting
  <2>1. \A pod \in pods : pod.phase \in {"Pending", "Running", "Succeeded", "Failed"}
    BY ObjectsAssumption DEF TypeOK, Pods
  <2> QED
    BY <2>1 DEF Finished, Evictable
<1>4. \A pod \in pods, q \in pdbs : q \in Matched(pod) <=> Selects(q, pod)
  BY DEF Quiet, Matched, InNamespace, Matches, Selects
<1>5. \A pod \in pods : Matched(pod) \subseteq pdbs
  BY DEF Quiet, Matched, InNamespace
<1> HIDE DEF Q
<1>6. ASSUME NEW n \in overlaps[p] PROVE n \in {q.name : q \in Q}
  <2>1. PICK pod \in G : n \in Overlapping(p, pod)
    BY <1>2
  <2>2. Evictable(pod) /\ n \in {q.name : q \in Matched(pod) \ {p}}
    BY <2>1 DEF Overlapping
  <2>3. PICK q \in Matched(pod) \ {p} : n = q.name
    BY <2>2
  <2>4. q \in Q
    BY <1>3, <1>4, <1>5, <2>2, <2>3 DEF Q
  <2> QED
    BY <2>3, <2>4
<1>7. ASSUME NEW q \in Q PROVE q.name \in overlaps[p]
  <2>1. PICK pod \in G : Selects(q, pod) /\ pod.phase = "Running" /\ ~pod.deleting
    BY DEF Q
  <2>2. q \in Matched(pod) \ {p} /\ Evictable(pod)
    BY <1>3, <1>4, <2>1 DEF Q
  <2>3. q.name \in Overlapping(p, pod)
    BY <2>2 DEF Overlapping
  <2> QED
    BY <1>2, <2>3
<1>8. overlaps[p] = {q.name : q \in Q}
  BY <1>6, <1>7
<1> QED
  BY <1>8 DEF Q

(* A workload that is there brings its fields.                               *)
LEMMA ReplicasAreExact ==
    ASSUME TypeOK, Quiet, NEW ns, NEW ref
    PROVE  LET o == Resolve(ns, ref) IN
           o.replicas <=> [kind |-> o.kind, ns |-> ns, name |-> o.name] \in workloads
<1> DEFINE o == Resolve(ns, ref)
<1>1. o.replicas <=> \E w \in workloads : w.kind = o.kind /\ w.ns = ns /\ w.name = o.name
  BY ResolveFacts DEF Quiet
<1>2. \A w \in workloads : w = [kind |-> w.kind, ns |-> w.ns, name |-> w.name]
  BY ObjectsAssumption DEF TypeOK, Workloads
<1> HIDE DEF o
<1>3. o.replicas <=> [kind |-> o.kind, ns |-> ns, name |-> o.name] \in workloads
  BY <1>1, <1>2
<1> QED
  BY <1>3 DEF o

(* One entry of a report is exact.                                           *)
Counted(p) == {pod \in pods : Selects(p, pod) /\ ~Finished(pod)}

OwnersExact(e) ==
    /\ \A pod \in Counted(e.pdb) : \E o \in e.owners : IsController(o, pod)
    /\ \A o \in e.owners : \E pod \in Counted(e.pdb) : IsController(o, pod)

ReplicasExact(e) ==
    \A o \in e.owners : o.replicas <=>
        [kind |-> o.kind, ns |-> e.pdb.ns, name |-> o.name] \in workloads

OverlapExact(e) ==
    e.overlapsWith = {q.name : q \in {q \in pdbs \ {e.pdb} : \E pod \in Counted(e.pdb) :
                                         Selects(q, pod) /\ pod.phase = "Running"
                                                         /\ ~pod.deleting}}

(* Exactness, entry by entry.                                                *)
LEMMA ExactByEntry ==
    QuietReportIsExact <=>
        (step = "done" /\ ~moved =>
            /\ {e.pdb : e \in report} = pdbs
            /\ \A e \in report : OwnersExact(e) /\ ReplicasExact(e) /\ OverlapExact(e))
  BY Zenon DEF QuietReportIsExact, OwnersExact, ReplicasExact, OverlapExact, Counted

(* It stays while the cluster does.                                          *)
LEMMA EntryStays ==
    ASSUME UNCHANGED <<pdbs, pods, replicaSets, workloads>>, NEW e
    PROVE  /\ OwnersExact(e)' <=> OwnersExact(e)
           /\ ReplicasExact(e)' <=> ReplicasExact(e)
           /\ OverlapExact(e)' <=> OverlapExact(e)
<1>1. \A o, pod : IsController(o, pod)' <=> IsController(o, pod)
  BY DEF IsController
<1>2. Counted(e.pdb)' = Counted(e.pdb)
  BY DEF Counted
<1>3. OwnersExact(e)' <=> OwnersExact(e)
  BY <1>1, <1>2 DEF OwnersExact
<1>4. ReplicasExact(e)' <=> ReplicasExact(e)
  BY DEF ReplicasExact
<1>5. OverlapExact(e)' <=> OverlapExact(e)
  BY <1>2 DEF OverlapExact
<1> QED
  BY <1>3, <1>4, <1>5

(* The report of a quiet cluster is exact.                                   *)
LEMMA JoinIsExact ==
    ASSUME TypeOK, Quiet, Join
    PROVE  QuietReportIsExact'
<1> DEFINE entry(p) == [pdb |-> p,
                        owners |-> {Resolve(p.ns, ref) : ref \in owners[p]},
                        overlapsWith |-> overlaps[p]]
<1>1. /\ report' = {entry(p) : p \in pdbs}
      /\ UNCHANGED <<pdbs, pods, replicaSets, workloads>>
  BY DEF Join, cluster, Quiet
<1>2. \A p \in pdbs : /\ entry(p).pdb = p
                      /\ entry(p).owners = {Resolve(p.ns, ref) : ref \in owners[p]}
                      /\ entry(p).overlapsWith = overlaps[p]
  OBVIOUS
<1> HIDE DEF entry
<1>3. {e.pdb : e \in report'} = pdbs
  BY <1>1, <1>2
<1>4. ASSUME NEW e \in report'
      PROVE  OwnersExact(e) /\ ReplicasExact(e) /\ OverlapExact(e)
  <2>1. PICK p \in pdbs : e = entry(p)
    BY <1>1
  <2>2. /\ e.pdb = p /\ e.owners = {Resolve(p.ns, ref) : ref \in owners[p]}
        /\ e.overlapsWith = overlaps[p] /\ p \in PDBObjects
    BY <1>2, <2>1 DEF TypeOK
  <2> DEFINE guarded == {pod \in pods : Selects(p, pod) /\ ~Finished(pod)}
  <2>3. e.owners = {Resolve(p.ns, Ref(pod)) : pod \in guarded}
    <3>1. owners[p] = {Ref(pod) : pod \in guarded}
      BY <2>2, GuardedIsSelected DEF Quiet
    <3> QED
      BY <2>2, <3>1
  <2>4. \A pod \in guarded : IsController(Resolve(p.ns, Ref(pod)), pod)
    BY ResolvedIsController DEF Selects
  <2>5. \A o \in e.owners : o.replicas <=>
           [kind |-> o.kind, ns |-> p.ns, name |-> o.name] \in workloads
    BY <2>3, ReplicasAreExact
  <2>6. e.overlapsWith =
          {q.name : q \in {q \in pdbs \ {p} : \E pod \in guarded :
                              Selects(q, pod) /\ pod.phase = "Running" /\ ~pod.deleting}}
    BY <2>2, OverlapsAreExact
  <2> HIDE DEF guarded
  <2>7. /\ \A pod \in guarded : \E o \in e.owners : IsController(o, pod)
        /\ \A o \in e.owners : \E pod \in guarded : IsController(o, pod)
    BY <2>3, <2>4
  <2>8. OwnersExact(e)
    BY <2>2, <2>7 DEF OwnersExact, Counted, guarded
  <2>9. ReplicasExact(e)
    BY <2>2, <2>5 DEF ReplicasExact
  <2>10. OverlapExact(e)
    BY <2>2, <2>6 DEF OverlapExact, Counted, guarded
  <2> QED
    BY <2>8, <2>9, <2>10
<1>5. \A e \in report' : OwnersExact(e)' /\ ReplicasExact(e)' /\ OverlapExact(e)'
  BY <1>1, <1>4, EntryStays
<1>6. {e.pdb : e \in report'} = pdbs'
  BY <1>1, <1>3
<1>7. (QuietReportIsExact <=>
        (step = "done" /\ ~moved =>
            /\ {e.pdb : e \in report} = pdbs
            /\ \A e \in report : OwnersExact(e) /\ ReplicasExact(e) /\ OverlapExact(e)))'
  BY ExactByEntry, PTL
<1> QED
  BY <1>5, <1>6, <1>7

(* Every step keeps the invariant: a report is written by Join only, and     *)
(* from then on the cluster has moved or is what it was.                     *)
LEMMA NextExact == ExactInv /\ [Next]_vars => ExactInv'
<1> SUFFICES ASSUME ExactInv, [Next]_vars PROVE ExactInv'
  OBVIOUS
<1>1. TypeOK' /\ \A rs \in rsDeployment' : rs.deployment # NoName
  BY TypeStep DEF ExactInv
<1>2. ProgressInv' /\ SnapshotInv'
  BY ProgressStep, SnapshotStep DEF ExactInv
<1>3. QuietReportIsExact'
  <2>1. CASE Join /\ ~moved
    <3>1. step = "join" /\ \A l \in Lists : task[l] = "ok"
      BY <2>1 DEF Join, ExactInv, ProgressInv, Lists
    <3>2. Quiet
      BY <2>1, <3>1 DEF ExactInv, SnapshotInv, Quiet, Lists, FirstLists, SecondLists
    <3> QED
      BY <2>1, <3>2, JoinIsExact DEF ExactInv
  <2>2. CASE step' # "done" \/ moved'
    BY <2>2 DEF QuietReportIsExact
  <2>3. CASE UNCHANGED vars
    <3>1. /\ UNCHANGED <<pdbs, pods, replicaSets, workloads>>
          /\ step' = step /\ moved' = moved /\ report' = report
      BY <2>3 DEF vars, cluster
    <3>2. (QuietReportIsExact <=>
            (step = "done" /\ ~moved =>
                /\ {e.pdb : e \in report} = pdbs
                /\ \A e \in report : OwnersExact(e) /\ ReplicasExact(e) /\ OverlapExact(e)))'
      BY ExactByEntry, PTL
    <3>3. \A e \in report : /\ OwnersExact(e)' <=> OwnersExact(e)
                            /\ ReplicasExact(e)' <=> ReplicasExact(e)
                            /\ OverlapExact(e)' <=> OverlapExact(e)
      BY <3>1, EntryStays
    <3> QED
      BY <3>1, <3>2, <3>3, ExactByEntry DEF ExactInv
  <2>4. Join => moved' = moved
    BY DEF Join, cluster
  <2>5. Change => step' = step /\ (step = "done" => moved')
    BY DEF Change
  <2>6. handleDisruptionAudit /\ ~Join => step' # "done"
    BY DEF handleDisruptionAudit, Begin, List, listPDBs, listAuditWorkloads, listTheRest,
           listReplicaSetDeployments, scanPods, Listed, Running, ListFails, Wait, After, Return
  <2> QED
    BY <2>1, <2>2, <2>3, <2>4, <2>5, <2>6 DEF Next
<1> QED
  BY <1>1, <1>2, <1>3 DEF ExactInv

(* A report on a cluster that stood still while the lists ran is exact: its  *)
(* budgets, the owners that the pods' references resolve to, the replicas    *)
(* and the overlaps are those read off the cluster, for any objects.         *)
THEOREM QuietReportsAreExact == Spec => []AuditInv
<1>1. Init => ExactInv
  <2> SUFFICES ASSUME Init PROVE ExactInv
    OBVIOUS
  <2>1. TypeOK
    <3>1. changes \in 0..MaxChanges
      BY ObjectsAssumption DEF Init
    <3>2. /\ owners \in [PDBObjects -> SUBSET OwnerRefs]
          /\ overlaps \in [PDBObjects -> SUBSET Names]
          /\ task \in [Lists -> {"todo", "ok", "failed"}]
      BY DEF Init
    <3> QED
      BY <3>1, <3>2 DEF Init, TypeOK
  <2>2. ProgressInv
    BY DEF Init, ProgressInv, Lists
  <2>3. SnapshotInv
    BY DEF Init, SnapshotInv, Lists, FirstLists, SecondLists
  <2>4. QuietReportIsExact
    BY DEF Init, QuietReportIsExact
  <2> QED
    BY <2>1, <2>2, <2>3, <2>4 DEF Init, ExactInv
<1>2. ExactInv => AuditInv
  BY DEF ExactInv, AuditInv
<1> QED
  BY <1>1, <1>2, NextExact, PTL DEF Spec

--------------------------------------------------------------------------------
(* Data services.                                                            *)

(* A set of natural numbers has a least one.                                 *)
LEMMA LeastNumber ==
    ASSUME NEW T, T \subseteq Nat, T # {}
    PROVE  \E x \in T : \A y \in T : x <= y
<1> DEFINE Smaller == {ss \in Nat \X Nat : ss[1] < ss[2]}
<1>1. IsWellFoundedOn(Smaller, Nat)
  BY NatLessThanWellFounded DEF OpToRel
<1>2. PICK x \in T : \A y \in T : ~(<<y, x>> \in Smaller)
  <2> HIDE DEF Smaller
  <2> QED
    BY <1>1, WFMin
<1>3. \A y \in T : ~(y < x)
  BY <1>2
<1> QED
  BY <1>3

(* In a finite set something is ahead of which there is nothing: whatever    *)
(* has the fewest ahead of it.                                               *)
LEMMA SomethingIsFirst ==
    ASSUME NEW S, IsFiniteSet(S), S # {}, NEW ahead \in [S -> SUBSET S],
           \A x \in S : x \notin ahead[x],
           \A x, y \in S : y \in ahead[x] => ahead[y] \subseteq ahead[x]
    PROVE  \E x \in S : ahead[x] = {}
<1>1. \A x \in S : IsFiniteSet(ahead[x]) /\ Cardinality(ahead[x]) \in Nat
  BY FS_Subset, FS_CardinalityType
<1> DEFINE T == {Cardinality(ahead[x]) : x \in S}
<1>2. PICK n \in T : \A m \in T : n <= m
  <2>1. T \subseteq Nat /\ T # {}
    BY <1>1
  <2> HIDE DEF T
  <2> QED
    BY <2>1, LeastNumber
<1>3. PICK x \in S : n = Cardinality(ahead[x])
  BY <1>2
<1>4. ASSUME NEW y \in ahead[x] PROVE FALSE
  <2>1. y \in S /\ ahead[y] \subseteq ahead[x] /\ ahead[y] # ahead[x]
    OBVIOUS
  <2>2. Cardinality(ahead[y]) < Cardinality(ahead[x])
    <3>1. ASSUME NEW A, IsFiniteSet(A), NEW B \in SUBSET A, B # A
          PROVE  Cardinality(B) < Cardinality(A)
      BY <3>1, FS_Subset, FS_CardinalityType
    <3> QED
      BY <1>1, <2>1, <3>1
  <2>3. Cardinality(ahead[y]) \in T
    BY <2>1
  <2> QED
    BY <1>1, <1>2, <1>3, <2>1, <2>2, <2>3
<1> QED
  BY <1>3, <1>4

(* Of the keywords found in images, one is best.                             *)
LEMMA BestExists ==
    ASSUME NEW images \in Seq(Images), NEW keywords \in Seq(Keywords),
           Hits(images, keywords) # {}
    PROVE  \E h \in Hits(images, keywords) : IsBest(h, Hits(images, keywords), keywords)
<1> DEFINE S == Hits(images, keywords)
           L(h) == Length[keywords[h[2]]]
           ahead == [h \in S |-> {g \in S : Beats(g, h, keywords)}]
<1>1. S \subseteq (1..Len(images)) \X (1..Len(keywords))
  BY DEF Hits
<1>2. IsFiniteSet(S)
  <2>1. Len(images) \in Nat /\ Len(keywords) \in Nat
    OBVIOUS
  <2>2. IsFiniteSet(1..Len(images)) /\ IsFiniteSet(1..Len(keywords))
    BY <2>1, FS_Interval
  <2>3. IsFiniteSet((1..Len(images)) \X (1..Len(keywords)))
    BY <2>2, FS_Product
  <2> QED
    BY <1>1, <2>3, FS_Subset
<1>3. \A h \in S : h[1] \in Nat /\ h[2] \in Nat /\ L(h) \in Nat
  BY <1>1, KeywordsAssumption
<1>4. \A g, h \in S : g \in ahead[h] <=>
          \/ L(g) > L(h)
          \/ L(g) = L(h) /\ (g[1] < h[1] \/ (g[1] = h[1] /\ g[2] < h[2]))
  BY DEF Beats
<1>5. \A h \in S : h \notin ahead[h]
  <2> HIDE DEF S, L, ahead
  <2> QED
    BY <1>3, <1>4
<1>6. \A g, h \in S : g \in ahead[h] => ahead[g] \subseteq ahead[h]
  <2>1. ahead \in [S -> SUBSET S]
    OBVIOUS
  <2> HIDE DEF S, L, ahead
  <2> SUFFICES ASSUME NEW g \in S, NEW h \in S, g \in ahead[h], NEW k \in ahead[g]
               PROVE  k \in ahead[h]
    OBVIOUS
  <2>2. k \in S
    BY <2>1
  <2> QED
    BY <1>3, <1>4, <2>2
<1>7. ahead \in [S -> SUBSET S] /\ S # {}
  OBVIOUS
<1>8. PICK h \in S : ahead[h] = {}
  <2> HIDE DEF S, ahead
  <2> QED
    BY <1>2, <1>5, <1>6, <1>7, SomethingIsFirst
<1> QED
  BY <1>8 DEF IsBest

(* What detectEngine returns: "none" if no image that is no exporter names a *)
(* keyword, and else a keyword that one of them names and none of them       *)
(* surpasses in length.                                                      *)
LEMMA DetectedEngine ==
    ASSUME NEW images \in Seq(Images), NEW keywords \in Seq(Keywords)
    PROVE  \/ /\ detectEngine(images, keywords) = NoEngine
              /\ \A i \in DOMAIN images : \A k \in DOMAIN keywords :
                    images[i].exporter \/ keywords[k] \notin images[i].has
           \/ \E i \in DOMAIN images : \E k \in DOMAIN keywords :
                 /\ ~images[i].exporter /\ keywords[k] \in images[i].has
                 /\ detectEngine(images, keywords) = keywords[k]
                 /\ \A j \in DOMAIN images : \A l \in DOMAIN keywords :
                       ~images[j].exporter /\ keywords[l] \in images[j].has =>
                          Length[keywords[l]] <= Length[keywords[k]]
<1> DEFINE S == Hits(images, keywords)
<1>1. \A i \in DOMAIN images : \A k \in DOMAIN keywords :
          <<i, k>> \in S <=> ~images[i].exporter /\ keywords[k] \in images[i].has
  BY DEF Hits
<1>2. CASE S = {}
  BY <1>1, <1>2 DEF detectEngine, BestOf
<1>3. CASE S # {}
  <2>1. \E h \in S : IsBest(h, S, keywords)
    BY <1>3, BestExists
  <2> DEFINE h == CHOOSE h \in S : IsBest(h, S, keywords)
  <2>2. h \in S /\ IsBest(h, S, keywords) /\ detectEngine(images, keywords) = keywords[h[2]]
    BY <1>3, <2>1 DEF detectEngine, BestOf
  <2> HIDE DEF h
  <2>3. PICK i \in DOMAIN images, k \in DOMAIN keywords : h = <<i, k>>
    BY <2>2 DEF Hits
  <2>4. h[2] = k
    BY <2>3
  <2>5. ASSUME NEW j \in DOMAIN images, NEW l \in DOMAIN keywords, <<j, l>> \in S
        PROVE  Length[keywords[l]] <= Length[keywords[k]]
    <3>1. ~(Length[keywords[l]] > Length[keywords[k]])
      <4>1. ~Beats(<<j, l>>, h, keywords)
        BY <2>2, <2>5 DEF IsBest
      <4> QED
        BY <2>4, <4>1 DEF Beats
    <3>2. keywords[l] \in Keywords /\ keywords[k] \in Keywords
      OBVIOUS
    <3> QED
      BY <3>1, <3>2, KeywordsAssumption
  <2> QED
    BY <1>1, <2>2, <2>3, <2>4, <2>5
<1> QED
  BY <1>2, <1>3

(* The lists are proper, and the report is what the join makes of them.      *)
JoinedInv ==
    /\ workloadList \in Seq(ServiceWorkloads) /\ ProperWorkloads(workloadList)
    /\ resources \in Seq(CustomResources)
    /\ budgets \subseteq PDBs
    /\ pc \in {"join", "done"}
    /\ pc = "join" => instances = {}
    /\ pc = "done" => instances = {OperatorInstance(resources[i]) : i \in DOMAIN resources}
                                     \cup imageInstances

(* What it takes to be a pair of bitnamiReplicas.                            *)
LEMMA PairsAreReleases ==
    ASSUME NEW i, NEW j, <<i, j>> \in bitnamiReplicas
    PROVE  /\ i \in DOMAIN workloadList /\ j \in DOMAIN workloadList
           /\ Released(workloadList[i]) /\ Released(workloadList[j])
           /\ workloadList[i].component = "master" /\ workloadList[j].component = "replica"
           /\ workloadList[i].ns = workloadList[j].ns
           /\ workloadList[i].release = workloadList[j].release
           /\ i \in LastOf(workloadList[j].ns, workloadList[j].release, "master")
           /\ j \in LastOf(workloadList[i].ns, workloadList[i].release, "replica")
<1>1. PICK ns \in Namespaces, release \in Releases :
          <<i, j>> \in LastOf(ns, release, "master") \X LastOf(ns, release, "replica")
  BY DEF bitnamiReplicas
<1>2. i \in LastOf(ns, release, "master") /\ j \in LastOf(ns, release, "replica")
  BY <1>1
<1>3. /\ i \in DOMAIN workloadList /\ IsPart(workloadList[i], ns, release, "master")
      /\ j \in DOMAIN workloadList /\ IsPart(workloadList[j], ns, release, "replica")
  BY <1>2 DEF LastOf
<1> QED
  BY <1>2, <1>3 DEF IsPart

(* There is one last part of a release.                                      *)
LEMMA OneIsLast ==
    ASSUME workloadList \in Seq(ServiceWorkloads), NEW ns, NEW release, NEW component,
           NEW i \in LastOf(ns, release, component), NEW j \in LastOf(ns, release, component)
    PROVE  i = j
<1>1. i \in DOMAIN workloadList /\ j \in DOMAIN workloadList /\ i <= j /\ j <= i
  BY DEF LastOf
<1>2. i \in Nat /\ j \in Nat
  BY <1>1
<1> QED
  BY <1>1, <1>2

(* A master has one replica and a replica has one master.                    *)
LEMMA PairsAreUnique ==
    ASSUME workloadList \in Seq(ServiceWorkloads), NEW i, NEW j, <<i, j>> \in bitnamiReplicas
    PROVE  /\ \A k : <<i, k>> \in bitnamiReplicas => k = j
           /\ \A k : <<k, j>> \in bitnamiReplicas => k = i
<1>1. ASSUME NEW k, <<i, k>> \in bitnamiReplicas PROVE k = j
  BY <1>1, PairsAreReleases, OneIsLast
<1>2. ASSUME NEW k, <<k, j>> \in bitnamiReplicas PROVE k = i
  BY <1>2, PairsAreReleases, OneIsLast
<1> QED
  BY <1>1, <1>2

(* The folded workloads are the second members of the pairs.                 *)
LEMMA FoldedInPair ==
    ASSUME NEW j, Folded(j) PROVE \E i : <<i, j>> \in bitnamiReplicas
<1>1. PICK pair \in bitnamiReplicas : pair[2] = j
  BY DEF Folded
<1>2. PICK ns \in Namespaces, release \in Releases :
          pair \in LastOf(ns, release, "master") \X LastOf(ns, release, "replica")
  BY DEF bitnamiReplicas
<1>3. pair = <<pair[1], j>>
  BY <1>1, <1>2
<1> QED
  BY <1>1, <1>3

(* The replica in an instance is the one of its master.                      *)
LEMMA ReplicaInInstance ==
    ASSUME workloadList \in Seq(ServiceWorkloads), NEW i
    PROVE  /\ \A j : <<i, j>> \in bitnamiReplicas =>
                  ImageInstance(i).replicaWorkload = workloadList[j].name
           /\ ImageInstance(i).replicaWorkload # NoName =>
                  \E j : <<i, j>> \in bitnamiReplicas
<1>1. ASSUME NEW j, <<i, j>> \in bitnamiReplicas
      PROVE  ImageInstance(i).replicaWorkload = workloadList[j].name
  <2>1. ReplicaOf(i) = {j}
    BY <1>1, PairsAreReleases, PairsAreUnique DEF ReplicaOf
  <2>2. (CHOOSE k \in ReplicaOf(i) : TRUE) = j
    BY <2>1
  <2> QED
    BY <2>1, <2>2 DEF ImageInstance
<1>2. ASSUME ImageInstance(i).replicaWorkload # NoName
      PROVE  \E j : <<i, j>> \in bitnamiReplicas
  <2>1. ReplicaOf(i) # {}
    BY <1>2 DEF ImageInstance
  <2> QED
    BY <2>1 DEF ReplicaOf
<1> QED
  BY <1>1, <1>2

(* An engine that is found is a keyword, and a workload whose images name    *)
(* one has an engine.                                                        *)
LEMMA EngineIsKeyword ==
    ASSUME NEW w \in ServiceWorkloads
    PROVE  /\ EngineOf(w) \in Keywords \cup {NoEngine}
           /\ NamesService(w, Keywords) => EngineOf(w) \in Keywords
<1> DEFINE keywords == CacheEngines \o QuorumImages
<1>1. keywords \in Seq(Keywords)
  BY KeywordsAssumption DEF Keywords
<1>2. \A x \in Keywords : \E k \in DOMAIN keywords : keywords[k] = x
  <2> SUFFICES ASSUME NEW x \in Keywords PROVE \E k \in DOMAIN keywords : keywords[k] = x
    OBVIOUS
  <2>0. /\ Len(CacheEngines) \in Nat /\ Len(QuorumImages) \in Nat
        /\ DOMAIN CacheEngines = 1..Len(CacheEngines)
        /\ DOMAIN QuorumImages = 1..Len(QuorumImages)
        /\ DOMAIN keywords = 1..(Len(CacheEngines) + Len(QuorumImages))
    BY KeywordsAssumption
  <2>1. CASE x \in Range(CacheEngines)
    <3>1. PICK k \in 1..Len(CacheEngines) : CacheEngines[k] = x
      BY <2>0, <2>1 DEF Range
    <3>2. k \in DOMAIN keywords /\ keywords[k] = x
      BY <2>0, <3>1, KeywordsAssumption
    <3> QED
      BY <3>2
  <2>2. CASE x \in Range(QuorumImages)
    <3>1. PICK k \in 1..Len(QuorumImages) : QuorumImages[k] = x
      BY <2>0, <2>2 DEF Range
    <3>2. Len(CacheEngines) + k \in DOMAIN keywords /\ keywords[Len(CacheEngines) + k] = x
      BY <2>0, <3>1, KeywordsAssumption
    <3> QED
      BY <3>2
  <2> QED
    BY <2>1, <2>2 DEF Keywords
<1>3. w.images \in Seq(Images) /\ EngineOf(w) = detectEngine(w.images, keywords)
  BY DEF ServiceWorkloads, EngineOf
<1> HIDE DEF keywords
<1>4. \A k \in DOMAIN keywords : keywords[k] \in Keywords
  BY <1>1
<1>5. EngineOf(w) \in Keywords \cup {NoEngine}
  BY <1>1, <1>3, <1>4, DetectedEngine
<1>6. ASSUME NamesService(w, Keywords) PROVE EngineOf(w) \in Keywords
  <2>1. PICK i \in DOMAIN w.images : ~w.images[i].exporter /\ w.images[i].has \cap Keywords # {}
    BY <1>6 DEF NamesService
  <2>2. PICK k \in DOMAIN keywords : keywords[k] \in w.images[i].has
    BY <1>2, <2>1
  <2> QED
    BY <1>1, <1>3, <1>4, <2>1, <2>2, DetectedEngine
<1> QED
  BY <1>5, <1>6

(* The fields of the instances, and where an instance comes from.            *)
LEMMA OperatorFields ==
    ASSUME NEW cr
    PROVE  /\ OperatorInstance(cr).source = "operator"
           /\ OperatorInstance(cr).replicaWorkload = NoName
  BY DEF OperatorInstance

LEMMA ImageFields ==
    ASSUME NEW i
    PROVE  /\ ImageInstance(i).source = "image"
           /\ ImageInstance(i).ns = workloadList[i].ns
           /\ ImageInstance(i).name = workloadList[i].name
           /\ ImageInstance(i).kind = workloadList[i].kind
  BY DEF ImageInstance

LEMMA ImageOrigin ==
    ASSUME JoinedInv, NEW inst \in instances,
           inst.source = "image" \/ inst.replicaWorkload # NoName
    PROVE  \E i \in DOMAIN workloadList : IsInstance(i) /\ inst = ImageInstance(i)
<1>1. pc = "done"
  BY DEF JoinedInv
<1>2. \/ inst \in {OperatorInstance(resources[i]) : i \in DOMAIN resources}
      \/ inst \in imageInstances
  BY <1>1 DEF JoinedInv
<1>3. inst \notin {OperatorInstance(resources[i]) : i \in DOMAIN resources}
  BY OperatorFields
<1> QED
  BY <1>2, <1>3 DEF imageInstances

(* The budgets that cover a template have names.                             *)
LEMMA CoveringNames ==
    ASSUME budgets \subseteq PDBs, NEW ns, NEW template
    PROVE  coveringPDBs(ns, template) \subseteq Names
  BY DEF coveringPDBs, PDBs

(* A reported image instance is of its type.                                 *)
LEMMA ImageType ==
    ASSUME JoinedInv, NEW i \in DOMAIN workloadList, IsInstance(i)
    PROVE  ImageInstance(i) \in Instances
<1>1. workloadList[i] \in ServiceWorkloads
  BY DEF JoinedInv
<1>2. /\ workloadList[i].ns \in Namespaces /\ workloadList[i].name \in Names
      /\ workloadList[i].kind \in WorkloadKinds
  BY <1>1 DEF ServiceWorkloads
<1>3. EngineOf(workloadList[i]) \in Keywords
  BY <1>1, EngineIsKeyword DEF IsInstance
<1>4. IsQuorum(workloadList[i]) \in BOOLEAN
  BY DEF IsQuorum
<1>5. coveringPDBs(workloadList[i].ns, workloadList[i].template) \subseteq Names
  BY CoveringNames DEF JoinedInv
<1>6. ImageInstance(i).replicaWorkload \in Names \cup {NoName}
  <2> SUFFICES ASSUME ImageInstance(i).replicaWorkload # NoName
               PROVE  ImageInstance(i).replicaWorkload \in Names
    OBVIOUS
  <2>0. workloadList \in Seq(ServiceWorkloads)
    BY DEF JoinedInv
  <2>1. PICK j : <<i, j>> \in bitnamiReplicas
    BY <2>0, ReplicaInInstance
  <2>2. ImageInstance(i).replicaWorkload = workloadList[j].name /\ j \in DOMAIN workloadList
    BY <2>0, <2>1, ReplicaInInstance, PairsAreReleases
  <2>3. workloadList[j] \in ServiceWorkloads
    BY <2>0, <2>2
  <2> QED
    BY <2>2, <2>3 DEF ServiceWorkloads
<1> DEFINE r == IF ReplicaOf(i) = {} THEN NoName
                ELSE workloadList[CHOOSE j \in ReplicaOf(i) : TRUE].name
<1>7. ImageInstance(i) =
        [ns |-> workloadList[i].ns, name |-> workloadList[i].name,
         engine |-> EngineOf(workloadList[i]), kind |-> workloadList[i].kind,
         workload |-> NoName, quorum |-> IsQuorum(workloadList[i]), source |-> "image",
         pdbs |-> coveringPDBs(workloadList[i].ns, workloadList[i].template),
         replicaWorkload |-> r]
  BY DEF ImageInstance
<1>8. r \in Names \cup {NoName}
  <2> HIDE DEF r
  <2> QED
    BY <1>6, <1>7
<1> HIDE DEF r
<1> QED
  BY <1>2, <1>3, <1>4, <1>5, <1>7, <1>8 DEF Instances

(* The first of some indices of a list is one of them.                       *)
LEMMA FirstIsThere ==
    ASSUME NEW I, I \subseteq Nat, I # {}
    PROVE  FirstOf(I) \in I
<1>1. \E i \in I : \A j \in I : i <= j
  BY LeastNumber
<1> QED
  BY <1>1 DEF FirstOf

(* The instance of a custom resource is of its type.                         *)
LEMMA OperatorType ==
    ASSUME JoinedInv, NEW cr \in CustomResources
    PROVE  OperatorInstance(cr) \in Instances
<1> DEFINE w == workloadList[FirstOf(Members(cr))]
           name == IF Members(cr) = {} THEN NoName ELSE w.name
           covering == IF Members(cr) = {} THEN {} ELSE coveringPDBs(w.ns, w.template)
<1>1. name \in Names \cup {NoName}
  <2>1. CASE Members(cr) # {}
    <3>1. Members(cr) \subseteq DOMAIN workloadList
      BY DEF Members
    <3>2. workloadList \in Seq(ServiceWorkloads)
      BY DEF JoinedInv
    <3>3. Members(cr) \subseteq Nat
      BY <3>1, <3>2
    <3>4. FirstOf(Members(cr)) \in DOMAIN workloadList
      BY <2>1, <3>1, <3>3, FirstIsThere
    <3>5. w \in ServiceWorkloads
      BY <3>2, <3>4
    <3> QED
      BY <2>1, <3>5 DEF ServiceWorkloads
  <2> QED
    BY <2>1
<1>2. covering \subseteq Names
  BY CoveringNames DEF JoinedInv
<1>3. OperatorInstance(cr) =
        [ns |-> cr.ns, name |-> cr.name, engine |-> Kinds[cr.kind].engine,
         kind |-> cr.kind, quorum |-> Kinds[cr.kind].quorum, source |-> "operator",
         workload |-> name, pdbs |-> covering, replicaWorkload |-> NoName]
  BY DEF OperatorInstance
<1> HIDE DEF name, covering
<1>4. /\ cr.ns \in Namespaces /\ cr.name \in Names /\ cr.kind \in DOMAIN Kinds
      /\ Kinds[cr.kind].quorum \in BOOLEAN
  BY ListsAssumption DEF CustomResources
<1>5. Kinds[cr.kind].engine \in {Kinds[k].engine : k \in DOMAIN Kinds}
  BY <1>4
<1> QED
  BY <1>1, <1>2, <1>3, <1>4, <1>5 DEF Instances

(* The types of the report follow.                                           *)
LEMMA JoinedTypes == JoinedInv => DataTypeOK
<1> SUFFICES ASSUME JoinedInv PROVE DataTypeOK
  OBVIOUS
<1>1. ASSUME NEW inst \in instances PROVE inst \in Instances
  <2>1. CASE \E i \in DOMAIN resources : inst = OperatorInstance(resources[i])
    <3>1. PICK i \in DOMAIN resources : inst = OperatorInstance(resources[i])
      BY <2>1
    <3>2. resources[i] \in CustomResources
      BY DEF JoinedInv
    <3> QED
      BY <3>1, <3>2, OperatorType
  <2>2. CASE inst \in imageInstances
    BY <2>2, ImageType DEF imageInstances
  <2> QED
    BY <2>1, <2>2 DEF JoinedInv
<1> QED
  BY <1>1 DEF JoinedInv, DataTypeOK

(* A replica is counted once: its own instance is folded away, and only the  *)
(* last master of its release carries it.                                    *)
LEMMA JoinedOnce == JoinedInv => CountedOnce
<1> SUFFICES ASSUME JoinedInv, NEW inst \in instances, inst.replicaWorkload # NoName
             PROVE  /\ \A other \in instances :
                          other.source = "image" /\ other.kind = "StatefulSet" =>
                          ~(other.ns = inst.ns /\ other.name = inst.replicaWorkload)
                    /\ \A other \in instances \ {inst} :
                          other.ns = inst.ns => other.replicaWorkload # inst.replicaWorkload
  BY DEF CountedOnce
<1>1. workloadList \in Seq(ServiceWorkloads) /\ ProperWorkloads(workloadList)
  BY DEF JoinedInv
<1>2. PICK i \in DOMAIN workloadList : IsInstance(i) /\ inst = ImageInstance(i)
  BY ImageOrigin
<1>3. PICK j : <<i, j>> \in bitnamiReplicas
  BY <1>1, <1>2, ReplicaInInstance
<1>4. /\ inst.replicaWorkload = workloadList[j].name /\ inst.ns = workloadList[j].ns
      /\ j \in DOMAIN workloadList /\ workloadList[j].kind = "StatefulSet"
  BY <1>1, <1>2, <1>3, ReplicaInInstance, ImageFields, PairsAreReleases DEF Released
<1>5. ASSUME NEW other \in instances, other.source = "image", other.kind = "StatefulSet",
             other.ns = inst.ns, other.name = inst.replicaWorkload
      PROVE  FALSE
  <2>1. PICK k \in DOMAIN workloadList : IsInstance(k) /\ other = ImageInstance(k)
    BY <1>5, ImageOrigin
  <2>2. k = j
    BY <1>1, <1>4, <1>5, <2>1, ImageFields DEF ProperWorkloads
  <2>3. Folded(j)
    BY <1>3 DEF Folded
  <2> QED
    BY <2>1, <2>2, <2>3 DEF IsInstance
<1>6. ASSUME NEW other \in instances \ {inst}, other.ns = inst.ns,
             other.replicaWorkload = inst.replicaWorkload
      PROVE  FALSE
  <2>1. PICK k \in DOMAIN workloadList : IsInstance(k) /\ other = ImageInstance(k)
    BY <1>6, ImageOrigin
  <2>2. PICK l : <<k, l>> \in bitnamiReplicas
    BY <1>1, <1>6, <2>1, ReplicaInInstance
  <2>3. /\ other.replicaWorkload = workloadList[l].name /\ other.ns = workloadList[l].ns
        /\ l \in DOMAIN workloadList /\ workloadList[l].kind = "StatefulSet"
    BY <1>1, <2>1, <2>2, ReplicaInInstance, ImageFields, PairsAreReleases DEF Released
  <2>4. l = j
    BY <1>1, <1>4, <1>6, <2>3 DEF ProperWorkloads
  <2>5. k = i
    BY <1>1, <1>3, <2>2, <2>4, PairsAreUnique
  <2> QED
    BY <1>2, <1>6, <2>1, <2>5
<1> QED
  BY <1>5, <1>6

(* A StatefulSet that runs a data service is skipped only as a replica.      *)
LEMMA ServicesAreInstances ==
    ASSUME JoinedInv, NEW i \in DOMAIN workloadList, ~Folded(i),
           workloadList[i].kind = "StatefulSet", workloadList[i].controller = NoName,
           NamesService(workloadList[i], Keywords)
    PROVE  IsInstance(i) /\ ImageInstance(i) \in imageInstances
<1>1. workloadList[i] \in ServiceWorkloads
  BY DEF JoinedInv
<1>2. EngineOf(workloadList[i]) \in Keywords
  BY <1>1, EngineIsKeyword
<1>3. EngineOf(workloadList[i]) # NoEngine
  BY <1>2, NoEngineAssumption
<1>4. IsInstance(i)
  BY <1>2, <1>3 DEF IsInstance, IsQuorum, Keywords
<1> QED
  BY <1>4 DEF imageInstances

(* No StatefulSet with a data service is missing from the report.            *)
LEMMA JoinedReports == JoinedInv => StatefulSetsAreReported
<1> SUFFICES ASSUME JoinedInv, pc = "done", NEW i \in DOMAIN workloadList,
                    workloadList[i].kind = "StatefulSet", workloadList[i].controller = NoName,
                    NamesService(workloadList[i], Keywords)
             PROVE  \/ ImageListed(workloadList[i])
                    \/ \E inst \in instances : /\ inst.ns = workloadList[i].ns
                                               /\ inst.replicaWorkload = workloadList[i].name
                    \/ /\ workloadList[i].component = "replica"
                       /\ \E m \in WorkloadSet :
                             /\ m.ns = workloadList[i].ns
                             /\ m.release = workloadList[i].release
                             /\ m.component = "master"
                             /\ ~NamesService(m, Keywords)
  BY DEF StatefulSetsAreReported, WorkloadSet, Range
<1>1. imageInstances \subseteq instances /\ workloadList \in Seq(ServiceWorkloads)
  BY DEF JoinedInv
<1>2. CASE ~Folded(i)
  <2>1. ImageInstance(i) \in instances
    BY <1>1, <1>2, ServicesAreInstances
  <2> QED
    BY <2>1, ImageFields DEF ImageListed
<1>3. CASE Folded(i)
  <2>1. PICK m : <<m, i>> \in bitnamiReplicas
    BY <1>3, FoldedInPair
  <2>2. /\ m \in DOMAIN workloadList /\ Released(workloadList[m])
        /\ workloadList[m].component = "master" /\ workloadList[i].component = "replica"
        /\ workloadList[m].ns = workloadList[i].ns
        /\ workloadList[m].release = workloadList[i].release
    BY <2>1, PairsAreReleases
  <2>3. CASE ~NamesService(workloadList[m], Keywords)
    <3>1. workloadList[m] \in WorkloadSet
      BY <2>2 DEF WorkloadSet, Range
    <3> QED
      BY <2>2, <2>3, <3>1
  <2>4. CASE NamesService(workloadList[m], Keywords)
    <3>1. ~Folded(m)
      <4> SUFFICES ASSUME Folded(m) PROVE FALSE
        OBVIOUS
      <4>1. PICK k : <<k, m>> \in bitnamiReplicas
        BY FoldedInPair
      <4>2. workloadList[m].component = "replica"
        BY <4>1, PairsAreReleases
      <4> QED
        BY <2>2, <4>2
    <3>2. ImageInstance(m) \in instances
      BY <1>1, <2>2, <2>4, <3>1, ServicesAreInstances DEF Released
    <3>3. ImageInstance(m).replicaWorkload = workloadList[i].name
      BY <1>1, <2>1, ReplicaInInstance
    <3> QED
      BY <2>2, <3>2, <3>3, ImageFields
  <2> QED
    BY <2>3, <2>4
<1> QED
  BY <1>2, <1>3

(* A leader is the only member of its resource, and so the first.            *)
LEMMA JoinedLeaders == JoinedInv => LeadersAreTheMembers
<1> SUFFICES ASSUME JoinedInv, pc = "done", NEW n \in DOMAIN resources,
                    Kinds[resources[n].kind].leader, NEW i \in DOMAIN workloadList,
                    workloadList[i].controller = resources[n].uid,
                    workloadList[i].kind = "StatefulSet", workloadList[i].leader
             PROVE  \E inst \in instances :
                        /\ inst.ns = resources[n].ns /\ inst.name = resources[n].name
                        /\ inst.kind = resources[n].kind
                        /\ inst.workload = workloadList[i].name
                        /\ inst.pdbs = coveringPDBs(workloadList[i].ns, workloadList[i].template)
  BY DEF LeadersAreTheMembers, WorkloadSet, Range
<1> DEFINE cr == resources[n]
<1>1. /\ workloadList \in Seq(ServiceWorkloads) /\ ProperWorkloads(workloadList)
      /\ cr \in CustomResources /\ OperatorInstance(cr) \in instances
  BY DEF JoinedInv
<1>2. cr.uid # NoName
  BY <1>1, NoNameAssumption DEF CustomResources
<1>3. Members(cr) = {i}
  <2>1. i \in Members(cr)
    BY DEF Members, Member
  <2>2. ASSUME NEW j \in Members(cr) PROVE j = i
    <3>1. /\ j \in DOMAIN workloadList /\ workloadList[j].kind = "StatefulSet"
          /\ workloadList[j].controller = cr.uid /\ workloadList[j].leader
      BY DEF Members, Member
    <3> QED
      BY <1>1, <1>2, <3>1 DEF ProperWorkloads
  <2> QED
    BY <2>1, <2>2
<1>4. i \in Nat
  BY <1>1
<1>5. FirstOf(Members(cr)) = i
  BY <1>3, <1>4, FirstIsThere
<1>6. /\ OperatorInstance(cr).ns = cr.ns /\ OperatorInstance(cr).name = cr.name
      /\ OperatorInstance(cr).kind = cr.kind
      /\ OperatorInstance(cr).workload = workloadList[i].name
      /\ OperatorInstance(cr).pdbs = coveringPDBs(workloadList[i].ns, workloadList[i].template)
  BY <1>3, <1>5 DEF OperatorInstance
<1> QED
  BY <1>1, <1>6

(* The join of the data services, over whatever the lists returned.          *)
LEMMA DataServicesJoined == DataSpec => []JoinedInv
<1>1. DataInit => JoinedInv
  BY ListsAssumption DEF DataInit, JoinedInv
<1>2. JoinedInv /\ [DataNext]_dataVars => JoinedInv'
  <2> SUFFICES ASSUME JoinedInv, [DataNext]_dataVars PROVE JoinedInv'
    OBVIOUS
  <2>1. workloadList' = workloadList /\ resources' = resources /\ budgets' = budgets
    BY DEF DataNext, JoinServices, dataVars
  <2>2. imageInstances' = imageInstances
    BY <2>1 DEF imageInstances, IsInstance, ImageInstance, Folded, ReplicaOf, bitnamiReplicas,
                LastOf, coveringPDBs
  <2>3. \A cr : OperatorInstance(cr)' = OperatorInstance(cr)
    BY <2>1 DEF OperatorInstance, Members, coveringPDBs
  <2>4. {OperatorInstance(resources[i]) : i \in DOMAIN resources}'
          = {OperatorInstance(resources[i]) : i \in DOMAIN resources}
    BY <2>1, <2>3
  <2>5. CASE JoinServices
    BY <2>1, <2>2, <2>4, <2>5 DEF JoinServices, JoinedInv
  <2>6. CASE UNCHANGED dataVars
    BY <2>1, <2>2, <2>4, <2>6 DEF dataVars, JoinedInv
  <2> QED
    BY <2>5, <2>6 DEF DataNext
<1> QED
  BY <1>1, <1>2, PTL DEF DataSpec

(* For any lists, in any order: no StatefulSet is counted twice, as an       *)
(* instance and as the replica of one, or as the replica of two.             *)
THEOREM ReplicasAreCountedOnce == DataSpec => []CountInv
<1>1. JoinedInv => CountInv
  BY JoinedTypes, JoinedOnce DEF CountInv
<1> QED
  BY <1>1, DataServicesJoined, PTL

(* For any lists, images and keywords: a StatefulSet that nobody controls    *)
(* and that runs a data service is in the report, unless it is the replica   *)
(* of a master that runs none.                                               *)
THEOREM NoServiceIsMissing == DataSpec => []StatefulSetsAreReported
  BY JoinedReports, DataServicesJoined, PTL

(* For any lists, in any order: the budgets of a clustered resource are      *)
(* those of the StatefulSet that holds its leaders.                          *)
THEOREM LeadersGiveTheBudgets == DataSpec => []LeadersAreTheMembers
  BY JoinedLeaders, DataServicesJoined, PTL

================================================================================
