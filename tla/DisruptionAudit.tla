----------------------------- MODULE DisruptionAudit -----------------------------
(***************************************************************************)
(* handleDisruptionAudit of internal/mcp/audit.go while the cluster         *)
(* changes: lists in two groups of goroutines (errgroup), each at a time of *)
(* its own, then the join of PDBs, pods, ReplicaSets and workloads.  A list *)
(* is one step, for its pages are of one snapshot (see Listing).  The join  *)
(* of the data services is in DataServices; here their lists only succeed   *)
(* or fail, and so does the one of the namespaces' labels.                  *)
(***************************************************************************)
EXTENDS AuditObjects

CONSTANTS
    PDBObjects, PodObjects, ReplicaSetObjects, WorkloadObjects,  \* what may exist
    MaxChanges    \* bound on the changes of the cluster, for model checking

ASSUME ObjectsAssumption ==
    /\ PDBObjects \subseteq PDBs
    /\ PodObjects \subseteq Pods
    /\ ReplicaSetObjects \subseteq ReplicaSets
    /\ WorkloadObjects \subseteq Workloads
    /\ \A pod \in PodObjects : pod.ctlKind # "none" => pod.ctlName \in Names
    /\ MaxChanges \in Nat

VARIABLES
    pdbs, pods, replicaSets, workloads,   \* the cluster
    changes,       \* changes of the cluster so far
    moved,         \* it changed during the audit
    step,          \* where the audit is
    task,          \* the lists of the current group
    cancelled,     \* gctx of the current group is done
    seenPDBs, seenWorkloads, rsDeployment,   \* what the lists have returned
    owners,        \* auditPDB.owners: PDB -> controllers of its pods
    overlaps,      \* auditPDB.overlaps: PDB -> PDBs that select one of its pods
    anyFailed,     \* some list of this audit failed
    report         \* the pdbs of the result

cluster == <<pdbs, pods, replicaSets, workloads, changes, moved>>
vars == <<cluster, step, task, cancelled, seenPDBs, seenWorkloads, rsDeployment,
          owners, overlaps, anyFailed, report>>

(* Step 1 and step 2 of the handler.                                         *)
FirstLists == {"pdbs", "workloads", "namespaces", "dataServices"}
SecondLists == {"replicaSets", "pods"}
Lists == FirstLists \cup SecondLists

OwnerRefs == [kind : ControllerKinds \cup {"Pod"}, name : Names, apiVersion : BOOLEAN]

(* An auditOwner: which fields are set.                                      *)
AuditOwners ==
    [kind : ControllerKinds \cup WorkloadKinds \cup {"Pod"}, name : Names,
     replicas : BOOLEAN, apiVersion : BOOLEAN]

Entries == [pdb : PDBObjects, owners : SUBSET AuditOwners, overlapsWith : SUBSET Names]

TypeOK ==
    /\ pdbs \subseteq PDBObjects
    /\ pods \subseteq PodObjects
    /\ replicaSets \subseteq ReplicaSetObjects
    /\ workloads \subseteq WorkloadObjects
    /\ changes \in 0..MaxChanges
    /\ moved \in BOOLEAN
    /\ step \in {"idle", "first", "second", "join", "done", "error"}
    /\ task \in [Lists -> {"todo", "ok", "failed"}]
    /\ cancelled \in BOOLEAN
    /\ seenPDBs \subseteq PDBObjects
    /\ seenWorkloads \subseteq WorkloadObjects
    /\ rsDeployment \subseteq ReplicaSetObjects
    /\ owners \in [PDBObjects -> SUBSET OwnerRefs]
    /\ overlaps \in [PDBObjects -> SUBSET Names]
    /\ anyFailed \in BOOLEAN
    /\ \A e \in report : /\ e.pdb \in PDBObjects
                         /\ e.owners \subseteq AuditOwners
                         /\ e.overlapsWith \subseteq Names

Init ==
    /\ pdbs \in {s \in SUBSET PDBObjects : UniqueNames(s)}
    /\ pods \in {s \in SUBSET PodObjects : UniqueNames(s)}
    /\ replicaSets \in {s \in SUBSET ReplicaSetObjects : UniqueNames(s)}
    /\ workloads \in SUBSET WorkloadObjects
    /\ changes = 0
    /\ moved = FALSE
    /\ step = "idle"
    /\ task = [l \in Lists |-> "todo"]
    /\ cancelled = FALSE
    /\ seenPDBs = {}
    /\ seenWorkloads = {}
    /\ rsDeployment = {}
    /\ owners = [p \in PDBObjects |-> {}]
    /\ overlaps = [p \in PDBObjects |-> {}]
    /\ anyFailed = FALSE
    /\ report = {}

Begin ==
    /\ step = "idle"
    /\ step' = "first"
    /\ moved' = FALSE
    /\ UNCHANGED <<pdbs, pods, replicaSets, workloads, changes, task, cancelled,
                   seenPDBs, seenWorkloads, rsDeployment, owners, overlaps,
                   anyFailed, report>>

--------------------------------------------------------------------------------
(* The lists.                                                                *)

Running(l) ==
    /\ task[l] = "todo"
    /\ step = IF l \in FirstLists THEN "first" ELSE "second"

Listed(l) ==
    /\ Running(l) /\ ~cancelled
    /\ task' = [task EXCEPT ![l] = "ok"]
    /\ UNCHANGED <<cluster, step, cancelled, anyFailed, report>>

listPDBs ==
    /\ Listed("pdbs")
    /\ seenPDBs' = pdbs
    /\ UNCHANGED <<seenWorkloads, rsDeployment, owners, overlaps>>

listAuditWorkloads ==
    /\ Listed("workloads")
    /\ seenWorkloads' = workloads
    /\ UNCHANGED <<seenPDBs, rsDeployment, owners, overlaps>>

(* The namespaces' labels, and the custom resources of the data services.    *)
listTheRest ==
    /\ \E l \in {"namespaces", "dataServices"} : Listed(l)
    /\ UNCHANGED <<seenPDBs, seenWorkloads, rsDeployment, owners, overlaps>>

(* byNS                                                                      *)
InNamespace(ns) == {p \in seenPDBs : p.ns = ns}

(* Only ReplicaSets of a Deployment, in namespaces that have a PDB.          *)
listReplicaSetDeployments ==
    /\ Listed("replicaSets")
    /\ rsDeployment' = {rs \in replicaSets :
                           InNamespace(rs.ns) # {} /\ rs.deployment # NoName}
    /\ UNCHANGED <<seenPDBs, seenWorkloads, owners, overlaps>>

Finished(pod) == pod.phase \in {"Succeeded", "Failed"}

Matched(pod) == {p \in InNamespace(pod.ns) : Matches(p, pod.labels)}

(* Eviction looks at no PDB of a pending or a deleting pod.                  *)
Evictable(pod) == pod.phase # "Pending" /\ ~pod.deleting

(* The controller of a pod, or the pod itself.                               *)
Ref(pod) ==
    IF pod.ctlKind = "none"
    THEN [kind |-> "Pod", name |-> pod.name, apiVersion |-> FALSE]
    ELSE [kind |-> pod.ctlKind, name |-> pod.ctlName, apiVersion |-> TRUE]

(* Faulty variant: only one of two PDBs is told of the other.                *)
FaultyHalf(p, pod) ==
    IF Evictable(pod) /\ p = CHOOSE q \in Matched(pod) : TRUE
    THEN {q.name : q \in Matched(pod) \ {p}} ELSE {}

(* The PDBs that pod makes p overlap with.                                   *)
Overlapping(p, pod) ==
    IF Evictable(pod) THEN {q.name : q \in Matched(pod) \ {p}} ELSE {}

scanPods ==
    /\ Listed("pods")
    /\ LET guarded(p) == {pod \in pods : ~Finished(pod) /\ p \in Matched(pod)} IN
       /\ owners' = [p \in PDBObjects |-> {Ref(pod) : pod \in guarded(p)}]
       /\ overlaps' = [p \in PDBObjects |->
                          UNION {Overlapping(p, pod) : pod \in guarded(p)}]
    /\ UNCHANGED <<seenPDBs, seenWorkloads, rsDeployment>>

(* A list fails, of itself or because gctx is done: the others are cancelled. *)
ListFails(l) ==
    /\ Running(l)
    /\ task' = [task EXCEPT ![l] = "failed"]
    /\ cancelled' = TRUE
    /\ anyFailed' = TRUE
    /\ UNCHANGED <<cluster, step, seenPDBs, seenWorkloads, rsDeployment, owners,
                   overlaps, report>>

(* Faulty variant: the error of the group is ignored.                        *)
FaultyAfter(lists, next) ==
    /\ \A l \in lists : task[l] # "todo"
    /\ step' = next

(* Faulty variant: the group is waited for until every list has succeeded.   *)
FaultyWait(lists, next) ==
    /\ \A l \in lists : task[l] = "ok"
    /\ step' = next

(* g.Wait: every list has ended; the audit fails if one did.                 *)
After(lists, next) ==
    /\ \A l \in lists : task[l] # "todo"
    /\ step' = IF \E l \in lists : task[l] = "failed" THEN "error" ELSE next

Wait ==
    /\ \/ step = "first" /\ After(FirstLists, "second")
       \/ step = "second" /\ After(SecondLists, "join")
    /\ UNCHANGED <<cluster, task, cancelled, seenPDBs, seenWorkloads, rsDeployment,
                   owners, overlaps, anyFailed, report>>

--------------------------------------------------------------------------------
(* The join.                                                                 *)

(* Faulty variant: a ReplicaSet is looked up by its name alone.              *)
FaultyResolve(ns, ref) ==
    LET rs == {r \in rsDeployment : ref.kind = "ReplicaSet" /\ r.name = ref.name}
        kind == IF rs # {} THEN "Deployment" ELSE ref.kind
        name == IF rs # {} THEN (CHOOSE r \in rs : TRUE).deployment ELSE ref.name
        known == \E w \in seenWorkloads : w.kind = kind /\ w.ns = ns /\ w.name = name
    IN [kind |-> kind, name |-> name, replicas |-> known,
        apiVersion |-> ~known /\ ref.apiVersion]

(* resolveOwners for one reference: a ReplicaSet becomes its Deployment, and *)
(* a workload that was listed brings its fields.                             *)
Resolve(ns, ref) ==
    LET rs == {r \in rsDeployment :
                  ref.kind = "ReplicaSet" /\ r.ns = ns /\ r.name = ref.name}
        kind == IF rs # {} THEN "Deployment" ELSE ref.kind
        name == IF rs # {} THEN (CHOOSE r \in rs : TRUE).deployment ELSE ref.name
        known == \E w \in seenWorkloads : w.kind = kind /\ w.ns = ns /\ w.name = name
    IN [kind |-> kind, name |-> name, replicas |-> known,
        apiVersion |-> ~known /\ ref.apiVersion]

Join ==
    /\ step = "join"
    /\ step' = "done"
    /\ report' = {[pdb |-> p,
                   owners |-> {Resolve(p.ns, ref) : ref \in owners[p]},
                   overlapsWith |-> overlaps[p]] : p \in seenPDBs}
    /\ UNCHANGED <<cluster, task, cancelled, seenPDBs, seenWorkloads, rsDeployment,
                   owners, overlaps, anyFailed>>

Return ==
    /\ step \in {"done", "error"}
    /\ step' = "idle"
    /\ task' = [l \in Lists |-> "todo"]
    /\ cancelled' = FALSE
    /\ seenPDBs' = {}
    /\ seenWorkloads' = {}
    /\ rsDeployment' = {}
    /\ owners' = [p \in PDBObjects |-> {}]
    /\ overlaps' = [p \in PDBObjects |-> {}]
    /\ anyFailed' = FALSE
    /\ report' = {}
    /\ UNCHANGED cluster

List ==
    \/ listPDBs \/ listAuditWorkloads \/ listTheRest
    \/ listReplicaSetDeployments \/ scanPods
    \/ \E l \in Lists : ListFails(l)

handleDisruptionAudit ==
    \/ Begin
    \/ List
    \/ Wait \/ Join \/ Return

--------------------------------------------------------------------------------
(* Someone else creates or deletes an object.                                *)

Toggle(objects, o) == IF o \in objects THEN objects \ {o} ELSE objects \cup {o}

Change ==
    /\ changes < MaxChanges
    /\ changes' = changes + 1
    /\ moved' = (step # "idle")
    /\ \/ /\ \E o \in PDBObjects : pdbs' = Toggle(pdbs, o) /\ UniqueNames(pdbs')
          /\ UNCHANGED <<pods, replicaSets, workloads>>
       \/ /\ \E o \in PodObjects : pods' = Toggle(pods, o) /\ UniqueNames(pods')
          /\ UNCHANGED <<pdbs, replicaSets, workloads>>
       \/ /\ \E o \in ReplicaSetObjects :
                replicaSets' = Toggle(replicaSets, o) /\ UniqueNames(replicaSets')
          /\ UNCHANGED <<pdbs, pods, workloads>>
       \/ /\ \E o \in WorkloadObjects : workloads' = Toggle(workloads, o)
          /\ UNCHANGED <<pdbs, pods, replicaSets>>
    /\ UNCHANGED <<step, task, cancelled, seenPDBs, seenWorkloads, rsDeployment,
                   owners, overlaps, anyFailed, report>>

Next == handleDisruptionAudit \/ Change

Spec == Init /\ [][Next]_vars

(* The goroutines run, and a list ends with its answer or with K8S_TIMEOUT.  *)
Fairness ==
    /\ WF_vars(List)
    /\ WF_vars(Wait)
    /\ WF_vars(Join)

FairSpec == Spec /\ Fairness

--------------------------------------------------------------------------------
(* The facts of the README, read off the cluster.                            *)

Selects(p, pod) ==
    /\ pod.ns = p.ns
    /\ p.valid
    /\ \A label \in p.selector : label \in pod.labels

(* "the controllers of the selected pods, with ReplicaSets resolved to their *)
(* Deployment": w is the controller of pod, or that of its ReplicaSet.       *)
IsController(o, pod) ==
    \/ o.kind = "Pod" /\ pod.ctlKind = "none" /\ o.name = pod.name
    \/ \E rs \in replicaSets :
          /\ pod.ctlKind = "ReplicaSet" /\ pod.ctlName = rs.name /\ pod.ns = rs.ns
          /\ rs.deployment # NoName
          /\ o.kind = "Deployment" /\ o.name = rs.deployment
    \/ /\ o.kind = pod.ctlKind /\ o.name = pod.ctlName
       /\ ~\E rs \in replicaSets :
             /\ pod.ctlKind = "ReplicaSet" /\ pod.ctlName = rs.name /\ pod.ns = rs.ns
             /\ rs.deployment # NoName

(* A report on a cluster that stood still is exact: it has every PDB, its    *)
(* owners are the controllers of its unfinished pods and no others, with     *)
(* replicas where the workload exists, and it overlaps with exactly the PDBs *)
(* that select one of its running pods that is not going away.               *)
QuietReportIsExact ==
    step = "done" /\ ~moved =>
        /\ {e.pdb : e \in report} = pdbs
        /\ \A e \in report :
              LET guarded == {pod \in pods : Selects(e.pdb, pod) /\ ~Finished(pod)} IN
              /\ \A pod \in guarded : \E o \in e.owners : IsController(o, pod)
              /\ \A o \in e.owners : \E pod \in guarded : IsController(o, pod)
              /\ \A o \in e.owners : o.replicas <=>
                    [kind |-> o.kind, ns |-> e.pdb.ns, name |-> o.name] \in workloads
              /\ e.overlapsWith =
                    {q.name : q \in {q \in pdbs \ {e.pdb} : \E pod \in guarded :
                                        Selects(q, pod) /\ pod.phase = "Running"
                                                        /\ ~pod.deleting}}

(* The state of the audit: its types, and what a quiet report says.          *)
AuditInv == TypeOK /\ QuietReportIsExact

(* "Any other list error, including a forbidden one, fails the call: a       *)
(* partial inventory would read as nothing wrong."                           *)
NoPartialReport == step = "done" => ~anyFailed

(* Overlap is mutual and within a namespace, whatever changed between the     *)
(* lists: if one budget is reported to overlap with another, so is the other *)
(* with the one, and both are in the report.                                 *)
OverlapsAreMutual ==
    \A e \in report : \A n \in e.overlapsWith :
        \E f \in report :
            /\ f.pdb.ns = e.pdb.ns /\ f.pdb.name = n /\ f # e
            /\ e.pdb.name \in f.overlapsWith

(* Every audit ends, with a report or an error.                              *)
EveryAuditEnds == step = "first" ~> step \in {"done", "error"}

================================================================================
