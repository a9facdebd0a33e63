------------------------------ MODULE AuditObjects ------------------------------
(***************************************************************************)
(* What the disruption audit of internal/mcp/audit.go knows of the          *)
(* cluster's objects: PodDisruptionBudgets with their label selectors,      *)
(* pods with their controllers, ReplicaSets, Deployments and StatefulSets.  *)
(* Labels are sets; a selector is the set of labels it requires.            *)
(***************************************************************************)
EXTENDS Integers

CONSTANTS
    Namespaces,
    Labels,
    Names,       \* names of objects
    NoName       \* the name of what is not there

ASSUME NoNameAssumption == NoName \notin Names

WorkloadKinds == {"Deployment", "StatefulSet"}

(* Of the controllers of pods, the other kinds (Job, DaemonSet, a CR of an   *)
(* operator) are one; a pod without a controller is its own owner.           *)
ControllerKinds == {"ReplicaSet", "StatefulSet", "Job"}

PDBs == [ns : Namespaces, name : Names, valid : BOOLEAN, selector : SUBSET Labels]

Pods == [ns : Namespaces, name : Names, labels : SUBSET Labels,
         phase : {"Pending", "Running", "Succeeded", "Failed"}, deleting : BOOLEAN,
         ctlKind : ControllerKinds \cup {"none"}, ctlName : Names \cup {NoName}]

ReplicaSets == [ns : Namespaces, name : Names, deployment : Names \cup {NoName}]

Workloads == [kind : WorkloadKinds, ns : Namespaces, name : Names]

(* No two objects of a kind have one name in one namespace.                  *)
UniqueNames(objects) ==
    \A x, y \in objects : x.ns = y.ns /\ x.name = y.name => x = y

(* Faulty variant: an empty selector matches nothing.                        *)
FaultyMatches(p, labels) ==
    p.valid /\ p.selector # {} /\ p.selector \subseteq labels

(* "Match like eviction does: a missing or invalid selector matches nothing, *)
(* an empty one matches every pod in the namespace."                         *)
Matches(p, labels) == p.valid /\ p.selector \subseteq labels

================================================================================
