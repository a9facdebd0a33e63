---------------------------- MODULE MCDisruptionAudit ----------------------------
(* Small instances of DisruptionAudit for TLC: one object of each kind that   *)
(* the audit treats in a way of its own.                                      *)
EXTENDS DisruptionAudit

CONSTANTS n1, n2, label, a, b, d, r, s, p1, p2, p3

PDB(ns, name, valid, selector) ==
    [ns |-> ns, name |-> name, valid |-> valid, selector |-> selector]

Pod(ns, name, labels, phase, deleting, ctlKind, ctlName) ==
    [ns |-> ns, name |-> name, labels |-> labels, phase |-> phase,
     deleting |-> deleting, ctlKind |-> ctlKind, ctlName |-> ctlName]

(* Budgets with an empty and a narrow selector, and one of the same name in   *)
(* another namespace.                                                         *)
SomePDBs == {PDB(n1, a, TRUE, {}), PDB(n1, b, TRUE, {label}), PDB(n2, a, TRUE, {})}

(* Pods of a ReplicaSet, of one of the same name in another namespace, of a   *)
(* StatefulSet and of nobody: running, going away and pending.                *)
SomePods == {Pod(n1, p1, {label}, "Running", FALSE, "ReplicaSet", r),
             Pod(n2, p1, {label}, "Running", FALSE, "ReplicaSet", r),
             Pod(n1, p2, {label}, "Running", TRUE, "StatefulSet", s),
             Pod(n1, p3, {label}, "Pending", FALSE, "none", NoName)}

SomeReplicaSets == {[ns |-> n1, name |-> r, deployment |-> d]}

SomeWorkloads == {[kind |-> "Deployment", ns |-> n1, name |-> d],
                  [kind |-> "StatefulSet", ns |-> n1, name |-> s]}

=================================================================================
