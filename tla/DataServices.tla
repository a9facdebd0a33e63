------------------------------- MODULE DataServices -------------------------------
(***************************************************************************)
(* The data services of the disruption audit (internal/mcp/audit.go): which *)
(* instances of RabbitMQ, Redis and quorum systems are reported, from the   *)
(* custom resources of operators and from the images of workloads that no   *)
(* operator manages.  The inputs are what the lists returned, in the order  *)
(* of the lists; the sort of the result and the sizes are left out.         *)
(*                                                                          *)
(* An image stands for its imageName: the keywords it contains, and whether *)
(* it contains "exporter".                                                  *)
(***************************************************************************)
EXTENDS AuditObjects, Sequences, SequencesExt

CONSTANTS
    CacheEngines,   \* cacheEngines: a sequence of keywords
    QuorumImages,   \* defaultQuorumImages, or the quorum_images argument
    Length,         \* the length of each keyword
    Kinds,          \* dataServiceKinds: name -> [engine, quorum, leader]
    Releases,       \* Helm releases: values of labelAppName and labelInstance
    WorkloadLists,  \* lists of workloads to audit
    ResourceLists,  \* lists of custom resources to audit
    BudgetSets      \* sets of PDBs to audit

Keywords == Range(CacheEngines) \cup Range(QuorumImages)

ASSUME KeywordsAssumption ==
    /\ CacheEngines \in Seq(Range(CacheEngines))
    /\ QuorumImages \in Seq(Range(QuorumImages))
    /\ Length \in [Keywords -> Nat \ {0}]

NoEngine == "none"
ASSUME NoEngineAssumption == NoEngine \notin Keywords

Images == [has : SUBSET Keywords, exporter : BOOLEAN]

(* A Deployment or StatefulSet: controller is the UID of the custom resource *)
(* that controls it, leader whether its name is that one's with "-leader".   *)
ServiceWorkloads ==
    [kind : WorkloadKinds, ns : Namespaces, name : Names, images : Seq(Images),
     release : Releases \cup {NoName}, component : {"none", "master", "replica"},
     template : SUBSET Labels, controller : Names \cup {NoName}, leader : BOOLEAN]

CustomResources == [ns : Namespaces, name : Names, uid : Names, kind : DOMAIN Kinds]

(* What the API server keeps apart: two workloads of a kind have different   *)
(* names in a namespace, and of the StatefulSets that one resource controls  *)
(* only one can have the name that makes it the leader.                      *)
ProperWorkloads(list) ==
    \A i, j \in DOMAIN list :
        \/ list[i].kind = list[j].kind /\ list[i].ns = list[j].ns /\ list[i].name = list[j].name
        \/ /\ list[i].kind = "StatefulSet" /\ list[j].kind = "StatefulSet"
           /\ list[i].controller = list[j].controller /\ list[i].controller # NoName
           /\ list[i].leader /\ list[j].leader
        => i = j

ASSUME ListsAssumption ==
    /\ WorkloadLists \subseteq Seq(ServiceWorkloads)
    /\ \A list \in WorkloadLists : ProperWorkloads(list)
    /\ ResourceLists \subseteq Seq(CustomResources)
    /\ \A budgetSet \in BudgetSets : budgetSet \subseteq PDBs
    /\ \A k \in DOMAIN Kinds : Kinds[k].quorum \in BOOLEAN /\ Kinds[k].leader \in BOOLEAN

VARIABLES
    workloadList, resources, budgets,   \* what the lists returned
    pc,
    instances                           \* the instances of the report

dataVars == <<workloadList, resources, budgets, pc, instances>>

Instances ==
    [ns : Namespaces, name : Names, engine : Keywords \cup {Kinds[k].engine : k \in DOMAIN Kinds},
     kind : WorkloadKinds \cup DOMAIN Kinds, workload : Names \cup {NoName},
     quorum : BOOLEAN, source : {"operator", "image"}, pdbs : SUBSET Names,
     replicaWorkload : Names \cup {NoName}]

DataTypeOK ==
    /\ workloadList \in Seq(ServiceWorkloads)
    /\ resources \in Seq(CustomResources)
    /\ budgets \subseteq PDBs
    /\ pc \in {"join", "done"}
    /\ instances \subseteq Instances

DataInit ==
    /\ workloadList \in WorkloadLists
    /\ resources \in ResourceLists
    /\ budgets \in BudgetSets
    /\ pc = "join"
    /\ instances = {}

--------------------------------------------------------------------------------
(* coveringPDBs: by the labels of the pod template.                          *)
coveringPDBs(ns, template) ==
    {p.name : p \in {p \in budgets : p.ns = ns /\ Matches(p, template)}}

(* Where an image that is no exporter contains a keyword: the pairs of their *)
(* indices.                                                                  *)
Hits(images, keywords) ==
    {h \in (DOMAIN images) \X (DOMAIN keywords) :
        ~images[h[1]].exporter /\ keywords[h[2]] \in images[h[1]].has}

(* A longer keyword replaces the best so far; one as long does not, so of    *)
(* those the loops over images and keywords keep the first.                  *)
Beats(h, g, keywords) ==
    \/ Length[keywords[h[2]]] > Length[keywords[g[2]]]
    \/ /\ Length[keywords[h[2]]] = Length[keywords[g[2]]]
       /\ h[1] < g[1] \/ (h[1] = g[1] /\ h[2] < g[2])

IsBest(h, hits, keywords) == \A g \in hits : ~Beats(g, h, keywords)

BestOf(hits, keywords) ==
    IF hits = {} THEN NoEngine
    ELSE keywords[(CHOOSE h \in hits : IsBest(h, hits, keywords))[2]]

(* Faulty variant: an exporter next to it hides a data service.              *)
FaultyDetectEngine(images, keywords) ==
    IF \E i \in DOMAIN images : images[i].exporter THEN NoEngine
    ELSE BestOf(Hits(images, keywords), keywords)

(* detectEngine: the longest keyword of the images that are no exporters.    *)
detectEngine(images, keywords) == BestOf(Hits(images, keywords), keywords)

(* release: the Helm release of a StatefulSet that nobody controls.          *)
Released(w) ==
    w.kind = "StatefulSet" /\ w.controller = NoName /\ w.release # NoName

IsPart(w, ns, release, component) ==
    Released(w) /\ w.component = component /\ w.ns = ns /\ w.release = release

(* The last StatefulSet in the list that has this part of the release.       *)
LastOf(ns, release, component) ==
    {i \in DOMAIN workloadList :
        /\ IsPart(workloadList[i], ns, release, component)
        /\ \A j \in DOMAIN workloadList :
              IsPart(workloadList[j], ns, release, component) => j <= i}

(* bitnamiReplicas: pairs of a release's master and its replica, by index.   *)
bitnamiReplicas ==
    UNION {LastOf(ns, release, "master") \X LastOf(ns, release, "replica") :
              ns \in Namespaces, release \in Releases}

(* Faulty variant: replicas are not left out.                                *)
FaultyFolded(i) == FALSE

Folded(i) == \E pair \in bitnamiReplicas : pair[2] = i

EngineOf(w) == detectEngine(w.images, CacheEngines \o QuorumImages)

IsQuorum(w) == w.kind = "StatefulSet" /\ EngineOf(w) \in Range(QuorumImages)

(* The workloads that imageInstances does not skip.                          *)
IsInstance(i) ==
    LET w == workloadList[i]
    IN /\ w.controller = NoName /\ ~Folded(i)
       /\ EngineOf(w) # NoEngine
       /\ IsQuorum(w) \/ EngineOf(w) \in Range(CacheEngines)

ReplicaOf(i) == {j \in DOMAIN workloadList : <<i, j>> \in bitnamiReplicas}

ImageInstance(i) ==
    LET w == workloadList[i]
    IN [ns |-> w.ns, name |-> w.name, engine |-> EngineOf(w), kind |-> w.kind,
        workload |-> NoName, quorum |-> IsQuorum(w), source |-> "image",
        pdbs |-> coveringPDBs(w.ns, w.template),
        replicaWorkload |-> IF ReplicaOf(i) = {} THEN NoName
                            ELSE workloadList[CHOOSE j \in ReplicaOf(i) : TRUE].name]

imageInstances == {ImageInstance(i) : i \in {i \in DOMAIN workloadList : IsInstance(i)}}

(* Faulty variant: the first StatefulSet that a resource owns will do.       *)
FaultyMember(cr, w) ==
    w.kind = "StatefulSet" /\ w.controller = cr.uid

(* The StatefulSet is owned by the resource, and holds its members.          *)
Member(cr, w) ==
    /\ w.kind = "StatefulSet" /\ w.controller = cr.uid
    /\ Kinds[cr.kind].leader => w.leader

Members(cr) == {i \in DOMAIN workloadList : Member(cr, workloadList[i])}

FirstOf(indices) == CHOOSE i \in indices : \A j \in indices : i <= j

(* The instance of one custom resource: its first such StatefulSet gives the *)
(* PDBs; without one it is reported without.                                 *)
OperatorInstance(cr) ==
    LET w == workloadList[FirstOf(Members(cr))]
    IN [ns |-> cr.ns, name |-> cr.name, engine |-> Kinds[cr.kind].engine,
        kind |-> cr.kind, quorum |-> Kinds[cr.kind].quorum, source |-> "operator",
        workload |-> IF Members(cr) = {} THEN NoName ELSE w.name,
        pdbs |-> IF Members(cr) = {} THEN {} ELSE coveringPDBs(w.ns, w.template),
        replicaWorkload |-> NoName]

JoinServices ==
    /\ pc = "join"
    /\ pc' = "done"
    /\ instances' = {OperatorInstance(resources[i]) : i \in DOMAIN resources}
                        \cup imageInstances
    /\ UNCHANGED <<workloadList, resources, budgets>>

DataNext == JoinServices

DataSpec == DataInit /\ [][DataNext]_dataVars

--------------------------------------------------------------------------------
ImageListed(w) ==
    \E inst \in instances :
        /\ inst.source = "image"
        /\ inst.ns = w.ns /\ inst.name = w.name /\ inst.kind = w.kind

(* A data service image: one that names a keyword and is no exporter.        *)
NamesService(w, keywords) ==
    \E i \in DOMAIN w.images : ~w.images[i].exporter /\ w.images[i].has \cap keywords # {}

WorkloadSet == Range(workloadList)

(* No StatefulSet is counted twice: one that is reported as the replica of a *)
(* master is not reported as an instance, and it has one master.             *)
CountedOnce ==
    \A inst \in {x \in instances : x.replicaWorkload # NoName} :
        /\ \A other \in instances : other.source = "image" /\ other.kind = "StatefulSet" =>
              ~(other.ns = inst.ns /\ other.name = inst.replicaWorkload)
        /\ \A other \in instances \ {inst} :
              other.ns = inst.ns => other.replicaWorkload # inst.replicaWorkload

(* The state of the report: its types, and replicas that are counted once.   *)
CountInv == DataTypeOK /\ CountedOnce

(* A StatefulSet that nobody controls and that runs a data service is in the  *)
(* report, as an instance or as the replica of one, unless it is the replica *)
(* of a master without a data service: sidecars and exporters do not hide it. *)
StatefulSetsAreReported ==
    pc = "done" =>
        \A w \in {x \in WorkloadSet : x.kind = "StatefulSet" /\ x.controller = NoName
                                      /\ NamesService(x, Keywords)} :
            \/ ImageListed(w)
            \/ \E inst \in instances : inst.ns = w.ns /\ inst.replicaWorkload = w.name
            \/ /\ w.component = "replica"
               /\ \E m \in WorkloadSet :
                     /\ m.ns = w.ns /\ m.release = w.release /\ m.component = "master"
                     /\ ~NamesService(m, Keywords)

(* The PDBs of a Redis cluster are those of its leaders: wherever the leader  *)
(* StatefulSet stands in the list, it is the workload of the instance.       *)
LeadersAreTheMembers ==
    pc = "done" =>
        \A cr \in {x \in Range(resources) : Kinds[x.kind].leader} :
            \A w \in WorkloadSet :
                w.controller = cr.uid /\ w.kind = "StatefulSet" /\ w.leader =>
                    \E inst \in instances :
                        /\ inst.ns = cr.ns /\ inst.name = cr.name /\ inst.kind = cr.kind
                        /\ inst.workload = w.name
                        /\ inst.pdbs = coveringPDBs(w.ns, w.template)

================================================================================
