--------------------------------- MODULE Listing ---------------------------------
(***************************************************************************)
(* Paged cluster-wide lists: ListPages and ListCustom of internal/k8s/      *)
(* list.go, while objects come and go and the cluster changes which         *)
(* versions of a custom resource it serves.  The API server answers the     *)
(* first page from the objects of that moment and the pages after it from   *)
(* the same snapshot, which the continue token names.                       *)
(***************************************************************************)
EXTENDS Integers, Sequences, FiniteSets

CONSTANTS
    Versions,    \* the versions to try, in order
    Objects,     \* the objects that may exist
    PageSize,    \* opts.Limit
    MaxChanges   \* bound on the changes of the cluster, for model checking

VersionSet == {Versions[i] : i \in DOMAIN Versions}

ASSUME PageAssumption == PageSize \in Nat \ {0}
ASSUME VersionsAssumption ==
    /\ Versions \in Seq(VersionSet) /\ Versions # <<>>
    /\ \A i, j \in DOMAIN Versions : Versions[i] = Versions[j] => i = j
ASSUME ObjectsAssumption == IsFiniteSet(Objects)
ASSUME ChangesAssumption == MaxChanges \in Nat

VARIABLES
    served,     \* versions the cluster serves; none: the CRD is not installed
    objects,    \* the objects of the cluster
    pc,         \* the call
    v,          \* index of the version it lists
    token,      \* what is left of its snapshot: opts.Continue; <<>>: first page
    got,        \* what each has been called with: [object, version]
    changes,    \* changes of the cluster so far
    stable,     \* objects that have been there since the call began
    moved       \* the served versions changed during the call

vars == <<served, objects, pc, v, token, got, changes, stable, moved>>

Delivery == [object : Objects, version : VersionSet]

TypeOK ==
    /\ served \subseteq VersionSet
    /\ objects \subseteq Objects
    /\ pc \in {"idle", "list", "installed", "notInstalled", "error"}
    /\ v \in 1..Len(Versions)
    /\ token = <<>> \/ \E left \in SUBSET Objects : left # {} /\ token = <<left>>
    /\ got \in Seq(Delivery)
    /\ changes \in 0..MaxChanges
    /\ stable \subseteq objects
    /\ moved \in BOOLEAN

Init ==
    /\ served \in SUBSET VersionSet
    /\ objects \in SUBSET Objects
    /\ served = {} => objects = {}
    /\ pc = "idle"
    /\ v = 1
    /\ token = <<>>
    /\ got = <<>>
    /\ changes = 0
    /\ stable = {}
    /\ moved = FALSE

cluster == <<served, objects, changes>>
ghosts == <<stable, moved>>

(* ListCustom is called.                                                     *)
Call ==
    /\ pc = "idle"
    /\ pc' = "list"
    /\ v' = 1
    /\ token' = <<>>
    /\ got' = <<>>
    /\ stable' = objects
    /\ moved' = FALSE
    /\ UNCHANGED cluster

(* The items still to come: all of them for a first page, else what is left  *)
(* of the snapshot.                                                          *)
Pending == IF token = <<>> THEN objects ELSE token[1]

(* A page holds PageSize items, the last one what is left.                   *)
Pages ==
    {page \in SUBSET Pending :
        Cardinality(page) = IF Cardinality(Pending) < PageSize
                            THEN Cardinality(Pending) ELSE PageSize}

(* The order of the items within a page is the server's.                     *)
Orders(page) ==
    {order \in [1..Cardinality(page) -> page] :
        \A i, j \in DOMAIN order : order[i] = order[j] => i = j}

(* Faulty variant: a page that is full is taken for the last one.            *)
FaultyFollow(left) ==
    /\ pc' = "installed"
    /\ token' = <<>>

(* Faulty variant: opts.Continue is not set.                                 *)
FaultyContinue(left) ==
    IF left = {}
    THEN /\ pc' = "installed" /\ token' = <<>>
    ELSE /\ pc' = "list" /\ token' = <<>>

(* ListPages goes on while there is a continue token.                        *)
Follow(left) ==
    IF left = {}
    THEN /\ pc' = "installed" /\ token' = <<>>
    ELSE /\ pc' = "list" /\ token' = <<left>>

(* A page arrives, and each is called with its items.                        *)
Page ==
    /\ pc = "list"
    /\ Versions[v] \in served
    /\ \E page \in Pages :
          /\ \E order \in Orders(page) :
                got' = got \o [i \in DOMAIN order |->
                                  [object |-> order[i], version |-> Versions[v]]]
          /\ Follow(Pending \ page)
    /\ UNCHANGED <<cluster, v, ghosts>>

(* Faulty variant: only the first version is tried.                          *)
FaultyNotFound ==
    /\ pc = "list"
    /\ Versions[v] \notin served
    /\ token' = <<>>
    /\ pc' = "notInstalled"
    /\ UNCHANGED <<cluster, v, got, ghosts>>

(* Faulty variant: after the last version the first is tried again.          *)
FaultyRetry ==
    /\ pc = "list"
    /\ Versions[v] \notin served
    /\ token' = <<>>
    /\ v' = IF v = Len(Versions) THEN 1 ELSE v + 1
    /\ UNCHANGED <<cluster, pc, got, ghosts>>

(* The version is not served: NotFound, on whatever page, and the next one   *)
(* is listed from its start.                                                 *)
NotFound ==
    /\ pc = "list"
    /\ Versions[v] \notin served
    /\ token' = <<>>
    /\ IF v = Len(Versions)
       THEN pc' = "notInstalled" /\ UNCHANGED v
       ELSE v' = v + 1 /\ UNCHANGED pc
    /\ UNCHANGED <<cluster, got, ghosts>>

(* Any other error, an expired token included, ends the call.                *)
ListFails ==
    /\ pc = "list"
    /\ pc' = "error"
    /\ UNCHANGED <<cluster, v, token, got, ghosts>>

Return ==
    /\ pc \in {"installed", "notInstalled", "error"}
    /\ pc' = "idle"
    /\ v' = 1
    /\ token' = <<>>
    /\ got' = <<>>
    /\ stable' = {}
    /\ moved' = FALSE
    /\ UNCHANGED cluster

ListCustom == Call \/ Page \/ NotFound \/ ListFails \/ Return

--------------------------------------------------------------------------------
(* The cluster.                                                              *)

Change ==
    /\ changes < MaxChanges
    /\ changes' = changes + 1
    /\ UNCHANGED <<pc, v, token, got>>

Running == pc # "idle"

Create(o) ==
    /\ Change
    /\ served # {}
    /\ objects' = objects \cup {o}
    /\ UNCHANGED <<served, stable, moved>>

Delete(o) ==
    /\ Change
    /\ objects' = objects \ {o}
    /\ stable' = stable \ {o}
    /\ UNCHANGED <<served, moved>>

(* The CRD is installed, changes its served versions, or is removed with all *)
(* its objects.                                                              *)
ChangeCRD(new) ==
    /\ Change
    /\ new # served
    /\ served' = new
    /\ objects' = IF new = {} THEN {} ELSE objects
    /\ stable' = IF new = {} THEN {} ELSE stable
    /\ moved' = Running

Cluster ==
    \/ \E o \in Objects : Create(o) \/ Delete(o)
    \/ \E new \in SUBSET VersionSet : ChangeCRD(new)

Next == ListCustom \/ Cluster

Spec == Init /\ [][Next]_vars

(* A request is answered, or fails with K8S_TIMEOUT.                         *)
Fairness == WF_vars(Page \/ NotFound \/ ListFails)

FairSpec == Spec /\ Fairness

--------------------------------------------------------------------------------
Delivered == {got[i].object : i \in DOMAIN got}

(* "large lists are never cut short": when the list is complete, every object *)
(* that was there all along has been handed over, whatever came and went     *)
(* between two pages.                                                        *)
NeverCutShort == pc = "installed" => stable \subseteq Delivered

(* The pages of one version do not overlap: no object is handed over twice in *)
(* the same version.                                                         *)
OncePerVersion == \A i, j \in DOMAIN got : got[i] = got[j] => i = j

(* The state of a list: its types, and pages that do not overlap.            *)
PageInv == TypeOK /\ OncePerVersion

(* Every call ends: there is no endless chain of pages.                      *)
EveryListEnds == pc = "list" ~> pc # "list"

(* "using the first of versions the cluster serves.  If the CRD is not        *)
(* installed, it returns installed=false": unless the versions changed during *)
(* the call, all that is handed over is of the first that is served, and      *)
(* installed=false is returned only if none is.                              *)
FirstVersionServed ==
    ~moved =>
        /\ \A i \in DOMAIN got :
              /\ got[i].version = Versions[v]
              /\ Versions[v] \in served
              /\ \A j \in 1..(v - 1) : Versions[j] \notin served
        /\ pc = "notInstalled" => served = {}

================================================================================
