----------------------------- MODULE MCDataServices -----------------------------
(* Small instances of DataServices for TLC.                                   *)
EXTENDS DataServices

CONSTANTS n1, rel, cache, sidecar, master, replica1, replica2, bare, sentinel,
          leader, follower, cluster, uid1, uid2, pdb

(* Two caches, of the quorum images one longer than a cache's name and one    *)
(* that contains it; redis-sentinel has 14 letters, consul has 6.             *)
Caches == <<"redis", "rabbitmq">>
Quorum == <<"rabbitmq", "consul", "redis-sentinel">>
Lengths == [redis |-> 5, rabbitmq |-> 8, consul |-> 6] @@ ("redis-sentinel" :> 14)

SomeKinds ==
    [RedisCluster |-> [engine |-> "redis", quorum |-> TRUE, leader |-> TRUE],
     RedisReplication |-> [engine |-> "redis", quorum |-> FALSE, leader |-> FALSE]]

Image(has) == [has |-> has, exporter |-> FALSE]
Exporter == [has |-> {"redis"}, exporter |-> TRUE]

Standalone(kind, name, images) ==
    [kind |-> kind, ns |-> n1, name |-> name, images |-> images, release |-> NoName,
     component |-> "none", template |-> {}, controller |-> NoName, leader |-> FALSE]

Bitnami(name, component, images) ==
    [Standalone("StatefulSet", name, images) EXCEPT !.release = rel,
                                                    !.component = component]

Operated(name, isLeader, template) ==
    [Standalone("StatefulSet", name, <<Image({"redis"})>>) EXCEPT
        !.controller = uid1, !.leader = isLeader, !.template = template]

Candidates ==
    {Standalone("Deployment", cache, <<Exporter, Image({"redis"})>>),
     Standalone("Deployment", sidecar, <<Image({"redis"}), Image({"consul"})>>),
     Bitnami(master, "master", <<Image({"redis"}), Exporter>>),
     Bitnami(bare, "master", <<Image({})>>),
     Bitnami(replica1, "replica", <<Image({"redis"})>>),
     Bitnami(replica2, "replica", <<Image({"redis"})>>),
     Standalone("StatefulSet", sentinel, <<Image({"redis"}),
                                           Image({"redis", "redis-sentinel"})>>),
     Operated(leader, TRUE, {pdb}),
     Operated(follower, FALSE, {})}

(* The lists: Deployments before StatefulSets, each in any order.             *)
MaxListed == 4
Lists ==
    {l \in UNION {[1..n -> Candidates] : n \in 0..MaxListed} :
        \A i, j \in DOMAIN l : i < j =>
            l[i] # l[j] /\ ~(l[i].kind = "StatefulSet" /\ l[j].kind = "Deployment")}

(* Two resources may have one name, if they are of different kinds.           *)
Resource(kind, uid) == [ns |-> n1, name |-> cluster, uid |-> uid, kind |-> kind]
SomeResources ==
    {<<>>, <<Resource("RedisCluster", uid1)>>,
     <<Resource("RedisReplication", uid2), Resource("RedisCluster", uid1)>>}

Budget == [ns |-> n1, name |-> pdb, valid |-> TRUE, selector |-> {pdb}]
SomeBudgets == {{}, {Budget}}

================================================================================
