------------------------------ MODULE ListingProofs ------------------------------
(***************************************************************************)
(* For any versions, objects, page size and changes of the cluster: a list  *)
(* that ends well has handed over every object that was there all along,    *)
(* none twice in one version, and is of the first version served.           *)
(***************************************************************************)
EXTENDS Listing, FiniteSetTheorems, SequenceTheorems, TLAPS

(* What the pages to come may hold: anything before the first one, then what *)
(* the token names.                                                          *)
Rest == IF token = <<>> THEN Objects ELSE token[1]

(* Nothing of the rest has been handed over in the version being listed, and *)
(* what has been handed over is of that version or an earlier one.           *)
FreshInv ==
    /\ \A i \in DOMAIN got : \E k \in 1..v : got[i].version = Versions[k]
    /\ pc = "list" => \A i \in DOMAIN got :
          got[i].version = Versions[v] => got[i].object \notin Rest

(* What was there all along is handed over or still to come.                 *)
NothingLost ==
    /\ pc = "list" /\ token # <<>> => stable \subseteq Delivered \cup token[1]
    /\ pc = "installed" => stable \subseteq Delivered

(* A call that saw no change of the versions passed only by those that are   *)
(* not served.                                                               *)
FirstInv ==
    /\ pc = "idle" => got = <<>>
    /\ ~moved /\ pc # "idle" =>
          /\ \A j \in 1..(v - 1) : Versions[j] \notin served
          /\ got # <<>> => Versions[v] \in served
          /\ \A i \in DOMAIN got : got[i].version = Versions[v]
          /\ pc = "notInstalled" => served = {}

Inv == TypeOK /\ OncePerVersion /\ FreshInv /\ NothingLost /\ FirstInv

--------------------------------------------------------------------------------
(* An order of a page has every item of it, once.                            *)
LEMMA OrderIsOnto ==
    ASSUME NEW page, IsFiniteSet(page), NEW order \in Orders(page)
    PROVE  /\ Cardinality(page) \in Nat
           /\ order \in [1..Cardinality(page) -> page]
           /\ \A i, j \in 1..Cardinality(page) : order[i] = order[j] => i = j
           /\ \A o \in page : \E i \in 1..Cardinality(page) : order[i] = o
<1> DEFINE m == Cardinality(page)
<1>1. m \in Nat
  BY FS_CardinalityType
<1>2. order \in [1..m -> page] /\ \A i, j \in 1..m : order[i] = order[j] => i = j
  BY DEF Orders
<1>3. Cardinality(1..m) = m
  BY <1>1, FS_Interval
<1>4. order \in Injection(1..m, page)
  BY <1>2 DEF Injection, IsInjective
<1>5. order \in Surjection(1..m, page)
  BY <1>3, <1>4, FS_Injection
<1> QED
  BY <1>1, <1>2, <1>5 DEF Surjection

(* There is a first version.                                                 *)
LEMMA CountOfVersions ==
    /\ Len(Versions) \in Nat /\ 1 \in 1..Len(Versions)
    /\ DOMAIN Versions = 1..Len(Versions)
  BY VersionsAssumption, LenProperties, EmptySeq

(* A sequence with the values of f after it.                                 *)
LEMMA ConcatFacts ==
    ASSUME NEW S, NEW s \in Seq(S), NEW m \in Nat, NEW f \in [1..m -> S]
    PROVE  /\ s \o f \in Seq(S) /\ DOMAIN (s \o f) = 1..(Len(s) + m)
           /\ \A i \in 1..Len(s) : (s \o f)[i] = s[i]
           /\ \A i \in 1..m : (s \o f)[Len(s) + i] = f[i]
<1>1. f \in Seq(S) /\ Len(f) = m /\ Len(s) \in Nat
  OBVIOUS
<1>2. /\ s \o f \in Seq(S) /\ Len(s \o f) = Len(s) + m
      /\ \A i \in 1..(Len(s) + m) : (s \o f)[i] = IF i <= Len(s) THEN s[i] ELSE f[i - Len(s)]
  BY <1>1, ConcatProperties
<1> DEFINE n == Len(s)
           t == s \o f
<1>3. /\ n \in Nat /\ DOMAIN t = 1..(n + m)
      /\ \A i \in 1..(n + m) : t[i] = IF i <= n THEN s[i] ELSE f[i - n]
  BY <1>1, <1>2
<1> HIDE DEF n, t
<1>4. \A i \in 1..n : t[i] = s[i]
  BY <1>3
<1>5. ASSUME NEW i \in 1..m PROVE t[n + i] = f[i]
  <2>1. n + i \in 1..(n + m) /\ ~(n + i <= n) /\ (n + i) - n = i
    BY <1>3
  <2> QED
    BY <1>3, <2>1
<1> QED
  BY <1>2, <1>3, <1>4, <1>5 DEF n, t

(* What a page adds to what has been handed over: its items, in the version  *)
(* that is listed, after all the others.                                     *)
LEMMA PageFacts ==
    ASSUME TypeOK, NEW page \in Pages, NEW order \in Orders(page),
           got' = got \o [i \in DOMAIN order |->
                             [object |-> order[i], version |-> Versions[v]]]
    PROVE  /\ page \subseteq Pending /\ page \subseteq Objects
           /\ got' \in Seq(Delivery)
           /\ \A i \in DOMAIN got : i \in DOMAIN got' /\ got'[i] = got[i]
           /\ \A i \in DOMAIN got' \ DOMAIN got :
                 got'[i].object \in page /\ got'[i].version = Versions[v]
           /\ \A i, j \in DOMAIN got' \ DOMAIN got :
                 got'[i].object = got'[j].object => i = j
           /\ \A o \in page : \E i \in DOMAIN got' : got'[i].object = o
<1> DEFINE m == Cardinality(page)
           n == Len(got)
           new == [i \in 1..m |-> [object |-> order[i], version |-> Versions[v]]]
<1>1. page \subseteq Pending /\ Pending \subseteq Objects
  BY DEF Pages, Pending, TypeOK
<1>2. IsFiniteSet(page)
  BY <1>1, ObjectsAssumption, FS_Subset
<1>3. /\ m \in Nat /\ order \in [1..m -> page]
      /\ \A i, j \in 1..m : order[i] = order[j] => i = j
      /\ \A o \in page : \E i \in 1..m : order[i] = o
  BY <1>2, OrderIsOnto
<1>4. Versions[v] \in VersionSet
  BY CountOfVersions DEF TypeOK, VersionSet
<1>5. \A i \in 1..m : [object |-> order[i], version |-> Versions[v]] \in Delivery
  BY <1>1, <1>3, <1>4 DEF Delivery
<1>6. new \in [1..m -> Delivery]
  BY <1>5
<1>7. /\ got' = got \o new /\ n \in Nat /\ got \in Seq(Delivery) /\ DOMAIN got = 1..n
  BY <1>3 DEF TypeOK
<1>8. \A i \in 1..m : new[i].object = order[i] /\ new[i].version = Versions[v]
  BY <1>3
<1> HIDE DEF new, m
<1> DEFINE t == got \o new
<1>9. /\ t \in Seq(Delivery) /\ DOMAIN t = 1..(n + m)
      /\ \A i \in 1..n : t[i] = got[i]
      /\ \A i \in 1..m : t[n + i] = new[i]
  BY <1>3, <1>6, <1>7, ConcatFacts
<1>9a. got' = t
  BY <1>7
<1> HIDE DEF n, t
<1>10. /\ got' \in Seq(Delivery) /\ DOMAIN got' = 1..(n + m)
       /\ \A i \in 1..n : got'[i] = got[i]
       /\ \A i \in 1..m : got'[n + i] = new[i]
  BY <1>9, <1>9a
<1>11. \A i \in 1..m : n + i \in DOMAIN got' /\ got'[n + i] = new[i]
  BY <1>3, <1>7, <1>10
<1>12. \A i \in DOMAIN got' \ DOMAIN got : i - n \in 1..m /\ got'[i] = new[i - n]
  <2> SUFFICES ASSUME NEW i \in DOMAIN got' \ DOMAIN got
               PROVE  i - n \in 1..m /\ got'[i] = new[i - n]
    OBVIOUS
  <2>1. i - n \in 1..m /\ n + (i - n) = i
    BY <1>3, <1>7, <1>10
  <2> QED
    BY <1>10, <2>1
<1>13. \A o \in page : \E i \in DOMAIN got' : got'[i].object = o
  <2> SUFFICES ASSUME NEW o \in page PROVE \E i \in DOMAIN got' : got'[i].object = o
    OBVIOUS
  <2>1. PICK i \in 1..m : order[i] = o
    BY <1>3
  <2>2. n + i \in DOMAIN got' /\ got'[n + i].object = o
    BY <1>8, <1>11, <2>1
  <2> QED
    BY <2>2
<1>14. \A i \in DOMAIN got' \ DOMAIN got :
         got'[i].object \in page /\ got'[i].version = Versions[v]
  BY <1>3, <1>8, <1>12
<1>15. ASSUME NEW i \in DOMAIN got' \ DOMAIN got, NEW j \in DOMAIN got' \ DOMAIN got,
              got'[i].object = got'[j].object
       PROVE  i = j
  <2>1. i - n = j - n
    BY <1>3, <1>8, <1>12, <1>15
  <2> QED
    BY <1>3, <1>7, <1>10, <2>1
<1>16. \A i \in DOMAIN got : i \in DOMAIN got' /\ got'[i] = got[i]
  BY <1>3, <1>7, <1>10
<1> QED
  BY <1>1, <1>10, <1>13, <1>14, <1>15, <1>16

--------------------------------------------------------------------------------
LEMMA InitInv == Init => Inv
<1> SUFFICES ASSUME Init PROVE Inv
  OBVIOUS
<1>1. TypeOK
  <2>1. v \in 1..Len(Versions) /\ changes \in 0..MaxChanges
    BY CountOfVersions, ChangesAssumption DEF Init
  <2>2. got \in Seq(Delivery)
    BY EmptySeq DEF Init
  <2> QED
    BY <2>1, <2>2 DEF Init, TypeOK
<1>2. DOMAIN got = {}
  BY DEF Init
<1> QED
  BY <1>1, <1>2 DEF Init, Inv, OncePerVersion, FreshInv, NothingLost, FirstInv, Delivered

(* A call begins, or its result is returned.                                 *)
LEMMA CallReturnInv == ASSUME Inv, Call \/ Return PROVE Inv'
<1>1. TypeOK'
  <2>1. got' \in Seq(Delivery) /\ v' \in 1..Len(Versions)
    BY CountOfVersions, EmptySeq DEF Call, Return
  <2> QED
    BY <2>1 DEF Inv, TypeOK, Call, Return, cluster
<1>2. /\ got' = <<>> /\ pc' \in {"idle", "list"} /\ token' = <<>> /\ v' = 1
      /\ served' = served
  BY DEF Call, Return, cluster
<1>3. DOMAIN got' = {}
  BY <1>2
<1>4. \A j \in 1..(v' - 1) : FALSE
  BY <1>2
<1> QED
  BY <1>1, <1>2, <1>3, <1>4 DEF Inv, OncePerVersion, FreshInv, NothingLost, FirstInv

(* A page arrives: its items are new, and what it leaves is named by the     *)
(* token.                                                                    *)
LEMMA PageStepInv == ASSUME Inv, Page PROVE Inv'
<1>1. PICK page \in Pages :
        /\ \E order \in Orders(page) :
              got' = got \o [i \in DOMAIN order |->
                                [object |-> order[i], version |-> Versions[v]]]
        /\ Follow(Pending \ page)
  BY DEF Page
<1>2. /\ page \subseteq Pending /\ page \subseteq Objects
      /\ got' \in Seq(Delivery)
      /\ \A i \in DOMAIN got : i \in DOMAIN got' /\ got'[i] = got[i]
      /\ \A i \in DOMAIN got' \ DOMAIN got :
            got'[i].object \in page /\ got'[i].version = Versions[v]
      /\ \A i, j \in DOMAIN got' \ DOMAIN got :
            got'[i].object = got'[j].object => i = j
      /\ \A o \in page : \E i \in DOMAIN got' : got'[i].object = o
  BY <1>1, PageFacts DEF Inv
<1>3. /\ pc = "list" /\ Versions[v] \in served /\ v' = v
      /\ served' = served /\ objects' = objects /\ changes' = changes
      /\ stable' = stable /\ moved' = moved
  BY DEF Page, cluster, ghosts
<1>4. \/ pc' = "installed" /\ token' = <<>> /\ Pending \ page = {}
      \/ pc' = "list" /\ token' = <<Pending \ page>> /\ Pending \ page # {}
  BY <1>1 DEF Follow
<1>5. Pending \subseteq Objects /\ Pending \subseteq Rest
  BY DEF Inv, TypeOK, Pending, Rest
<1>6. TypeOK'
  BY <1>2, <1>3, <1>4, <1>5 DEF Inv, TypeOK
<1>7. /\ v \in Nat \ {0} /\ v \in 1..v
  BY DEF Inv, TypeOK
<1>8. \A i \in DOMAIN got : got[i].version = Versions[v] => got[i].object \notin page
  BY <1>2, <1>3, <1>5 DEF Inv, FreshInv
<1>9. OncePerVersion'
  BY <1>2, <1>8 DEF Inv, OncePerVersion
<1>10. FreshInv'
  <2>1. \A i \in DOMAIN got' : \E k \in 1..v : got'[i].version = Versions[k]
    BY <1>2, <1>7 DEF Inv, FreshInv
  <2>2. ASSUME pc' = "list", NEW i \in DOMAIN got', got'[i].version = Versions[v]
        PROVE  got'[i].object \notin Pending \ page
    BY <1>2, <1>3, <1>5, <2>2 DEF Inv, FreshInv
  <2>3. pc' = "list" => Rest' = Pending \ page
    BY <1>4 DEF Rest
  <2> QED
    BY <1>3, <2>1, <2>2, <2>3 DEF FreshInv
<1>11. NothingLost'
  <2>1. stable \subseteq Delivered \cup Pending
    BY <1>3 DEF Inv, TypeOK, NothingLost, Pending
  <2>2. Delivered \cup page \subseteq Delivered'
    BY <1>2 DEF Delivered
  <2> QED
    BY <1>3, <1>4, <2>1, <2>2 DEF NothingLost
<1>12. FirstInv'
  BY <1>2, <1>3, <1>4 DEF Inv, FirstInv
<1> QED
  BY <1>6, <1>9, <1>10, <1>11, <1>12 DEF Inv

(* A version that is not served is passed by.                                *)
LEMMA NotFoundInv == ASSUME Inv, NotFound PROVE Inv'
<1>1. /\ pc = "list" /\ Versions[v] \notin served /\ token' = <<>>
      /\ served' = served /\ objects' = objects /\ changes' = changes
      /\ stable' = stable /\ moved' = moved /\ got' = got
      /\ \/ v = Len(Versions) /\ pc' = "notInstalled" /\ v' = v
         \/ v # Len(Versions) /\ pc' = "list" /\ v' = v + 1
  BY DEF NotFound, cluster, ghosts
<1>2. /\ v \in 1..Len(Versions) /\ v' \in 1..Len(Versions) /\ v <= v'
      /\ Len(Versions) \in Nat
  <2> DEFINE n == Len(Versions)
  <2>1. n \in Nat /\ v \in 1..n
    BY CountOfVersions DEF Inv, TypeOK
  <2>2. (v = n /\ v' = v) \/ (v # n /\ v' = v + 1)
    BY <1>1
  <2> HIDE DEF n
  <2>3. v' \in 1..n /\ v <= v'
    BY <2>1, <2>2
  <2> QED
    BY <2>1, <2>3 DEF n
<1>3. TypeOK'
  BY <1>1, <1>2 DEF Inv, TypeOK
<1>4. FreshInv'
  <2>1. \A i \in DOMAIN got : \E k \in 1..v' : got[i].version = Versions[k]
    BY <1>2 DEF Inv, FreshInv
  <2>2. ASSUME v' = v + 1, NEW i \in DOMAIN got PROVE got[i].version # Versions[v']
    <3>1. PICK k \in 1..v : got[i].version = Versions[k]
      BY DEF Inv, FreshInv
    <3>2. k \in DOMAIN Versions /\ v' \in DOMAIN Versions /\ k # v'
      BY <1>2, <2>2, CountOfVersions
    <3> QED
      BY <3>1, <3>2, VersionsAssumption
  <2> QED
    BY <1>1, <2>1, <2>2 DEF FreshInv
<1>5. NothingLost'
  BY <1>1 DEF NothingLost
<1>6. FirstInv'
  <2>1. CASE moved
    BY <1>1, <2>1 DEF FirstInv
  <2>2. CASE ~moved
    <3>1. got = <<>> /\ \A j \in 1..(v - 1) : Versions[j] \notin served
      BY <1>1, <2>2 DEF Inv, FirstInv
    <3>2. \A j \in 1..v : Versions[j] \notin served
      BY <1>1, <1>2, <3>1
    <3>3. \A j \in 1..(v' - 1) : Versions[j] \notin served
      <4>1. v \in Nat /\ (v' = v \/ v' = v + 1)
        BY <1>1, <1>2
      <4>2. 1..(v' - 1) \subseteq 1..v
        BY <4>1
      <4> QED
        BY <3>2, <4>2
    <3>4. v = Len(Versions) => served = {}
      BY <3>2, CountOfVersions DEF Inv, TypeOK, VersionSet
    <3>5. DOMAIN got = {}
      BY <3>1
    <3> QED
      BY <1>1, <3>1, <3>3, <3>4, <3>5 DEF FirstInv
  <2> QED
    BY <1>1, <2>1, <2>2 DEF Inv, TypeOK
<1>7. OncePerVersion'
  BY <1>1 DEF Inv, OncePerVersion
<1> QED
  BY <1>3, <1>4, <1>5, <1>6, <1>7 DEF Inv

LEMMA ListFailsInv == ASSUME Inv, ListFails PROVE Inv'
  BY DEF ListFails, cluster, ghosts, Inv, TypeOK, OncePerVersion, FreshInv, NothingLost, FirstInv

(* The cluster changes: what was there all along gets less.                  *)
LEMMA ClusterInv == ASSUME Inv, Cluster PROVE Inv'
<1> DEFINE Less ==
      /\ pc' = pc /\ v' = v /\ token' = token /\ got' = got
      /\ changes \in Nat /\ changes' = changes + 1 /\ changes < MaxChanges
      /\ stable' \subseteq stable /\ stable' \subseteq objects' /\ objects' \subseteq Objects
      /\ served' \subseteq VersionSet
      /\ \/ moved' = moved /\ served' = served
         \/ moved' = Running
<1>1. Less
  <2>1. ASSUME NEW o \in Objects, Create(o) \/ Delete(o)
        PROVE  Less
    BY <2>1 DEF Create, Delete, Change, Inv, TypeOK
  <2>2. ASSUME NEW new \in SUBSET VersionSet, ChangeCRD(new)
        PROVE  Less
    BY <2>2 DEF ChangeCRD, Change, Inv, TypeOK
  <2> QED
    BY <2>1, <2>2 DEF Cluster
<1>2. TypeOK'
  <2>1. changes' \in 0..MaxChanges
    BY <1>1, ChangesAssumption
  <2>2. moved' \in BOOLEAN
    BY <1>1 DEF Inv, TypeOK, Running
  <2> QED
    BY <1>1, <2>1, <2>2 DEF Inv, TypeOK
<1>3. OncePerVersion' /\ FreshInv' /\ NothingLost'
  BY <1>1 DEF Inv, OncePerVersion, FreshInv, NothingLost, Rest, Delivered
<1>4. FirstInv'
  <2>1. CASE pc = "idle"
    <3>1. got' = <<>>
      BY <1>1, <2>1 DEF Inv, FirstInv
    <3> QED
      BY <1>1, <2>1, <3>1 DEF FirstInv
  <2>2. CASE pc # "idle" /\ moved'
    BY <1>1, <2>2 DEF FirstInv
  <2>3. CASE pc # "idle" /\ ~moved'
    <3>1. moved' = moved /\ served' = served
      BY <1>1, <2>3 DEF Running
    <3> QED
      BY <1>1, <2>3, <3>1 DEF Inv, FirstInv
  <2> QED
    BY <2>1, <2>2, <2>3
<1> QED
  BY <1>2, <1>3, <1>4 DEF Inv

LEMMA NextInv == Inv /\ [Next]_vars => Inv'
<1> SUFFICES ASSUME Inv, [Next]_vars PROVE Inv'
  OBVIOUS
<1>1. CASE UNCHANGED vars
  BY <1>1 DEF vars, Inv, TypeOK, OncePerVersion, FreshInv, NothingLost, FirstInv, Rest, Delivered
<1> QED
  BY <1>1, CallReturnInv, PageStepInv, NotFoundInv, ListFailsInv, ClusterInv DEF Next, ListCustom

(* The invariant in every state.                                             *)
LEMMA AlwaysInv == Spec => []Inv
  BY InitInv, NextInv, PTL DEF Spec

--------------------------------------------------------------------------------
(* The pages of one version never overlap, however the cluster changes       *)
(* between them and however often NotFound restarts the list.                *)
THEOREM PagesNeverOverlap == Spec => []PageInv
<1>1. Inv => PageInv
  BY DEF Inv, PageInv
<1> QED
  BY <1>1, AlwaysInv, PTL

(* "large lists are never cut short": a list that ListPages ends without an  *)
(* error has handed over every object that was there all along.              *)
THEOREM ListsAreNeverCutShort == Spec => []NeverCutShort
<1>1. Inv => NeverCutShort
  BY DEF Inv, NothingLost, NeverCutShort
<1> QED
  BY <1>1, AlwaysInv, PTL

(* "the first of versions the cluster serves": unless the served versions    *)
(* change during the call, all that is handed over is of that version, and   *)
(* installed=false means that none is served.                                *)
THEOREM FirstServedVersionIsListed == Spec => []FirstVersionServed
<1>1. Inv => FirstVersionServed
  <2> SUFFICES ASSUME Inv, ~moved PROVE FirstVersionServed
    BY DEF FirstVersionServed
  <2>1. CASE pc = "idle"
    <3>1. DOMAIN got = {}
      BY <2>1 DEF Inv, FirstInv
    <3> QED
      BY <2>1, <3>1 DEF FirstVersionServed
  <2>2. CASE pc # "idle"
    <3>1. \A i \in DOMAIN got : got # <<>>
      OBVIOUS
    <3> QED
      BY <2>2, <3>1 DEF Inv, FirstInv, FirstVersionServed
  <2> QED
    BY <2>1, <2>2
<1> QED
  BY <1>1, AlwaysInv, PTL

================================================================================
