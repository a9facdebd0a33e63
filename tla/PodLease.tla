-------------------------------- MODULE PodLease --------------------------------
(***************************************************************************)
(* What the debug tools promise, without calls, requests, Jobs or           *)
(* controllers: a debug pod is leased to the one person it was made for,    *)
(* passes through its life once, and runs commands of that person only, and *)
(* only while it is running.                                                *)
(***************************************************************************)
CONSTANTS Pods, People

VARIABLES
    leases,     \* pairs of a pod and the person it was made for
    phase,      \* where each pod is in its life
    commands    \* pairs of a pod and a person whose command was begun in it

leaseVars == <<leases, phase, commands>>

Init ==
    /\ leases = {}
    /\ phase = [p \in Pods |-> "free"]
    /\ commands = {}

Moves(p, from, to) ==
    /\ phase[p] \in from
    /\ phase' = [phase EXCEPT ![p] = to]

(* A pod is made for a person.                                               *)
Grant(p, u) ==
    /\ Moves(p, {"free"}, "waiting")
    /\ leases' = leases \cup {<<p, u>>}
    /\ UNCHANGED commands

Run(p) == Moves(p, {"waiting"}, "running") /\ UNCHANGED <<leases, commands>>

(* It ends, also without ever having run, and is deleted.                    *)
End(p) == Moves(p, {"waiting", "running"}, "ended") /\ UNCHANGED <<leases, commands>>

Delete(p) == Moves(p, {"ended"}, "deleted") /\ UNCHANGED <<leases, commands>>

(* A command of the person who holds the lease begins.                       *)
Command(p, u) ==
    /\ <<p, u>> \in leases
    /\ phase[p] = "running"
    /\ commands' = commands \cup {<<p, u>>}
    /\ UNCHANGED <<leases, phase>>

(* Commands are answered, or forgotten with the server that sent them.       *)
Forget(rest) == rest \subseteq commands /\ commands' = rest /\ UNCHANGED <<leases, phase>>

Next ==
    \/ \E p \in Pods, u \in People : Grant(p, u) \/ Command(p, u)
    \/ \E p \in Pods : Run(p) \/ End(p) \/ Delete(p)
    \/ \E rest \in SUBSET commands : Forget(rest)

Spec == Init /\ [][Next]_leaseVars

================================================================================
