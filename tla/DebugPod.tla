-------------------------------- MODULE DebugPod --------------------------------
(***************************************************************************)
(* Debug pods: the Runner of internal/debugpod/debugpod.go behind the tools *)
(* of internal/mcp/debug.go, and the part of the cluster it relies on.      *)
(*                                                                          *)
(* A tool call is a goroutine that makes API requests one after the other;  *)
(* between two of them the Job controller, the kubelet, other calls, the    *)
(* call's timeout and a restart of the server may all come in.  A debug pod *)
(* is a Job with one pod, so a Job and its pod share a record.  Durations   *)
(* (StartTimeout, ExecTimeout, Lifetime, TTL) are abstracted to the event   *)
(* that they pass.                                                          *)
(***************************************************************************)
EXTENDS Integers

CONSTANTS
    Calls,     \* concurrent tool calls
    Names,     \* identities X-Remote-User may carry, trimmed
    People,    \* those caller accepts: not empty, not system:, not kube:admin
    Jobs,      \* Jobs that may be created
    AppPod     \* a pod of the namespace that is not a debug pod

ASSUME NamesAssumption == Names # {}
ASSUME PeopleAssumption == People \subseteq Names
ASSUME AppPodAssumption == AppPod \notin Jobs

VARIABLES
    calls,     \* the tool calls of the server
    jobs       \* the Jobs and pods of the cluster

vars == <<calls, jobs>>

Ops == {"start", "exec", "finish", "list"}
Stages == {"idle", "caller", "create", "pods", "podEvents", "jobEvents", "select",
           "owned", "stream", "running", "listPods", "done"}
Targets == Jobs \cup {AppPod}

(* A call: where it is, what it was asked, whether its context is done,      *)
(* whether its command ran in the target pod, and what it returns.           *)
CallRecords ==
    [pc : Stages, op : Ops, user : Names, target : Targets, ctxDone : BOOLEAN,
     ran : BOOLEAN, result : {"none", "ok", "error"}]

(* A Job: its own state, who its annotation names, its pod, the done file,   *)
(* the signs of trouble that waitRunning looks for, and whether the Job      *)
(* carries activeDeadlineSeconds and ttlSecondsAfterFinished.                *)
JobRecords ==
    [state : {"absent", "active", "failed", "complete", "gone"},
     requester : Names,
     pod : {"none", "pending", "running", "succeeded", "failed", "gone"},
     done : BOOLEAN, wasRunning : BOOLEAN,
     jobEvent : BOOLEAN, podEvent : BOOLEAN, waiting : BOOLEAN,
     deadline : BOOLEAN, ttl : BOOLEAN]

TypeOK ==
    /\ calls \in [Calls -> CallRecords]
    /\ jobs \in [Jobs -> JobRecords]

AnyName == CHOOSE u \in Names : TRUE

IdleCall == [pc |-> "idle", op |-> "list", user |-> AnyName, target |-> AppPod,
             ctxDone |-> FALSE, ran |-> FALSE, result |-> "none"]

NoJob == [state |-> "absent", requester |-> AnyName, pod |-> "none", done |-> FALSE,
          wasRunning |-> FALSE, jobEvent |-> FALSE, podEvent |-> FALSE,
          waiting |-> FALSE, deadline |-> FALSE, ttl |-> FALSE]

Init ==
    /\ calls = [c \in Calls |-> IdleCall]
    /\ jobs = [j \in Jobs |-> NoJob]

--------------------------------------------------------------------------------
(* The server.                                                               *)

At(c, stage) == calls[c].pc = stage

Goto(c, stage) ==
    /\ calls' = [calls EXCEPT ![c].pc = stage]
    /\ UNCHANGED jobs

Finished(c, result) ==
    calls' = [calls EXCEPT ![c].pc = "done", ![c].result = result]

Fails(c) == Finished(c, "error") /\ UNCHANGED jobs

(* A debug tool is called, for a pod of the caller's choice.                 *)
ToolCall(c, op, u, t) ==
    /\ At(c, "idle")
    /\ op \in {"start", "list"} => t = AppPod
    /\ calls' = [calls EXCEPT ![c] = [IdleCall EXCEPT !.pc = "caller", !.op = op,
                                                      !.user = u, !.target = t]]
    /\ UNCHANGED jobs

(* Faulty variant: whoever is named gets a client.                           *)
FaultyIdentify(c) ==
    /\ At(c, "caller")
    /\ Goto(c, CASE calls[c].op = "start" -> "create"
                 [] calls[c].op = "list" -> "listPods"
                 [] OTHER -> "owned")

(* caller: only a person gets a client that acts as them.                    *)
Identify(c) ==
    /\ At(c, "caller")
    /\ IF calls[c].user \in People
       THEN Goto(c, CASE calls[c].op = "start" -> "create"
                      [] calls[c].op = "list" -> "listPods"
                      [] OTHER -> "owned")
       ELSE Fails(c)

(* The command of Exec is empty, or no client can be built.                  *)
CallerFails(c) == At(c, "caller") /\ Fails(c)

(* Faulty variant: the Job has no activeDeadlineSeconds.                     *)
FaultyJob(user) ==
    [NoJob EXCEPT !.state = "active", !.requester = user, !.ttl = TRUE]

(* job: what is created for user.                                            *)
job(user) ==
    [NoJob EXCEPT !.state = "active", !.requester = user,
                  !.deadline = TRUE, !.ttl = TRUE]

(* Faulty variant: the Job has a name of its own, and takes the place of the *)
(* last one.                                                                 *)
FaultyCreateJob(c, j) ==
    /\ At(c, "create")
    /\ ~calls[c].ctxDone
    /\ jobs' = [jobs EXCEPT ![j] = job(calls[c].user)]
    /\ \/ calls' = [calls EXCEPT ![c].pc = "pods", ![c].target = j]
       \/ Finished(c, "error")

(* The API server creates the Job, with a name that no Job has had; unless *)
(* the answer is lost, Start waits for its pod.                              *)
CreateJob(c, j) ==
    /\ At(c, "create")
    /\ ~calls[c].ctxDone
    /\ jobs[j].state = "absent"
    /\ jobs' = [jobs EXCEPT ![j] = job(calls[c].user)]
    /\ \/ calls' = [calls EXCEPT ![c].pc = "pods", ![c].target = j]
       \/ Finished(c, "error")

(* It refuses (RBAC, quota, admission), or is not reached.                   *)
CreateFails(c) == At(c, "create") /\ Fails(c)

MyJob(c) == jobs[calls[c].target]

(* Faulty variant: a pod that exists is taken for one that runs.             *)
FaultyPodSeen(c) ==
    LET j == MyJob(c) IN
    IF j.pod \in {"pending", "running"} THEN Finished(c, "ok") /\ UNCHANGED jobs
    ELSE IF j.pod \in {"failed", "succeeded"} THEN Fails(c)
    ELSE Goto(c, "jobEvents")

(* What waitRunning makes of the pods it lists.                              *)
PodSeen(c) ==
    LET j == MyJob(c) IN
    IF j.pod = "running" THEN Finished(c, "ok") /\ UNCHANGED jobs
    ELSE IF j.pod \in {"failed", "succeeded"} \/ (j.pod = "pending" /\ j.waiting)
         THEN Fails(c)
    ELSE Goto(c, IF j.pod = "pending" THEN "podEvents" ELSE "jobEvents")

(* waitRunning lists the Job's pods ...                                      *)
ListJobPods(c) == At(c, "pods") /\ ~calls[c].ctxDone /\ PodSeen(c)

(* ... and goes on if it cannot.                                             *)
ListJobPodsFails(c) == At(c, "pods") /\ Goto(c, "jobEvents")

(* The pod's events, then the Job's; an error reads as no event.             *)
ReadPodEvents(c) ==
    /\ At(c, "podEvents")
    /\ IF MyJob(c).podEvent /\ ~calls[c].ctxDone THEN Fails(c) ELSE Goto(c, "jobEvents")

ReadJobEvents(c) ==
    /\ At(c, "jobEvents")
    /\ IF MyJob(c).jobEvent /\ ~calls[c].ctxDone THEN Fails(c) ELSE Goto(c, "select")

EventsFail(c) ==
    \/ At(c, "podEvents") /\ Goto(c, "jobEvents")
    \/ At(c, "jobEvents") /\ Goto(c, "select")

(* The select: another round at the next tick, or the end of StartTimeout.   *)
(* When both are ready Go picks either.                                      *)
NextRound(c) == At(c, "select") /\ Goto(c, "pods")

(* Faulty variant: the loop never looks at its context.                      *)
FaultyGiveUp(c) == At(c, "select") /\ calls[c].ctxDone /\ Goto(c, "pods")

GiveUp(c) == At(c, "select") /\ calls[c].ctxDone /\ Fails(c)

(* Faulty variant: any debug pod will do.                                    *)
FaultyOwnedBy(t, u) == t # AppPod

(* The label and the annotation of pod t say it is a debug pod of u.         *)
OwnedBy(t, u) == t # AppPod /\ jobs[t].requester = u

Exists(t) == t = AppPod \/ jobs[t].pod \notin {"none", "gone"}

Runs(t) == t = AppPod \/ jobs[t].pod = "running"

(* owned: the pod exists, is the caller's debug pod and is running.          *)
Owned(c) ==
    /\ At(c, "owned")
    /\ LET t == calls[c].target IN
       IF ~calls[c].ctxDone /\ Exists(t) /\ OwnedBy(t, calls[c].user) /\ Runs(t)
       THEN Goto(c, "stream")
       ELSE Fails(c)

(* The pod cannot be read (RBAC, or the API is not reached).                 *)
OwnedFails(c) == At(c, "owned") /\ Fails(c)

(* remoteExec reaches the pod: the command starts in it.  The command of     *)
(* Finish is a touch of the done file, which may fail.                       *)
StreamOpens(c) ==
    /\ At(c, "stream")
    /\ ~calls[c].ctxDone
    /\ Runs(calls[c].target)
    /\ calls' = [calls EXCEPT ![c].pc = "running", ![c].ran = TRUE]
    /\ \/ UNCHANGED jobs
       \/ /\ calls[c].op = "finish" /\ calls[c].target \in Jobs
          /\ jobs' = [jobs EXCEPT ![calls[c].target].done = TRUE]

(* The command ends with exit code 0: a touch has made the file.             *)
CommandSucceeds(c) ==
    /\ At(c, "running")
    /\ calls[c].op = "finish" => calls[c].target \in Jobs /\ MyJob(c).done
    /\ Finished(c, "ok")
    /\ UNCHANGED jobs

(* Faulty variant: no error of a stream is an error of the tool.             *)
FaultyStreamError(c) == Finished(c, "ok")

(* What an error of remoteExec is to the tool: for Finish an error; for Exec *)
(* an error if its own context is done, and a result otherwise.              *)
StreamError(c) ==
    Finished(c, IF calls[c].op = "exec" /\ ~calls[c].ctxDone THEN "ok" ELSE "error")

(* The command ends with another code, the pod ends or is deleted under it,  *)
(* the connection breaks or the time is up.                                  *)
StreamBreaks(c) == At(c, "running") /\ StreamError(c) /\ UNCHANGED jobs

(* The exec is refused (RBAC), the pod is not running any more, or the API   *)
(* is not reached.                                                           *)
StreamRefused(c) == At(c, "stream") /\ StreamError(c) /\ UNCHANGED jobs

(* List: the caller's debug pods, or the error.                              *)
ListPods(c) ==
    /\ At(c, "listPods")
    /\ \/ ~calls[c].ctxDone /\ Finished(c, "ok")
       \/ Finished(c, "error")
    /\ UNCHANGED jobs

(* The wrapper turns the outcome into the tool result.                       *)
Answer(c) == At(c, "done") /\ calls' = [calls EXCEPT ![c] = IdleCall] /\ UNCHANGED jobs

(* The context of a call ends: its timeout (StartTimeout, the exec timeout)  *)
(* passes, or the client goes away.                                          *)
ContextEnds(c) ==
    /\ calls[c].pc \notin {"idle", "done"}
    /\ ~calls[c].ctxDone
    /\ calls' = [calls EXCEPT ![c].ctxDone = TRUE]
    /\ UNCHANGED jobs

(* The server is restarted: its calls are gone, the cluster is as it was.    *)
Restart ==
    /\ calls' = [c \in Calls |-> IdleCall]
    /\ UNCHANGED jobs

Start(c) ==
    \/ \E j \in Jobs : CreateJob(c, j)
    \/ CreateFails(c)
    \/ ListJobPods(c) \/ ListJobPodsFails(c)
    \/ ReadPodEvents(c) \/ ReadJobEvents(c) \/ EventsFail(c)
    \/ NextRound(c) \/ GiveUp(c)

ExecOrFinish(c) ==
    \/ Owned(c) \/ OwnedFails(c)
    \/ StreamOpens(c) \/ StreamRefused(c)
    \/ CommandSucceeds(c) \/ StreamBreaks(c)

Serve(c) ==
    \/ Identify(c) \/ CallerFails(c)
    \/ Start(c) \/ ExecOrFinish(c) \/ ListPods(c)
    \/ Answer(c)

--------------------------------------------------------------------------------
(* The cluster: the Job controller, the scheduler and the kubelet.           *)

Cluster(j, change) == jobs' = [jobs EXCEPT ![j] = change] /\ UNCHANGED calls

JobActive(j) == jobs[j].state = "active"

CreatePod(j) ==
    /\ JobActive(j) /\ jobs[j].pod = "none"
    /\ Cluster(j, [jobs[j] EXCEPT !.pod = "pending"])

(* FailedCreate: the pod is over quota or not admitted, for now.             *)
CreatePodFails(j) ==
    /\ JobActive(j) /\ jobs[j].pod = "none" /\ ~jobs[j].jobEvent
    /\ Cluster(j, [jobs[j] EXCEPT !.jobEvent = TRUE])

(* FailedScheduling, FailedMount, an image that cannot be pulled: the        *)
(* trouble may pass and the pod run after all.                               *)
PodTrouble(j) ==
    /\ jobs[j].pod = "pending"
    /\ \/ ~jobs[j].podEvent /\ Cluster(j, [jobs[j] EXCEPT !.podEvent = TRUE])
       \/ ~jobs[j].waiting /\ Cluster(j, [jobs[j] EXCEPT !.waiting = TRUE])

PodRuns(j) ==
    /\ jobs[j].pod = "pending"
    /\ Cluster(j, [jobs[j] EXCEPT !.pod = "running", !.wasRunning = TRUE])

(* The script of the pod sees the done file and exits.                       *)
PodExits(j) ==
    /\ jobs[j].pod = "running" /\ jobs[j].done
    /\ Cluster(j, [jobs[j] EXCEPT !.pod = "succeeded"])

(* The pod is evicted, its node is lost, its process is killed.              *)
PodFails(j) ==
    /\ jobs[j].pod \in {"pending", "running"}
    /\ Cluster(j, [jobs[j] EXCEPT !.pod = "failed"])

(* A Job with backoffLimit 0 ends with its pod.                              *)
JobEnds(j) ==
    /\ JobActive(j) /\ jobs[j].pod \in {"succeeded", "failed"}
    /\ Cluster(j, [jobs[j] EXCEPT !.state =
                      IF jobs[j].pod = "succeeded" THEN "complete" ELSE "failed"])

(* activeDeadlineSeconds pass: the Job fails and its pod is deleted.         *)
JobDeadline(j) ==
    /\ JobActive(j) /\ jobs[j].deadline
    /\ Cluster(j, [jobs[j] EXCEPT !.state = "failed", !.pod = "gone"])

(* ttlSecondsAfterFinished pass: Job and pod are deleted.                    *)
JobTTL(j) ==
    /\ jobs[j].state \in {"failed", "complete"} /\ jobs[j].ttl
    /\ Cluster(j, [jobs[j] EXCEPT !.state = "gone", !.pod = "gone"])

Controllers(j) ==
    \/ CreatePod(j) \/ CreatePodFails(j) \/ PodTrouble(j) \/ PodRuns(j)
    \/ PodExits(j) \/ PodFails(j) \/ JobEnds(j) \/ JobDeadline(j) \/ JobTTL(j)

Next ==
    \/ \E c \in Calls, op \in Ops, u \in Names, t \in Targets : ToolCall(c, op, u, t)
    \/ \E c \in Calls : Serve(c) \/ ContextEnds(c)
    \/ \E j \in Jobs : Controllers(j)
    \/ Restart

Spec == Init /\ [][Next]_vars

(* A call keeps running, its requests end within K8S_TIMEOUT and its timeout *)
(* passes; a select that finds its context done again and again takes that   *)
(* branch.  The controllers do their work, but nothing makes a pod run.      *)
Fairness ==
    /\ \A c \in Calls :
          /\ WF_vars(Serve(c))
          /\ WF_vars(ContextEnds(c))
          /\ SF_vars(GiveUp(c))
    /\ \A j \in Jobs :
          /\ WF_vars(PodExits(j))
          /\ WF_vars(JobEnds(j))
          /\ WF_vars(JobDeadline(j))
          /\ WF_vars(JobTTL(j))

FairSpec == Spec /\ Fairness

--------------------------------------------------------------------------------
(* "the tools never exec into anything else": when a command starts in a     *)
(* pod, it is a running debug pod whose annotation names the caller, though  *)
(* the pod was checked in an earlier request.                                *)
ExecStep ==
    \A c \in Calls : ~calls[c].ran /\ calls'[c].ran =>
        /\ calls[c].target \in Jobs
        /\ jobs[calls[c].target].requester = calls[c].user
        /\ jobs[calls[c].target].pod = "running"
OnlyOwnPods == [][ExecStep]_vars

(* Every Job there is names a person as its requester, also one whose Start  *)
(* failed, lost its answer or was cut off by a restart: none is nobody's.    *)
EveryJobHasItsOwner ==
    \A j \in Jobs : jobs[j].state \notin {"absent", "gone"} => jobs[j].requester \in People

(* Start reports a pod only if it belongs to the caller and did run.         *)
StartedPodRan ==
    \A c \in Calls :
        calls[c].op = "start" /\ calls[c].result = "ok" =>
            MyJob(c).wasRunning /\ MyJob(c).requester = calls[c].user

(* "Finished: the pod exits now": when Finish succeeds the done file is      *)
(* there, or the pod is gone already.                                        *)
FinishOkMeansDone ==
    \A c \in Calls :
        calls[c].op = "finish" /\ calls[c].result = "ok" =>
            calls[c].target \in Jobs /\ MyJob(c).done

(* What Start and Finish report is true of the cluster, though it was read   *)
(* in earlier requests.                                                      *)
ResultsAreTrue == StartedPodRan /\ FinishOkMeansDone

(* The state of calls and Jobs: their types, who the Jobs belong to, and     *)
(* what the calls report of them.                                            *)
DebugInv == TypeOK /\ EveryJobHasItsOwner /\ ResultsAreTrue

(* Jobs and pods as leases: who each was made for, where it is in its life,  *)
(* and the commands begun for calls that are still there.                    *)
Leases == {<<j, jobs[j].requester>> : j \in {i \in Jobs : jobs[i].state # "absent"}}

Phase(j) ==
    CASE jobs[j].state = "absent" -> "free"
      [] jobs[j].state = "gone" -> "deleted"
      [] jobs[j].state \in {"active", "failed", "complete"} ->
            CASE jobs[j].pod = "running" -> "running"
              [] jobs[j].pod \in {"none", "pending"} -> "waiting"
              [] OTHER -> "ended"

Commands ==
    {<<calls[c].target, calls[c].user>> : c \in {d \in Calls : calls[d].ran}}

Lease == INSTANCE PodLease WITH
    Pods <- Jobs, People <- People, leases <- Leases,
    phase <- [j \in Jobs |-> Phase(j)], commands <- Commands

(* The debug tools implement the lease: whatever the calls, the cluster and  *)
(* restarts do in between, a pod belongs to the one person it was made for,  *)
(* is never made or used again once it has ended, and begins commands of     *)
(* that person only, and only while it runs.                                 *)
ImplementsPodLease == Lease!Spec

(* "The pod exits when Finish touches its done file or when the Job's        *)
(* activeDeadlineSeconds passes, and the Job controller deletes Job and      *)
(* pod": whatever becomes of the call that created it, no Job stays.         *)
EveryJobGoes == \A j \in Jobs : jobs[j].state = "active" ~> jobs[j].state = "gone"

(* Every tool call ends, though a pod may never run and every request fail.  *)
EveryCallEnds == \A c \in Calls : calls[c].pc # "idle" ~> calls[c].pc = "idle"

================================================================================
