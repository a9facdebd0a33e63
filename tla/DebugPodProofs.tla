----------------------------- MODULE DebugPodProofs -----------------------------
(***************************************************************************)
(* For any calls, names and Jobs, with requests that fail or lose their     *)
(* answer, restarts of the server and a cluster that goes on between two    *)
(* requests: commands run only in the caller's own debug pods, every Job    *)
(* names the person it was made for, what Start and Finish report is true,  *)
(* and the whole implements the lease of PodLease.                          *)
(***************************************************************************)
EXTENDS DebugPod, TLAPS

Waiting == {"pods", "podEvents", "jobEvents", "select"}

(* t is a Job that was created, for u.                                       *)
MadeFor(t, u) == t \in Jobs /\ jobs[t].state # "absent" /\ jobs[t].requester = u

(* Where a call k is says what it was asked and, past the checks, whose Job  *)
(* it is about; what it returns is true.                                     *)
Fits(k) ==
    /\ k.pc = "create" => k.op = "start" /\ k.user \in People
    /\ k.pc \in Waiting => k.op = "start" /\ MadeFor(k.target, k.user)
    /\ k.pc = "owned" => k.op \in {"exec", "finish"}
    /\ k.pc \in {"stream", "running"} =>
          k.op \in {"exec", "finish"} /\ MadeFor(k.target, k.user)
    /\ k.pc = "listPods" => k.op = "list"
    /\ k.result # "none" => k.pc = "done"
    /\ k.ran => k.pc \in {"running", "done"}
    /\ k.op = "start" /\ k.result = "ok" =>
          MadeFor(k.target, k.user) /\ jobs[k.target].wasRunning
    /\ k.op = "finish" /\ k.result = "ok" =>
          MadeFor(k.target, k.user) /\ jobs[k.target].done

(* A Job that was not created has nothing; one that was names a person; its  *)
(* pod is marked when it runs, and has ended when the Job has.               *)
JobInv(j) ==
    /\ jobs[j].state = "absent" => jobs[j] = NoJob
    /\ jobs[j].state # "absent" => jobs[j].requester \in People
    /\ jobs[j].pod = "running" => jobs[j].wasRunning
    /\ jobs[j].state \in {"failed", "complete", "gone"} =>
          jobs[j].pod \in {"succeeded", "failed", "gone"}

Inv ==
    /\ TypeOK
    /\ \A c \in Calls : Fits(calls[c])
    /\ \A j \in Jobs : JobInv(j)

(* What no step takes back: a Job was created, for whom, its pod has run and *)
(* its done file is there.                                                   *)
Grow ==
    \A j \in Jobs : jobs[j].state # "absent" =>
        /\ jobs'[j].state # "absent" /\ jobs'[j].requester = jobs[j].requester
        /\ jobs[j].wasRunning => jobs'[j].wasRunning
        /\ jobs[j].done => jobs'[j].done

(* What is true of a call that takes no step stays true while Jobs grow.     *)
LEMMA FitsStays ==
    ASSUME NEW c \in Calls, Fits(calls[c]), calls'[c] = calls[c], Grow
    PROVE  Fits(calls[c])'
<1>1. ASSUME NEW t, NEW u, MadeFor(t, u)
      PROVE  /\ t \in Jobs /\ jobs'[t].state # "absent" /\ jobs'[t].requester = u
             /\ jobs[t].wasRunning => jobs'[t].wasRunning
             /\ jobs[t].done => jobs'[t].done
  BY <1>1 DEF MadeFor, Grow
<1> QED
  BY <1>1 DEF Fits, MadeFor

(* The parts of a step that keep the invariant.                              *)
LEMMA StepInv ==
    ASSUME Inv, TypeOK', Grow,
           \A j \in Jobs : JobInv(j)',
           \A c \in Calls : calls'[c] = calls[c] \/ Fits(calls[c])'
    PROVE  Inv'
<1>1. \A c \in Calls : Fits(calls[c])'
  BY FitsStays DEF Inv
<1> QED
  BY <1>1 DEF Inv

(* Nothing is called and no Job exists.                                      *)
LEMMA InitInv == Init => Inv
<1> SUFFICES ASSUME Init PROVE Inv
  OBVIOUS
<1>1. AnyName \in Names
  BY NamesAssumption DEF AnyName
<1>2. IdleCall \in CallRecords
  BY <1>1 DEF IdleCall, CallRecords, Stages, Ops, Targets
<1>3. NoJob \in JobRecords
  BY <1>1 DEF NoJob, JobRecords
<1>4. Fits(IdleCall)
  BY DEF Fits, IdleCall, Waiting
<1>5. NoJob.state = "absent" /\ NoJob.pod = "none"
  BY DEF NoJob
<1>6. \A j \in Jobs : JobInv(j)
  BY <1>5 DEF JobInv, Init
<1> QED
  BY <1>2, <1>3, <1>4, <1>6 DEF Init, Inv, TypeOK

--------------------------------------------------------------------------------
(* Steps of a call that leave the cluster alone.                             *)

LEMMA CallStep ==
    ASSUME Inv, NEW c \in Calls, jobs' = jobs,
           calls' \in [Calls -> CallRecords],
           \A d \in Calls : d # c => calls'[d] = calls[d],
           Fits(calls[c])'
    PROVE  Inv'
<1>1. TypeOK'
  BY DEF Inv, TypeOK
<1>2. Grow
  BY DEF Grow
<1>3. \A j \in Jobs : JobInv(j)'
  BY DEF Inv, JobInv
<1>4. \A d \in Calls : calls'[d] = calls[d] \/ Fits(calls[d])'
  OBVIOUS
<1> QED
  BY <1>1, <1>2, <1>3, <1>4, StepInv

(* A call goes to its next request.                                          *)
LEMMA GotoFacts ==
    ASSUME Inv, NEW c \in Calls, NEW s \in Stages, Goto(c, s)
    PROVE  /\ calls' \in [Calls -> CallRecords]
           /\ \A d \in Calls : d # c => calls'[d] = calls[d]
           /\ calls'[c].pc = s /\ calls'[c].op = calls[c].op
           /\ calls'[c].user = calls[c].user /\ calls'[c].target = calls[c].target
           /\ calls'[c].result = calls[c].result /\ calls'[c].ran = calls[c].ran
           /\ jobs' = jobs
  BY DEF Goto, Inv, TypeOK, CallRecords

LEMMA FinishedFacts ==
    ASSUME Inv, NEW c \in Calls, NEW r \in {"ok", "error"}, Finished(c, r)
    PROVE  /\ calls' \in [Calls -> CallRecords]
           /\ \A d \in Calls : d # c => calls'[d] = calls[d]
           /\ calls'[c].pc = "done" /\ calls'[c].op = calls[c].op
           /\ calls'[c].user = calls[c].user /\ calls'[c].target = calls[c].target
           /\ calls'[c].result = r /\ calls'[c].ran = calls[c].ran
<1>1. "done" \in Stages
  BY DEF Stages
<1> QED
  BY <1>1 DEF Finished, Inv, TypeOK, CallRecords

(* A call may always end with an error.                                      *)
LEMMA FailsInv == ASSUME Inv, NEW c \in Calls, Fails(c) PROVE Inv'
<1>1. Finished(c, "error") /\ jobs' = jobs
  BY DEF Fails
<1>2. Fits(calls[c])'
  BY <1>1, FinishedFacts DEF Fits, Waiting
<1> QED
  BY <1>1, <1>2, FinishedFacts, CallStep

(* A call goes round in the loop of waitRunning.                             *)
LEMMA LoopInv ==
    ASSUME Inv, NEW c \in Calls, calls[c].pc \in Waiting, NEW s \in Waiting, Goto(c, s)
    PROVE  Inv'
<1>1. s \in Stages
  BY DEF Waiting, Stages
<1>2. /\ calls[c].op = "start" /\ MadeFor(calls[c].target, calls[c].user)
      /\ calls[c].result = "none" /\ ~calls[c].ran
  <2>1. Fits(calls[c]) /\ calls[c].pc \notin {"running", "done"}
    BY DEF Inv, Waiting
  <2> QED
    BY <2>1 DEF Fits
<1>3. Fits(calls[c])'
  BY <1>1, <1>2, GotoFacts DEF Fits, Waiting, MadeFor
<1> QED
  BY <1>1, <1>3, GotoFacts, CallStep

(* A tool is called.                                                         *)
LEMMA ToolCallInv ==
    ASSUME Inv, NEW c \in Calls, NEW op \in Ops, NEW u \in Names, NEW t \in Targets,
           ToolCall(c, op, u, t)
    PROVE  Inv'
<1> DEFINE k == [IdleCall EXCEPT !.pc = "caller", !.op = op, !.user = u, !.target = t]
<1>1. calls' = [calls EXCEPT ![c] = k] /\ jobs' = jobs
  BY DEF ToolCall
<1>2. k \in CallRecords /\ k.pc = "caller" /\ k.result = "none" /\ ~k.ran
  BY DEF IdleCall, CallRecords, Stages, Ops
<1> HIDE DEF k
<1>3. /\ calls' \in [Calls -> CallRecords] /\ calls'[c] = k
      /\ \A d \in Calls : d # c => calls'[d] = calls[d]
  BY <1>1, <1>2 DEF Inv, TypeOK
<1>4. Fits(calls[c])'
  BY <1>2, <1>3 DEF Fits, Waiting
<1> QED
  BY <1>1, <1>3, <1>4, CallStep

(* The caller is identified: only a person gets further.                     *)
LEMMA IdentifyInv == ASSUME Inv, NEW c \in Calls, Identify(c) PROVE Inv'
<1>1. CASE calls[c].user \in People
  <2> DEFINE s == CASE calls[c].op = "start" -> "create"
                    [] calls[c].op = "list" -> "listPods"
                    [] OTHER -> "owned"
  <2>1. /\ \/ s = "create" /\ calls[c].op = "start"
           \/ s = "listPods" /\ calls[c].op = "list"
           \/ s = "owned" /\ calls[c].op \in {"exec", "finish"}
        /\ s \in Stages
    <3>1. calls[c].op \in {"start", "exec", "finish", "list"}
      BY DEF Inv, TypeOK, CallRecords, Ops
    <3>2. {"create", "listPods", "owned"} \subseteq Stages
      BY DEF Stages
    <3> QED
      BY <3>1, <3>2
  <2>2. Goto(c, s) /\ calls[c].pc = "caller"
    BY <1>1 DEF Identify, At
  <2> HIDE DEF s
  <2>3. calls[c].result = "none" /\ ~calls[c].ran
    BY <2>2 DEF Inv, Fits
  <2>4. Fits(calls[c])'
    BY <1>1, <2>1, <2>2, <2>3, GotoFacts DEF Fits, Waiting
  <2> QED
    BY <2>1, <2>2, <2>4, GotoFacts, CallStep
<1>2. CASE calls[c].user \notin People
  BY <1>2, FailsInv DEF Identify
<1> QED
  BY <1>1, <1>2

(* What waitRunning reads: a pod that runs ends the wait with success.       *)
LEMMA WaitInv ==
    ASSUME Inv, NEW c \in Calls,
           \/ ListJobPods(c) \/ ListJobPodsFails(c) \/ ReadPodEvents(c) \/ ReadJobEvents(c)
           \/ EventsFail(c) \/ NextRound(c) \/ GiveUp(c)
    PROVE  Inv'
<1>1. CASE ListJobPods(c)
  <2>1. calls[c].pc = "pods" /\ PodSeen(c)
    BY <1>1 DEF ListJobPods, At
  <2>2. /\ calls[c].op = "start" /\ MadeFor(calls[c].target, calls[c].user)
    BY <2>1 DEF Inv, Fits, Waiting
  <2>3. CASE MyJob(c).pod = "running"
    <3>1. Finished(c, "ok") /\ jobs' = jobs
      BY <2>1, <2>3 DEF PodSeen
    <3>2. jobs[calls[c].target].wasRunning
      BY <2>2, <2>3 DEF MyJob, MadeFor, Inv, JobInv
    <3>3. Fits(calls[c])'
      BY <2>2, <3>1, <3>2, FinishedFacts DEF Fits, Waiting, MadeFor
    <3> QED
      BY <3>1, <3>3, FinishedFacts, CallStep
  <2>4. CASE MyJob(c).pod # "running"
    <3>1. Fails(c) \/ \E s \in {"podEvents", "jobEvents"} : Goto(c, s)
      BY <2>1, <2>4 DEF PodSeen
    <3> QED
      BY <2>1, <3>1, FailsInv, LoopInv DEF Waiting
  <2> QED
    BY <2>3, <2>4
<1>2. CASE \/ ListJobPodsFails(c) \/ ReadPodEvents(c) \/ ReadJobEvents(c)
           \/ EventsFail(c) \/ NextRound(c) \/ GiveUp(c)
  <2>1. calls[c].pc \in Waiting /\ (Fails(c) \/ \E s \in Waiting : Goto(c, s))
    BY <1>2 DEF ListJobPodsFails, ReadPodEvents, ReadJobEvents, EventsFail, NextRound,
                GiveUp, At, Waiting
  <2> QED
    BY <2>1, FailsInv, LoopInv
<1> QED
  BY <1>1, <1>2

(* owned lets a call through only to a Job that was made for its user: a pod *)
(* that is there belongs to a Job that was created.                          *)
LEMMA OwnedInv == ASSUME Inv, NEW c \in Calls, Owned(c) PROVE Inv'
<1> DEFINE t == calls[c].target
<1>1. CASE /\ Exists(t) /\ OwnedBy(t, calls[c].user) /\ Runs(t)
           /\ Goto(c, "stream")
  <2>1. t \in Jobs
    BY <1>1 DEF OwnedBy, Inv, TypeOK, CallRecords, Targets
  <2>2. jobs[t].pod = "running" /\ jobs[t].requester = calls[c].user
    BY <1>1, <2>1, AppPodAssumption DEF Runs, OwnedBy
  <2>3. jobs[t].state # "absent"
    <3>1. NoJob.pod = "none"
      BY DEF NoJob
    <3> QED
      BY <2>1, <2>2, <3>1 DEF Inv, JobInv
  <2>4. MadeFor(t, calls[c].user)
    BY <2>1, <2>2, <2>3 DEF MadeFor
  <2>5. calls[c].op \in {"exec", "finish"} /\ calls[c].result = "none" /\ ~calls[c].ran
    BY DEF Owned, At, Inv, Fits
  <2>6. "stream" \in Stages
    BY DEF Stages
  <2>7. Fits(calls[c])'
    BY <1>1, <2>4, <2>5, <2>6, GotoFacts DEF Fits, Waiting, MadeFor
  <2> QED
    BY <1>1, <2>6, <2>7, GotoFacts, CallStep
<1> QED
  BY <1>1, FailsInv DEF Owned

(* A command or its stream ends.                                             *)
LEMMA CommandInv ==
    ASSUME Inv, NEW c \in Calls,
           CommandSucceeds(c) \/ StreamBreaks(c) \/ StreamRefused(c)
    PROVE  Inv'
<1>1. /\ calls[c].pc \in {"stream", "running"} /\ jobs' = jobs
      /\ \E r \in {"ok", "error"} :
            /\ Finished(c, r)
            /\ r = "ok" /\ calls[c].op = "finish" => MyJob(c).done
  BY DEF CommandSucceeds, StreamBreaks, StreamRefused, StreamError, At
<1>2. calls[c].op \in {"exec", "finish"} /\ MadeFor(calls[c].target, calls[c].user)
  BY <1>1 DEF Inv, Fits
<1>3. Fits(calls[c])'
  BY <1>1, <1>2, FinishedFacts DEF Fits, Waiting, MadeFor, MyJob
<1> QED
  BY <1>1, <1>3, FinishedFacts, CallStep

LEMMA ListPodsInv == ASSUME Inv, NEW c \in Calls, ListPods(c) PROVE Inv'
<1>1. /\ calls[c].op = "list" /\ jobs' = jobs
      /\ \E r \in {"ok", "error"} : Finished(c, r)
  BY DEF ListPods, At, Inv, Fits
<1>2. Fits(calls[c])'
  BY <1>1, FinishedFacts DEF Fits, Waiting
<1> QED
  BY <1>1, <1>2, FinishedFacts, CallStep

(* Calls that are answered, or lost with the server, leave an idle one.      *)
LEMMA IdleFits == IdleCall \in CallRecords /\ Fits(IdleCall)
<1>1. AnyName \in Names
  BY NamesAssumption DEF AnyName
<1> QED
  BY <1>1 DEF IdleCall, CallRecords, Stages, Ops, Targets, Fits, Waiting

LEMMA AnswerInv == ASSUME Inv, NEW c \in Calls, Answer(c) PROVE Inv'
<1>1. /\ jobs' = jobs /\ calls' \in [Calls -> CallRecords] /\ calls'[c] = IdleCall
      /\ \A d \in Calls : d # c => calls'[d] = calls[d]
  BY IdleFits DEF Answer, Inv, TypeOK
<1>2. Fits(calls[c])'
  BY <1>1 DEF Fits, Waiting, IdleCall
<1> QED
  BY <1>1, <1>2, CallStep

LEMMA ContextEndsInv == ASSUME Inv, NEW c \in Calls, ContextEnds(c) PROVE Inv'
<1>1. /\ jobs' = jobs /\ calls' \in [Calls -> CallRecords]
      /\ \A d \in Calls : d # c => calls'[d] = calls[d]
      /\ calls'[c].pc = calls[c].pc /\ calls'[c].op = calls[c].op
      /\ calls'[c].user = calls[c].user /\ calls'[c].target = calls[c].target
      /\ calls'[c].result = calls[c].result /\ calls'[c].ran = calls[c].ran
  BY DEF ContextEnds, Inv, TypeOK, CallRecords
<1>2. Fits(calls[c])'
  BY <1>1 DEF Fits, MadeFor, Inv
<1> QED
  BY <1>1, <1>2, CallStep

LEMMA RestartInv == ASSUME Inv, Restart PROVE Inv'
<1>1. jobs' = jobs /\ \A c \in Calls : calls'[c] = IdleCall
  BY DEF Restart
<1>2. calls' \in [Calls -> CallRecords]
  BY IdleFits DEF Restart
<1>3. \A c \in Calls : Fits(calls[c])'
  BY <1>1 DEF Fits, Waiting, IdleCall
<1> QED
  BY <1>1, <1>2, <1>3 DEF Inv, TypeOK, JobInv

--------------------------------------------------------------------------------
(* Steps that change the cluster.                                            *)

(* A Job is created, also one whose creator is not told.                     *)
LEMMA CreateJobInv == ASSUME Inv, NEW c \in Calls, NEW j \in Jobs, CreateJob(c, j) PROVE Inv'
<1> DEFINE new == job(calls[c].user)
<1>1. /\ calls[c].pc = "create" /\ jobs[j].state = "absent"
      /\ jobs' = [jobs EXCEPT ![j] = new]
  BY DEF CreateJob, At
<1>2. calls[c].op = "start" /\ calls[c].user \in People
      /\ calls[c].result = "none" /\ ~calls[c].ran
  BY <1>1 DEF Inv, Fits
<1>3. /\ new \in JobRecords /\ new.state = "active" /\ new.requester = calls[c].user
      /\ new.pod = "none"
  <2>1. NoJob \in JobRecords /\ calls[c].user \in Names
    BY <1>1, <1>2, PeopleAssumption DEF Inv, TypeOK, JobInv
  <2> QED
    BY <2>1 DEF job, NoJob, JobRecords
<1> HIDE DEF new
<1>4. jobs' \in [Jobs -> JobRecords] /\ \A i \in Jobs : jobs'[i] = IF i = j THEN new ELSE jobs[i]
  BY <1>1, <1>3 DEF Inv, TypeOK
<1>5. Grow
  BY <1>1, <1>4 DEF Grow
<1>6. \A i \in Jobs : JobInv(i)'
  BY <1>2, <1>3, <1>4 DEF Inv, JobInv
<1>7. CASE calls' = [calls EXCEPT ![c].pc = "pods", ![c].target = j]
  <2> DEFINE k == [calls[c] EXCEPT !.pc = "pods", !.target = j]
  <2>3. calls' = [calls EXCEPT ![c] = k] /\ calls[c] \in CallRecords
    BY <1>7 DEF Inv, TypeOK
  <2>4. /\ k \in CallRecords /\ k.pc = "pods" /\ k.op = "start" /\ k.target = j
        /\ k.user = calls[c].user /\ k.result = "none" /\ ~k.ran
    BY <1>2, <2>3 DEF CallRecords, Stages, Targets
  <2> HIDE DEF k
  <2>1. /\ calls' \in [Calls -> CallRecords]
        /\ \A d \in Calls : d # c => calls'[d] = calls[d]
        /\ calls'[c].pc = "pods" /\ calls'[c].op = "start" /\ calls'[c].target = j
        /\ calls'[c].user = calls[c].user /\ calls'[c].result = "none" /\ ~calls'[c].ran
    BY <2>3, <2>4 DEF Inv, TypeOK
  <2>2. Fits(calls[c])'
    BY <1>3, <1>4, <2>1 DEF Fits, MadeFor, Waiting
  <2> QED
    BY <1>4, <1>5, <1>6, <2>1, <2>2, StepInv DEF TypeOK
<1>8. CASE Finished(c, "error")
  <2>1. Fits(calls[c])'
    BY <1>8, FinishedFacts DEF Fits, Waiting
  <2> QED
    BY <1>4, <1>5, <1>6, <1>8, <2>1, FinishedFacts, StepInv DEF TypeOK
<1> QED
  BY <1>7, <1>8 DEF CreateJob

(* A command starts; that of Finish may make the done file.                  *)
LEMMA StreamOpensFacts ==
    ASSUME Inv, NEW c \in Calls, StreamOpens(c)
    PROVE  /\ calls' \in [Calls -> CallRecords]
           /\ \A d \in Calls : d # c => calls'[d] = calls[d]
           /\ calls[c].pc = "stream" /\ calls'[c].pc = "running"
           /\ calls'[c].op = calls[c].op /\ calls'[c].user = calls[c].user
           /\ calls'[c].target = calls[c].target /\ calls'[c].result = calls[c].result
           /\ calls'[c].ran
<1> DEFINE k == [calls[c] EXCEPT !.pc = "running", !.ran = TRUE]
<1>1. /\ calls' = [calls EXCEPT ![c] = k] /\ calls[c] \in CallRecords
      /\ calls[c].pc = "stream"
  BY DEF StreamOpens, At, Inv, TypeOK
<1>2. /\ k \in CallRecords /\ k.pc = "running" /\ k.op = calls[c].op /\ k.ran
      /\ k.user = calls[c].user /\ k.target = calls[c].target /\ k.result = calls[c].result
  BY <1>1 DEF CallRecords, Stages
<1> HIDE DEF k
<1> QED
  BY <1>1, <1>2 DEF Inv, TypeOK

LEMMA StreamOpensInv == ASSUME Inv, NEW c \in Calls, StreamOpens(c) PROVE Inv'
<1>1. /\ calls' \in [Calls -> CallRecords]
      /\ \A d \in Calls : d # c => calls'[d] = calls[d]
      /\ calls[c].pc = "stream" /\ calls'[c].pc = "running" /\ calls'[c].op = calls[c].op
      /\ calls'[c].user = calls[c].user /\ calls'[c].target = calls[c].target
      /\ calls'[c].result = calls[c].result
  BY StreamOpensFacts
<1>2. /\ calls[c].op \in {"exec", "finish"} /\ MadeFor(calls[c].target, calls[c].user)
      /\ calls[c].result = "none"
  BY <1>1 DEF Inv, Fits
<1>3. /\ jobs' \in [Jobs -> JobRecords] /\ Grow
      /\ \A j \in Jobs : JobInv(j)'
  <2>1. CASE jobs' = jobs
    BY <2>1 DEF Inv, TypeOK, JobInv, Grow
  <2>2. CASE jobs' = [jobs EXCEPT ![calls[c].target].done = TRUE]
    <3> DEFINE t == calls[c].target
    <3>1. /\ t \in Jobs /\ jobs[t].state # "absent" /\ jobs[t] \in JobRecords
      BY <1>2 DEF MadeFor, Inv, TypeOK
    <3>2. /\ jobs' \in [Jobs -> JobRecords]
          /\ \A j \in Jobs : j # t => jobs'[j] = jobs[j]
          /\ jobs'[t].state = jobs[t].state /\ jobs'[t].requester = jobs[t].requester
          /\ jobs'[t].pod = jobs[t].pod /\ jobs'[t].wasRunning = jobs[t].wasRunning
          /\ jobs'[t].done
      BY <2>2, <3>1 DEF Inv, TypeOK, JobRecords
    <3> HIDE DEF t
    <3>3. Grow
      BY <3>2 DEF Grow
    <3>4. \A j \in Jobs : JobInv(j)'
      BY <3>1, <3>2 DEF Inv, JobInv
    <3> QED
      BY <3>2, <3>3, <3>4
  <2> QED
    BY <2>1, <2>2 DEF StreamOpens
<1>4. MadeFor(calls[c].target, calls[c].user)'
  BY <1>1, <1>2, <1>3 DEF MadeFor, Grow
<1>5. Fits(calls[c])'
  BY <1>1, <1>2, <1>4 DEF Fits, Waiting
<1> QED
  BY <1>1, <1>3, <1>5, StepInv DEF TypeOK

(* A controller changes one Job that exists, keeping its requester and the   *)
(* traces of what has happened; state and pod only go forward.               *)
Forward(old, new) ==
    \/ new.state = old.state /\ new.pod = old.pod
    \/ /\ old.state = "active" /\ new.state = "active"
       /\ \/ old.pod = "none" /\ new.pod = "pending"
          \/ old.pod = "pending" /\ new.pod = "running" /\ new.wasRunning
          \/ old.pod \in {"pending", "running"} /\ new.pod \in {"succeeded", "failed"}
    \/ /\ old.state = "active" /\ new.state \in {"failed", "complete"}
       /\ old.pod \in {"succeeded", "failed"} /\ new.pod = old.pod
    \/ old.state = "active" /\ new.state = "failed" /\ new.pod = "gone"
    \/ old.state \in {"failed", "complete"} /\ new.state = "gone" /\ new.pod = "gone"

Traces(old, new) ==
    /\ new.requester = old.requester
    /\ new.wasRunning = old.wasRunning \/ new.wasRunning
    /\ new.done = old.done

LEMMA ControllersFacts ==
    ASSUME Inv, NEW j \in Jobs, Controllers(j)
    PROVE  /\ calls' = calls /\ jobs[j].state # "absent"
           /\ \E new \in JobRecords :
                 /\ jobs' = [jobs EXCEPT ![j] = new]
                 /\ Forward(jobs[j], new) /\ Traces(jobs[j], new)
<1> DEFINE old == jobs[j]
<1>1. /\ old \in JobRecords
      /\ old.state = "absent" => old.pod = "none"
      /\ old.pod \in {"none", "pending", "running"} => old.state \in {"absent", "active"}
  <2>1. old \in JobRecords /\ JobInv(j)
    BY DEF Inv, TypeOK
  <2>2. NoJob.pod = "none"
    BY DEF NoJob
  <2>3. old.state \in {"absent", "active", "failed", "complete", "gone"}
    BY <2>1 DEF JobRecords
  <2> QED
    BY <2>1, <2>2, <2>3 DEF JobInv
<1>2. ASSUME NEW new, Cluster(j, new), new \in JobRecords, old.state # "absent",
             Forward(old, new), Traces(old, new)
      PROVE  /\ calls' = calls /\ jobs[j].state # "absent"
             /\ \E k \in JobRecords :
                   /\ jobs' = [jobs EXCEPT ![j] = k]
                   /\ Forward(jobs[j], k) /\ Traces(jobs[j], k)
  BY <1>2 DEF Cluster
<1> HIDE DEF old
<1>3. CASE CreatePod(j)
  <2> DEFINE new == [old EXCEPT !.pod = "pending"]
  <2>1. CreatePod(j) /\ Cluster(j, new)
    BY <1>3 DEF CreatePod, old
  <2>2. new \in JobRecords /\ old.state # "absent" /\ Forward(old, new) /\ Traces(old, new)
    BY <1>1, <2>1 DEF CreatePod, JobActive, old, JobRecords, Forward, Traces
  <2> HIDE DEF new
  <2> QED
    BY <1>2, <2>1, <2>2
<1>4. CASE CreatePodFails(j)
  <2> DEFINE new == [old EXCEPT !.jobEvent = TRUE]
  <2>1. CreatePodFails(j) /\ Cluster(j, new)
    BY <1>4 DEF CreatePodFails, old
  <2>2. new \in JobRecords /\ old.state # "absent" /\ Forward(old, new) /\ Traces(old, new)
    BY <1>1, <2>1 DEF CreatePodFails, JobActive, old, JobRecords, Forward, Traces
  <2> HIDE DEF new
  <2> QED
    BY <1>2, <2>1, <2>2
<1>5. CASE PodTrouble(j)
  <2> DEFINE event == [old EXCEPT !.podEvent = TRUE]
             wait == [old EXCEPT !.waiting = TRUE]
  <2>1. /\ old.pod = "pending" /\ (Cluster(j, event) \/ Cluster(j, wait))
    BY <1>5 DEF PodTrouble, old
  <2>2. /\ event \in JobRecords /\ Forward(old, event) /\ Traces(old, event)
        /\ wait \in JobRecords /\ Forward(old, wait) /\ Traces(old, wait)
    BY <1>1, <2>1 DEF JobRecords, Forward, Traces
  <2> HIDE DEF event, wait
  <2> QED
    BY <1>1, <1>2, <2>1, <2>2
<1>6. CASE PodRuns(j)
  <2> DEFINE new == [old EXCEPT !.pod = "running", !.wasRunning = TRUE]
  <2>1. PodRuns(j) /\ Cluster(j, new)
    BY <1>6 DEF PodRuns, old
  <2>2. new \in JobRecords /\ old.state # "absent" /\ Forward(old, new) /\ Traces(old, new)
    BY <1>1, <2>1 DEF PodRuns, JobActive, old, JobRecords, Forward, Traces
  <2> HIDE DEF new
  <2> QED
    BY <1>2, <2>1, <2>2
<1>7. CASE PodExits(j)
  <2> DEFINE new == [old EXCEPT !.pod = "succeeded"]
  <2>1. PodExits(j) /\ Cluster(j, new)
    BY <1>7 DEF PodExits, old
  <2>2. new \in JobRecords /\ old.state # "absent" /\ Forward(old, new) /\ Traces(old, new)
    BY <1>1, <2>1 DEF PodExits, JobActive, old, JobRecords, Forward, Traces
  <2> HIDE DEF new
  <2> QED
    BY <1>2, <2>1, <2>2
<1>8. CASE PodFails(j)
  <2> DEFINE new == [old EXCEPT !.pod = "failed"]
  <2>1. PodFails(j) /\ Cluster(j, new)
    BY <1>8 DEF PodFails, old
  <2>2. new \in JobRecords /\ old.state # "absent" /\ Forward(old, new) /\ Traces(old, new)
    BY <1>1, <2>1 DEF PodFails, JobActive, old, JobRecords, Forward, Traces
  <2> HIDE DEF new
  <2> QED
    BY <1>2, <2>1, <2>2
<1>9. CASE JobEnds(j)
  <2> DEFINE new == [old EXCEPT !.state =
                         IF old.pod = "succeeded" THEN "complete" ELSE "failed"]
  <2>1. JobEnds(j) /\ Cluster(j, new)
    BY <1>9 DEF JobEnds, old
  <2>2. new \in JobRecords /\ old.state # "absent" /\ Forward(old, new) /\ Traces(old, new)
    BY <1>1, <2>1 DEF JobEnds, JobActive, old, JobRecords, Forward, Traces
  <2> HIDE DEF new
  <2> QED
    BY <1>2, <2>1, <2>2
<1>10. CASE JobDeadline(j)
  <2> DEFINE new == [old EXCEPT !.state = "failed", !.pod = "gone"]
  <2>1. JobDeadline(j) /\ Cluster(j, new)
    BY <1>10 DEF JobDeadline, old
  <2>2. new \in JobRecords /\ old.state # "absent" /\ Forward(old, new) /\ Traces(old, new)
    BY <1>1, <2>1 DEF JobDeadline, JobActive, old, JobRecords, Forward, Traces
  <2> HIDE DEF new
  <2> QED
    BY <1>2, <2>1, <2>2
<1>11. CASE JobTTL(j)
  <2> DEFINE new == [old EXCEPT !.state = "gone", !.pod = "gone"]
  <2>1. JobTTL(j) /\ Cluster(j, new)
    BY <1>11 DEF JobTTL, old
  <2>2. new \in JobRecords /\ old.state # "absent" /\ Forward(old, new) /\ Traces(old, new)
    BY <1>1, <2>1 DEF JobTTL, JobActive, old, JobRecords, Forward, Traces
  <2> HIDE DEF new
  <2> QED
    BY <1>2, <2>1, <2>2
<1> QED
  BY <1>3, <1>4, <1>5, <1>6, <1>7, <1>8, <1>9, <1>10, <1>11 DEF Controllers

LEMMA ControllersInv == ASSUME Inv, NEW j \in Jobs, Controllers(j) PROVE Inv'
<1>1. PICK new \in JobRecords :
        /\ jobs' = [jobs EXCEPT ![j] = new]
        /\ Forward(jobs[j], new) /\ Traces(jobs[j], new)
  BY ControllersFacts
<1>2. calls' = calls /\ jobs[j].state # "absent"
  BY ControllersFacts
<1>3. /\ jobs' \in [Jobs -> JobRecords]
      /\ \A i \in Jobs : jobs'[i] = IF i = j THEN new ELSE jobs[i]
  BY <1>1 DEF Inv, TypeOK
<1>4. Grow
  BY <1>1, <1>3 DEF Grow, Traces, Forward
<1>5. \A i \in Jobs : JobInv(i)'
  <2>1. JobInv(j)'
    BY <1>1, <1>2, <1>3 DEF Inv, JobInv, Forward, Traces
  <2> QED
    BY <1>3, <2>1 DEF Inv, JobInv
<1>6. TypeOK'
  BY <1>2, <1>3 DEF Inv, TypeOK
<1> QED
  BY <1>2, <1>4, <1>5, <1>6, StepInv

--------------------------------------------------------------------------------
(* Every step keeps the invariant.                                           *)
LEMMA NextInv == Inv /\ [Next]_vars => Inv'
<1> SUFFICES ASSUME Inv, [Next]_vars PROVE Inv'
  OBVIOUS
<1>1. CASE UNCHANGED vars
  BY <1>1 DEF vars, Inv, TypeOK, Fits, MadeFor, JobInv
<1>2. ASSUME NEW c \in Calls, Serve(c) PROVE Inv'
  <2>1. CASE Start(c)
    BY <2>1, CreateJobInv, WaitInv, FailsInv DEF Start, CreateFails
  <2>2. CASE ExecOrFinish(c)
    BY <2>2, OwnedInv, FailsInv, StreamOpensInv, CommandInv DEF ExecOrFinish, OwnedFails
  <2>3. CASE Identify(c) \/ CallerFails(c) \/ ListPods(c) \/ Answer(c)
    BY <2>3, IdentifyInv, FailsInv, ListPodsInv, AnswerInv DEF CallerFails
  <2> QED
    BY <1>2, <2>1, <2>2, <2>3 DEF Serve
<1> QED
  BY <1>1, <1>2, ToolCallInv, ContextEndsInv, ControllersInv, RestartInv DEF Next

(* The invariant in every state.                                             *)
LEMMA AlwaysInv == Spec => []Inv
  BY InitInv, NextInv, PTL DEF Spec

--------------------------------------------------------------------------------
(* In every reachable state calls and Jobs are of their types and a Job that *)
(* exists names a person as its requester: CreateJob runs past caller, and   *)
(* nothing writes the annotation after it.  What Start and Finish report is  *)
(* true of the cluster when they report it and stays so: no controller step  *)
(* takes back that a pod has run, whose it is or that its done file is       *)
(* there.                                                                    *)
THEOREM ReportsAreTrue == Spec => []DebugInv
<1>1. Inv => TypeOK /\ EveryJobHasItsOwner
  BY DEF Inv, JobInv, EveryJobHasItsOwner
<1>2. Inv => ResultsAreTrue
  BY DEF Inv, Fits, MadeFor, ResultsAreTrue, StartedPodRan, FinishOkMeansDone, MyJob
<1>3. Inv => DebugInv
  BY <1>1, <1>2 DEF DebugInv
<1> QED
  BY <1>3, AlwaysInv, PTL

--------------------------------------------------------------------------------
(* A step that leaves the cluster alone and begins no command.               *)
Quiet ==
    /\ jobs' = jobs
    /\ \A c \in Calls : calls'[c].ran =>
          calls[c].ran /\ calls'[c].target = calls[c].target /\ calls'[c].user = calls[c].user

(* Only three kinds of step are not quiet.                                   *)
LEMMA KindsOfStep ==
    ASSUME Inv, [Next]_vars
    PROVE  \/ Quiet
           \/ \E c \in Calls, j \in Jobs : CreateJob(c, j)
           \/ \E c \in Calls : StreamOpens(c)
           \/ \E j \in Jobs : Controllers(j)
<1>1. CASE UNCHANGED vars
  BY <1>1 DEF vars, Quiet
<1>2. ASSUME NEW c \in Calls, NEW s \in Stages, Goto(c, s) PROVE Quiet
  BY <1>2, GotoFacts DEF Quiet
<1>3. ASSUME NEW c \in Calls, NEW r \in {"ok", "error"}, Finished(c, r), jobs' = jobs
      PROVE  Quiet
  BY <1>3, FinishedFacts DEF Quiet
<1>4. ASSUME NEW c \in Calls, Serve(c)
      PROVE  \/ Quiet \/ StreamOpens(c)
             \/ \E j \in Jobs : CreateJob(c, j)
  <2>1. CASE Identify(c)
    <3>1. \E s \in {"create", "listPods", "owned"} : Goto(c, s) \/ Fails(c)
      BY <2>1 DEF Identify
    <3> QED
      BY <3>1, <1>2, <1>3 DEF Fails, Stages
  <2>2. CASE Start(c)
    <3>1. \/ \E j \in Jobs : CreateJob(c, j)
          \/ Fails(c)
          \/ Finished(c, "ok") /\ jobs' = jobs
          \/ \E s \in Waiting : Goto(c, s)
      BY <2>2 DEF Start, CreateFails, ListJobPods, PodSeen, ListJobPodsFails, ReadPodEvents,
                  ReadJobEvents, EventsFail, NextRound, GiveUp, Waiting
    <3> QED
      BY <3>1, <1>2, <1>3 DEF Fails, Stages, Waiting
  <2>3. CASE ExecOrFinish(c)
    <3>1. \/ StreamOpens(c)
          \/ Goto(c, "stream")
          \/ (Finished(c, "ok") \/ Finished(c, "error")) /\ jobs' = jobs
      BY <2>3 DEF ExecOrFinish, Owned, OwnedFails, Fails, StreamRefused, CommandSucceeds,
                  StreamBreaks, StreamError
    <3> QED
      BY <3>1, <1>2, <1>3 DEF Stages
  <2>4. CASE CallerFails(c) \/ ListPods(c)
    BY <2>4, <1>3 DEF CallerFails, Fails, ListPods
  <2>5. CASE Answer(c)
    BY <2>5 DEF Answer, Quiet, IdleCall, Inv, TypeOK
  <2> QED
    BY <1>4, <2>1, <2>2, <2>3, <2>4, <2>5 DEF Serve
<1>5. ASSUME NEW c \in Calls, NEW op \in Ops, NEW u \in Names, NEW t \in Targets,
             ToolCall(c, op, u, t)
      PROVE  Quiet
  BY <1>5 DEF ToolCall, Quiet, IdleCall, Inv, TypeOK
<1>6. ASSUME NEW c \in Calls, ContextEnds(c) PROVE Quiet
  BY <1>6 DEF ContextEnds, Quiet, Inv, TypeOK, CallRecords
<1>7. CASE Restart
  BY <1>7 DEF Restart, Quiet, IdleCall
<1> QED
  BY <1>1, <1>4, <1>5, <1>6, <1>7 DEF Next

(* What the parts of a call say when its command begins.                     *)
LEMMA OpensInOwnPod ==
    ASSUME Inv, NEW c \in Calls, StreamOpens(c)
    PROVE  /\ MadeFor(calls[c].target, calls[c].user) /\ calls[c].user \in People
           /\ jobs[calls[c].target].state = "active"
           /\ jobs[calls[c].target].pod = "running"
<1> DEFINE t == calls[c].target
<1>1. MadeFor(t, calls[c].user) /\ Runs(t)
  BY DEF Inv, Fits, StreamOpens, At
<1>2. t \in Jobs /\ t # AppPod /\ JobInv(t) /\ jobs[t] \in JobRecords
  BY <1>1, AppPodAssumption DEF MadeFor, Inv, TypeOK
<1>3. jobs[t].pod = "running"
  BY <1>1, <1>2 DEF Runs
<1>4. jobs[t].state \in {"absent", "active", "failed", "complete", "gone"}
  BY <1>2 DEF JobRecords
<1>5. jobs[t].state = "active" /\ jobs[t].requester \in People
  BY <1>1, <1>2, <1>3, <1>4 DEF JobInv, MadeFor
<1> QED
  BY <1>1, <1>3, <1>5 DEF MadeFor

(* "the tools never exec into anything else": a command starts only in a     *)
(* running debug pod of the caller, though owned looked at the pod in an     *)
(* earlier request; nothing in between can give the pod to someone else.     *)
THEOREM ExecOnlyInOwnPods == Spec => OnlyOwnPods
<1>1. Inv /\ [Next]_vars => [ExecStep]_vars
  <2> SUFFICES ASSUME Inv, [Next]_vars, NEW c \in Calls, ~calls[c].ran, calls'[c].ran
               PROVE  /\ calls[c].target \in Jobs
                      /\ jobs[calls[c].target].requester = calls[c].user
                      /\ jobs[calls[c].target].pod = "running"
    BY DEF ExecStep
  <2>1. ~Quiet
    BY DEF Quiet
  <2>2. ~ \E d \in Calls, j \in Jobs : CreateJob(d, j)
    <3> SUFFICES ASSUME NEW d \in Calls, NEW j \in Jobs, CreateJob(d, j) PROVE FALSE
      OBVIOUS
    <3>1. CASE Finished(d, "error")
      BY <3>1, FinishedFacts
    <3>2. CASE calls' = [calls EXCEPT ![d].pc = "pods", ![d].target = j]
      BY <3>2 DEF Inv, TypeOK, CallRecords
    <3> QED
      BY <3>1, <3>2 DEF CreateJob
  <2>3. ~ \E j \in Jobs : Controllers(j)
    BY ControllersFacts
  <2>4. StreamOpens(c)
    BY <2>1, <2>2, <2>3, KindsOfStep, StreamOpensFacts
  <2> QED
    BY <2>4, OpensInOwnPod DEF MadeFor
<1> QED
  BY <1>1, AlwaysInv, PTL DEF Spec, OnlyOwnPods

--------------------------------------------------------------------------------
(* The steps of the debug tools as steps of the lease.                       *)

(* A change of Job j that keeps its requester changes only its phase.        *)
LEMMA PhaseMoves ==
    ASSUME Inv, NEW j \in Jobs, NEW new \in JobRecords, calls' = calls,
           jobs' = [jobs EXCEPT ![j] = new],
           jobs[j].state # "absent", new.state # "absent",
           new.requester = jobs[j].requester
    PROVE  /\ Leases' = Leases /\ Commands' = Commands
           /\ jobs'[j] = new
           /\ [i \in Jobs |-> Phase(i)]' =
                 [[i \in Jobs |-> Phase(i)] EXCEPT ![j] = Phase(j)']
<1>1. \A i \in Jobs : jobs'[i] = IF i = j THEN new ELSE jobs[i]
  BY DEF Inv, TypeOK
<1>2. \A i \in Jobs : i # j => Phase(i)' = Phase(i)
  BY <1>1 DEF Phase
<1>3. \A i \in Jobs : /\ jobs'[i].requester = jobs[i].requester
                      /\ jobs'[i].state # "absent" <=> jobs[i].state # "absent"
  BY <1>1
<1>4. Leases' = Leases
  BY <1>3 DEF Leases
<1> QED
  BY <1>1, <1>2, <1>4 DEF Commands

(* What the controllers do: the pod runs, ends or is deleted, or nothing     *)
(* that the lease shows.                                                     *)
LEMMA ControllersLease ==
    ASSUME Inv, NEW j \in Jobs, Controllers(j)
    PROVE  Lease!Run(j) \/ Lease!End(j) \/ Lease!Delete(j) \/ UNCHANGED Lease!leaseVars
<1>1. PICK new \in JobRecords :
        /\ jobs' = [jobs EXCEPT ![j] = new]
        /\ Forward(jobs[j], new) /\ Traces(jobs[j], new)
  BY ControllersFacts
<1>2. calls' = calls /\ jobs[j].state # "absent" /\ jobs[j] \in JobRecords
  BY ControllersFacts DEF Inv, TypeOK
<1>3. new.state # "absent" /\ new.requester = jobs[j].requester
  BY <1>1, <1>2 DEF Forward, Traces
<1>4. /\ Leases' = Leases /\ Commands' = Commands /\ jobs'[j] = new
      /\ [i \in Jobs |-> Phase(i)]' = [[i \in Jobs |-> Phase(i)] EXCEPT ![j] = Phase(j)']
  BY <1>1, <1>2, <1>3, PhaseMoves
<1>5. /\ jobs[j].state \in {"failed", "complete"} => jobs[j].pod \in {"succeeded", "failed", "gone"}
      /\ jobs[j].state \in {"absent", "active", "failed", "complete", "gone"}
      /\ jobs[j].pod \in {"none", "pending", "running", "succeeded", "failed", "gone"}
  BY <1>2 DEF Inv, JobInv, JobRecords
<1>6. \/ Phase(j)' = Phase(j)
      \/ Phase(j) = "waiting" /\ Phase(j)' = "running"
      \/ Phase(j) \in {"waiting", "running"} /\ Phase(j)' = "ended"
      \/ Phase(j) = "ended" /\ Phase(j)' = "deleted"
  <2>1. CASE new.state = jobs[j].state /\ new.pod = jobs[j].pod
    BY <1>4, <2>1 DEF Phase
  <2>2. CASE jobs[j].state = "active" /\ new.state = "active" /\ new.pod # jobs[j].pod
    BY <1>1, <1>4, <2>2 DEF Phase, Forward
  <2>3. CASE jobs[j].state = "active" /\ new.state \in {"failed", "complete"}
    BY <1>1, <1>4, <1>5, <2>3 DEF Phase, Forward
  <2>4. CASE jobs[j].state \in {"failed", "complete"} /\ new.state = "gone"
    BY <1>4, <1>5, <2>4 DEF Phase
  <2> QED
    BY <1>1, <2>1, <2>2, <2>3, <2>4 DEF Forward
<1>7. [i \in Jobs |-> Phase(i)][j] = Phase(j)
  OBVIOUS
<1>8. CASE Phase(j)' = Phase(j)
  <2>1. [i \in Jobs |-> Phase(i)]' = [i \in Jobs |-> Phase(i)]
    BY <1>4, <1>8
  <2> QED
    BY <1>4, <2>1 DEF Lease!leaseVars
<1>9. CASE Phase(j) = "waiting" /\ Phase(j)' = "running"
  BY <1>4, <1>7, <1>9 DEF Lease!Run, Lease!Moves
<1>10. CASE Phase(j) \in {"waiting", "running"} /\ Phase(j)' = "ended"
  BY <1>4, <1>7, <1>10 DEF Lease!End, Lease!Moves
<1>11. CASE Phase(j) = "ended" /\ Phase(j)' = "deleted"
  BY <1>4, <1>7, <1>11 DEF Lease!Delete, Lease!Moves
<1> QED
  BY <1>6, <1>8, <1>9, <1>10, <1>11

(* Every step is a step of the lease, or shows nothing of it.                *)
LEMMA StepKeepsLease == Inv /\ [Next]_vars => [Lease!Next]_Lease!leaseVars
<1> SUFFICES ASSUME Inv, [Next]_vars PROVE Lease!Next \/ UNCHANGED Lease!leaseVars
  OBVIOUS
<1>1. CASE Quiet
  <2>1. Leases' = Leases /\ [j \in Jobs |-> Phase(j)]' = [j \in Jobs |-> Phase(j)]
    BY <1>1 DEF Quiet, Leases, Phase
  <2>2. Commands' \subseteq Commands
    BY <1>1 DEF Quiet, Commands
  <2>3. Lease!Forget(Commands')
    BY <2>1, <2>2 DEF Lease!Forget
  <2> QED
    BY <2>2, <2>3 DEF Lease!Next
<1>2. ASSUME NEW c \in Calls, NEW j \in Jobs, CreateJob(c, j) PROVE Lease!Next
  <2> DEFINE u == calls[c].user
  <2>1. /\ calls[c].pc = "create" /\ jobs[j].state = "absent"
        /\ jobs' = [jobs EXCEPT ![j] = job(u)]
    BY <1>2 DEF CreateJob, At
  <2>2. u \in People /\ ~calls[c].ran
    BY <2>1 DEF Inv, Fits
  <2>3. job(u).state = "active" /\ job(u).pod = "none" /\ job(u).requester = u
    BY DEF job, NoJob
  <2>4. \A i \in Jobs : jobs'[i] = IF i = j THEN job(u) ELSE jobs[i]
    BY <2>1 DEF Inv, TypeOK
  <2>5. Phase(j) = "free" /\ Phase(j)' = "waiting"
    BY <2>1, <2>3, <2>4 DEF Phase
  <2>6. \A i \in Jobs : i # j => Phase(i)' = Phase(i)
    BY <2>4 DEF Phase
  <2>7. Leases' = Leases \cup {<<j, u>>}
    BY <2>1, <2>3, <2>4 DEF Leases
  <2>8. /\ \A d \in Calls : d # c => calls'[d] = calls[d]
        /\ ~calls'[c].ran
    <3>1. CASE Finished(c, "error")
      BY <2>2, <3>1, FinishedFacts
    <3>2. CASE calls' = [calls EXCEPT ![c].pc = "pods", ![c].target = j]
      BY <2>2, <3>2 DEF Inv, TypeOK, CallRecords
    <3> QED
      BY <1>2, <3>1, <3>2 DEF CreateJob
  <2>9. Commands' = Commands
    BY <2>2, <2>8 DEF Commands
  <2>10. [i \in Jobs |-> Phase(i)]' = [[i \in Jobs |-> Phase(i)] EXCEPT ![j] = "waiting"]
    BY <2>5, <2>6
  <2>11. Lease!Grant(j, u)
    BY <2>5, <2>7, <2>9, <2>10 DEF Lease!Grant, Lease!Moves
  <2> QED
    BY <2>2, <2>11 DEF Lease!Next
<1>3. ASSUME NEW c \in Calls, StreamOpens(c) PROVE Lease!Next
  <2> DEFINE t == calls[c].target
             u == calls[c].user
  <2>1. /\ t \in Jobs /\ jobs[t].requester = u /\ u \in People
        /\ jobs[t].state = "active" /\ jobs[t].pod = "running"
    BY <1>3, OpensInOwnPod DEF MadeFor
  <2>2. \A j \in Jobs : /\ jobs'[j].state = jobs[j].state /\ jobs'[j].pod = jobs[j].pod
                        /\ jobs'[j].requester = jobs[j].requester
    <3>1. CASE jobs' = jobs
      BY <3>1
    <3>2. CASE jobs' = [jobs EXCEPT ![t].done = TRUE]
      BY <2>1, <3>2 DEF Inv, TypeOK, JobRecords
    <3> QED
      BY <1>3, <3>1, <3>2 DEF StreamOpens
  <2>3. Leases' = Leases /\ [j \in Jobs |-> Phase(j)]' = [j \in Jobs |-> Phase(j)]
    <3>1. Leases' = Leases
      BY <2>2 DEF Leases
    <3>2. \A j \in Jobs : Phase(j)' = Phase(j)
      <4> SUFFICES ASSUME NEW j \in Jobs PROVE Phase(j)' = Phase(j)
        OBVIOUS
      <4>1. jobs'[j].state = jobs[j].state /\ jobs'[j].pod = jobs[j].pod
        BY <2>2
      <4> QED
        BY <4>1 DEF Phase
    <3> QED
      BY <3>1, <3>2
  <2>4. <<t, u>> \in Leases /\ Phase(t) = "running"
    BY <2>1 DEF Leases, Phase
  <2>5. Commands' = Commands \cup {<<t, u>>}
    BY <1>3, StreamOpensFacts DEF Commands
  <2>6. Lease!Command(t, u)
    BY <2>1, <2>3, <2>4, <2>5 DEF Lease!Command
  <2> QED
    BY <2>1, <2>6 DEF Lease!Next
<1>4. ASSUME NEW j \in Jobs, Controllers(j)
      PROVE  Lease!Next \/ UNCHANGED Lease!leaseVars
  BY <1>4, ControllersLease DEF Lease!Next
<1> QED
  BY <1>1, <1>2, <1>3, <1>4, KindsOfStep

(* The debug tools implement the lease of PodLease: calls, restarts, lost    *)
(* answers and controllers in any order give each pod to one person, once,   *)
(* and begin commands of that person only, while the pod runs.               *)
THEOREM DebugPodsImplementLease == Spec => ImplementsPodLease
<1>1. Init => Lease!Init
  <2> SUFFICES ASSUME Init PROVE Lease!Init
    OBVIOUS
  <2>1. \A j \in Jobs : jobs[j].state = "absent"
    BY DEF Init, NoJob
  <2>2. \A c \in Calls : ~calls[c].ran
    BY DEF Init, IdleCall
  <2>3. [j \in Jobs |-> Phase(j)] = [j \in Jobs |-> "free"]
    BY <2>1 DEF Phase
  <2>4. Leases = {} /\ Commands = {}
    BY <2>1, <2>2 DEF Leases, Commands
  <2> QED
    BY <2>3, <2>4 DEF Lease!Init
<1> QED
  BY <1>1, StepKeepsLease, AlwaysInv, PTL DEF Spec, ImplementsPodLease, Lease!Spec

================================================================================
