---------------------------- MODULE RagEvaluation ----------------------------
(***************************************************************************)
(* One RAG evaluation: the RAG object, its volume claim, its jobs, and the *)
(* controller of controllers/evaluation/rag_controller.go that drives them *)
(* through the phases                                                      *)
(*                                                                         *)
(*   "" -> init_pvc -> download -> generate -> judge -> upload -> complete *)
(*                                                                         *)
(* The phases are the numbers Unset = 0, InitPvc = 1, the job phases       *)
(* 2..NJobs+1 and Complete = NJobs+2; the code has NJobs = 4.              *)
(*                                                                         *)
(* The API server holds the objects. The controller reads them from its    *)
(* informer caches (the "View" variables), which follow the API server     *)
(* through one FIFO watch per kind, and every handler reads, then writes:  *)
(* each API call is a step of its own, so other actors come in between.    *)
(* Four activities of the controller run concurrently: the reconcile       *)
(* worker (rec), the predicate of the RAG watch, which deletes the jobs    *)
(* and the claim when the spec changes (resetter), the handler of the job  *)
(* watch (jobH) and the handler of the claim watch (pvcH).                 *)
(***************************************************************************)
EXTENDS Naturals, Sequences

CONSTANTS
  Apps,            \* values of spec.application
  Datasets,        \* values of the other fields that RAGSpecChanged compares
  Metrics,         \* values of spec.metrics, which it does not compare
  NJobs,           \* number of job phases
  Edits,           \* kinds of edits users make, see User
  EditTime,        \* when users make them, see MayEdit
  MaxEdits,        \* bound: edits by users
  MaxFaults,       \* bound: failed calls to the API server
  MaxJobFailures,  \* bound: failed jobs
  MaxCrashes,      \* bound: restarts of the controller
  SlowJobs         \* TRUE: no job ends before the reconcile that created it

ASSUME SpecAssumption   == "none" \notin Apps
ASSUME NJobsAssumption  == NJobs \in Nat \ {0}
ASSUME EditsAssumption  == /\ Edits \subseteq {"inputs", "metrics", "suspend", "claim"}
                           /\ EditTime \in {"any", "quiet", "ended"}
ASSUME BoundsAssumption == /\ MaxEdits \in Nat /\ MaxFaults \in Nat
                           /\ MaxJobFailures \in Nat /\ MaxCrashes \in Nat

VARIABLES
  \* the API server and the cluster
  rag,       \* the RAG object: spec, application label, status
  pvc,       \* the volume claim: "absent", "present" or "deleting"
  jobs,      \* for each job phase, its Job object or NoJob
  pods,      \* the job phases whose pod is running, with the volume mounted
  ran,       \* contents of the volume: for each job phase, the spec it ran for
  \* the informers
  ragWatch, pvcWatch, jobWatch,  \* versions on their way to the controller
  ragView, pvcView, jobView,     \* the caches the controller reads
  \* the controller
  up,        \* is it running
  queued,    \* is the RAG in the work queue
  rec,       \* the reconcile worker
  resetter,  \* DeleteJobsAndPvc, called by the predicate of the RAG watch
  jobH,      \* WhenJobChanged
  pvcH,      \* WhenPVCDeleted
  \* bounds
  used       \* edits, failed calls, failed jobs and crashes so far

cluster  == <<pvc, jobs, pods, ran>>
watches  == <<ragWatch, pvcWatch, jobWatch>>
views    == <<ragView, pvcView, jobView>>
vars     == <<rag, cluster, watches, views, up, queued, rec, resetter, jobH, pvcH, used>>

-----------------------------------------------------------------------------
(* Data *)

Unset     == 0
InitPvc   == 1
JobPhases == 2..(NJobs + 1)
Complete  == NJobs + 2
Phases    == 0..(NJobs + 2)

\* status.conditions holds at most one condition; a tag stands for its type,
\* status and message.
JobConds   == {"jobSuspended", "jobResumed", "jobComplete", "jobFailed"}
Conds      == {"nil", "needPvc", "pvcReady", "pvcFailed", "pvcDone", "waiting",
               "createFailed", "opened", "done"} \cup JobConds
\* Mutant: the status of the condition is not tested.
AnyComplete  == {"pvcReady", "jobComplete", "done", "waiting", "opened", "pvcDone"}
CompleteTrue == {"pvcReady", "jobComplete", "done"}   \* JobComplete with status True
FailedTrue   == {"pvcFailed", "createFailed", "jobFailed"}
Untimed      == {"nil", "needPvc", "pvcDone"}         \* built without a timestamp

Rags == [app: Apps, datasets: Datasets, metrics: Metrics, suspend: BOOLEAN,
         label: Apps \cup {"none"}, phase: Phases, cond: Conds]
Specs == Apps \X Datasets \X Metrics
SpecOf(r) == <<r.app, r.datasets, r.metrics>>
RAGSpecChanged(r, s) == r.app # s.app \/ r.datasets # s.datasets

Never == <<>>    \* the phase has not run on this volume
NoJob == [ver |-> Never, suspend |-> FALSE, cond |-> "none", deleting |-> FALSE]
Jobs  == [ver: Specs, suspend: BOOLEAN, cond: JobConds \cup {"none"}, deleting: BOOLEAN]
Ended(j) == j.cond \in {"jobComplete", "jobFailed"}

Pvcs == {"absent", "present", "deleting"}

\* An activity between two calls: what it read, and the status it will write.
Idle == [pc |-> "idle"]

-----------------------------------------------------------------------------
(* Writing to the API server *)

\* Mutant: the whole status is written, as an Update would.
PutStatus(cur, base, phase, cond) == [cur EXCEPT !.phase = phase, !.cond = cond]

\* Status().Patch(new, MergeFrom(base)) sends only the fields in which new
\* differs from base, and is not checked against the stored version.
PatchStatus(cur, base, phase, cond) ==
  [cur EXCEPT !.phase = IF phase = base.phase THEN @ ELSE phase,
              !.cond  = IF cond = base.cond /\ cond \in Untimed THEN @ ELSE cond]

Notify(watch, x) == IF up THEN Append(watch, x) ELSE watch

StoreRag(r) ==
  /\ rag' = r
  /\ ragWatch' = IF r = rag THEN ragWatch ELSE Notify(ragWatch, r)

StoreJob(p, j) ==
  /\ jobs' = [jobs EXCEPT ![p] = j]
  /\ jobWatch' = Notify(jobWatch, <<p, j>>)

StorePvc(s) ==
  /\ pvc' = s
  /\ pvcWatch' = Notify(pvcWatch, s)

\* One call to the API server fails.
Fault == /\ used.faults < MaxFaults
         /\ used' = [used EXCEPT !.faults = @ + 1]

\* Reconcile returns an error: the work queue tries it again.
Retry == queued' = TRUE /\ rec' = Idle

Plan(phase, cond) ==
  [pc |-> "patch", snap |-> rec.snap, phase |-> phase, cond |-> cond]

-----------------------------------------------------------------------------
(* Initial state: the RAG was just created and its Create event queued it. *)

Init ==
  /\ rag \in [app: Apps, datasets: Datasets, metrics: Metrics, suspend: BOOLEAN,
              label: {"none"}, phase: {Unset}, cond: {"nil"}]
  /\ pvc = "absent"
  /\ jobs = [p \in JobPhases |-> NoJob]
  /\ pods = {}
  /\ ran = [p \in JobPhases |-> Never]
  /\ ragWatch = <<>> /\ pvcWatch = <<>> /\ jobWatch = <<>>
  /\ ragView = rag /\ pvcView = pvc /\ jobView = jobs
  /\ up = TRUE /\ queued = TRUE
  /\ rec = Idle /\ resetter = Idle /\ jobH = Idle /\ pvcH = Idle
  /\ used = [edits |-> 0, faults |-> 0, failures |-> 0, crashes |-> 0]

-----------------------------------------------------------------------------
(* Reconcile: read the RAG from the cache and choose what to do. *)

Take(next) ==
  /\ queued /\ rec = Idle
  /\ queued' = FALSE
  /\ rec' = next
  /\ UNCHANGED <<rag, cluster, watches, views, up, resetter, jobH, pvcH, used>>

Labelled == ragView.label = ragView.app
\* Mutants: Complete goes on to a next phase; init_pvc does not wait for its claim.
AdvancesAtComplete == Labelled /\ ragView.phase >= InitPvc /\ ragView.cond \in CompleteTrue
AdvancesAtOnce == Labelled /\ (\/ ragView.phase = InitPvc
                               \/ /\ ragView.phase \in JobPhases
                                  /\ ragView.cond \in CompleteTrue)
Advances == Labelled /\ ragView.phase \in 1..(NJobs + 1) /\ ragView.cond \in CompleteTrue
Works    == Labelled /\ ragView.phase \in 1..(NJobs + 1) /\ ragView.cond \notin CompleteTrue

\* The application label does not match the spec.
ReconcileLabel == ~Labelled /\ Take([pc |-> "label", snap |-> ragView])

ReconcileUnset ==
  /\ Labelled /\ ragView.phase = Unset
  /\ Take([pc |-> "patch", snap |-> ragView, phase |-> InitPvc, cond |-> "needPvc"])

\* The condition that opens a phase. Mutant: nothing is special about the last.
OpenedAny(p) == IF p = 2 THEN "pvcDone" ELSE "opened"
Opened(p) == IF p = 2 THEN "pvcDone" ELSE IF p = Complete THEN "done" ELSE "opened"

\* The condition says that the current phase is over: open the next one.
ReconcileAdvance ==
  /\ Advances
  /\ Take([pc |-> "patch", snap |-> ragView, phase |-> ragView.phase + 1,
           cond |-> Opened(ragView.phase + 1)])

ReconcilePvc == /\ Works /\ ragView.phase = InitPvc
                /\ Take([pc |-> "pvc", snap |-> ragView])

ReconcileJob == /\ Works /\ ragView.phase # InitPvc
                /\ Take([pc |-> "job", snap |-> ragView])

ReconcileComplete == Labelled /\ ragView.phase = Complete /\ Take(Idle)

(* Reconcile: the calls that follow. *)

\* Update is checked against the stored version, a patch is not.
UpdateLabel ==
  /\ rec.pc = "label"
  /\ \/ /\ rag = rec.snap
        /\ StoreRag([rag EXCEPT !.label = rag.app])
        /\ rec' = Idle /\ UNCHANGED queued
     \/ /\ rag # rec.snap
        /\ Retry /\ UNCHANGED <<rag, ragWatch>>
  /\ UNCHANGED <<cluster, pvcWatch, jobWatch, views, up, resetter, jobH, pvcH, used>>

PatchRag ==
  /\ rec.pc = "patch"
  /\ StoreRag(PatchStatus(rag, rec.snap, rec.phase, rec.cond))
  /\ rec' = Idle
  /\ UNCHANGED <<cluster, pvcWatch, jobWatch, views, up, queued, resetter, jobH, pvcH, used>>

\* initPVC: the claim is created unless the cache has one.
CreatePvc ==
  /\ rec.pc = "pvc" /\ pvcView = "absent"
  /\ \/ /\ pvc = "absent"
        /\ StorePvc("present")
        /\ rec' = Plan(InitPvc, "pvcReady")
        /\ UNCHANGED used
     \/ /\ (pvc # "absent" /\ UNCHANGED used) \/ Fault
        /\ rec' = Plan(InitPvc, "pvcFailed")
        /\ UNCHANGED <<pvc, pvcWatch>>
  /\ UNCHANGED <<rag, jobs, pods, ran, ragWatch, jobWatch, views, up, queued, resetter, jobH, pvcH>>

FoundPvc ==
  /\ rec.pc = "pvc"
  /\ \/ /\ pvcView = "present"
        /\ rec' = Plan(InitPvc, "pvcReady")
        /\ UNCHANGED queued
     \/ pvcView = "deleting" /\ Retry
  /\ UNCHANGED <<rag, cluster, watches, views, up, resetter, jobH, pvcH, used>>

\* The job of the current phase. Mutant: that of the next one.
NextJobName(r) == r.phase + 1
PhaseJobName(r) == r.phase

\* JobGenerator: the job of the phase is created unless the cache has one.
CreateJob ==
  /\ rec.pc = "job"
  /\ LET p == PhaseJobName(rec.snap) IN
     /\ jobView[p] = NoJob
     /\ \/ /\ jobs[p] = NoJob
           /\ StoreJob(p, [ver |-> SpecOf(rec.snap), suspend |-> rec.snap.suspend,
                           cond |-> "none", deleting |-> FALSE])
           /\ rec' = Plan(rec.snap.phase, "waiting")
           /\ UNCHANGED used
        \/ /\ (jobs[p] # NoJob /\ UNCHANGED used) \/ Fault
           /\ rec' = Plan(rec.snap.phase, "createFailed")
           /\ UNCHANGED <<jobs, jobWatch>>
  /\ UNCHANGED <<rag, pvc, pods, ran, ragWatch, pvcWatch, views, up, queued, resetter, jobH, pvcH>>

\* JobGenerator: the job exists. It is suspended or resumed as the spec says.
SuspendJob ==
  /\ rec.pc = "job"
  /\ LET p == PhaseJobName(rec.snap)
         j == jobView[p] IN
     /\ j # NoJob /\ ~j.deleting
     /\ j.suspend # rec.snap.suspend /\ j.cond # "jobComplete"
     /\ \/ /\ jobs[p] = j
           /\ StoreJob(p, [j EXCEPT !.suspend = rec.snap.suspend])
           /\ rec' = Idle /\ UNCHANGED queued
        \/ /\ jobs[p] # j
           /\ Retry /\ UNCHANGED <<jobs, jobWatch>>
  /\ UNCHANGED <<rag, pvc, pods, ran, ragWatch, pvcWatch, views, up, resetter, jobH, pvcH, used>>

\* phaseHandler drops errJobNotDone. Mutant: it returns it.
NotDoneRetried == Retry
NotDone == rec' = Idle /\ UNCHANGED queued

FoundJob ==
  /\ rec.pc = "job"
  /\ LET p == PhaseJobName(rec.snap)
         j == jobView[p] IN
     /\ j # NoJob
     /\ \/ j.deleting /\ Retry
        \/ /\ ~j.deleting
           /\ j.suspend = rec.snap.suspend \/ j.cond = "jobComplete"
           /\ NotDone
  /\ UNCHANGED <<rag, cluster, watches, views, up, resetter, jobH, pvcH, used>>

\* A call fails, or the generator of the job does: Reconcile returns the error.
ReconcileFails ==
  /\ rec.pc \in {"label", "pvc", "job", "patch"}
  /\ Fault /\ Retry
  /\ UNCHANGED <<rag, cluster, watches, views, up, resetter, jobH, pvcH>>

-----------------------------------------------------------------------------
(* The RAG watch and its predicate *)

DeliverRag ==
  /\ ragWatch # <<>> /\ resetter = Idle
  /\ ragWatch' = Tail(ragWatch)
  /\ LET old == ragView
         new == Head(ragWatch) IN
     /\ ragView' = new
     /\ \/ /\ RAGSpecChanged(new, old)      \* re-execute: and no event for Reconcile
           /\ resetter' = [pc |-> "list", snap |-> new]
           /\ UNCHANGED queued
        \/ /\ ~RAGSpecChanged(new, old)
           /\ queued' = TRUE
           /\ UNCHANGED resetter
  /\ UNCHANGED <<rag, cluster, pvcWatch, jobWatch, pvcView, jobView, up, rec, jobH, pvcH, used>>

(* DeleteJobsAndPvc: its error is ignored, so the first failed call ends it. *)

\* DeleteAllOf lists the jobs of the RAG, then deletes them in the foreground.
ListJobs ==
  /\ resetter.pc = "list"
  /\ resetter' = [pc |-> "jobs", snap |-> resetter.snap,
                  todo |-> {p \in JobPhases : jobs[p] # NoJob}]
  /\ UNCHANGED <<rag, cluster, watches, views, up, queued, rec, jobH, pvcH, used>>

DeleteJob(p) ==
  /\ resetter.pc = "jobs" /\ p \in resetter.todo
  /\ IF jobs[p] # NoJob THEN StoreJob(p, [jobs[p] EXCEPT !.deleting = TRUE])
                        ELSE UNCHANGED <<jobs, jobWatch>>
  /\ resetter' = [resetter EXCEPT !.todo = @ \ {p}]
  /\ UNCHANGED <<rag, pvc, pods, ran, ragWatch, pvcWatch, views, up, queued, rec, jobH, pvcH, used>>

\* Mutant: the claim stays.
KeepPvc ==
  /\ resetter.pc = "jobs" /\ resetter.todo = {}
  /\ resetter' = [pc |-> "patch", snap |-> resetter.snap]
  /\ UNCHANGED <<rag, cluster, watches, views, up, queued, rec, jobH, pvcH, used>>

DeletePvc ==
  /\ resetter.pc = "jobs" /\ resetter.todo = {}
  /\ IF pvc = "present" THEN StorePvc("deleting") ELSE UNCHANGED <<pvc, pvcWatch>>
  /\ resetter' = [pc |-> "patch", snap |-> resetter.snap]
  /\ UNCHANGED <<rag, jobs, pods, ran, ragWatch, jobWatch, views, up, queued, rec, jobH, pvcH, used>>

ResetStatus ==
  /\ resetter.pc = "patch"
  /\ StoreRag(PatchStatus(rag, resetter.snap, Unset, "nil"))
  /\ resetter' = Idle
  /\ UNCHANGED <<cluster, pvcWatch, jobWatch, views, up, queued, rec, jobH, pvcH, used>>

ResetFails ==
  /\ resetter # Idle
  /\ Fault
  /\ resetter' = Idle
  /\ UNCHANGED <<rag, cluster, watches, views, up, queued, rec, jobH, pvcH>>

(* The job watch: WhenJobChanged copies the condition of a job to the RAG. *)

DeliverJob ==
  /\ jobWatch # <<>> /\ jobH = Idle
  /\ jobWatch' = Tail(jobWatch)
  /\ LET p == Head(jobWatch)[1]
         j == Head(jobWatch)[2] IN
     /\ jobView' = [jobView EXCEPT ![p] = j]
     /\ jobH' = IF /\ j # NoJob /\ jobView[p] # NoJob
                   /\ j.cond # jobView[p].cond /\ j.cond # "none"
                THEN [pc |-> "patch", snap |-> ragView, cond |-> j.cond]
                ELSE Idle
  /\ UNCHANGED <<rag, cluster, ragWatch, pvcWatch, ragView, pvcView, up, queued, rec,
                 resetter, pvcH, used>>

WhenJobChanged ==
  /\ jobH # Idle
  /\ jobH' = Idle
  /\ \/ /\ StoreRag(PatchStatus(rag, jobH.snap, jobH.snap.phase, jobH.cond))
        /\ UNCHANGED used
     \/ Fault /\ UNCHANGED <<rag, ragWatch>>
  /\ UNCHANGED <<cluster, pvcWatch, jobWatch, views, up, queued, rec, resetter, pvcH>>

(* The claim watch: WhenPVCDeleted starts the evaluation again. *)

DeliverPvc ==
  /\ pvcWatch # <<>> /\ pvcH = Idle
  /\ pvcWatch' = Tail(pvcWatch)
  /\ pvcView' = Head(pvcWatch)
  /\ pvcH' = IF Head(pvcWatch) = "absent" THEN [pc |-> "patch", snap |-> ragView] ELSE Idle
  /\ UNCHANGED <<rag, cluster, ragWatch, jobWatch, ragView, jobView, up, queued, rec,
                 resetter, jobH, used>>

WhenPVCDeleted ==
  /\ pvcH # Idle
  /\ pvcH' = Idle
  /\ \/ /\ StoreRag(PatchStatus(rag, pvcH.snap, Unset, "nil"))
        /\ UNCHANGED used
     \/ Fault /\ UNCHANGED <<rag, ragWatch>>
  /\ UNCHANGED <<cluster, pvcWatch, jobWatch, views, up, queued, rec, resetter, jobH>>

-----------------------------------------------------------------------------
(* The cluster: the job controller and the garbage collector *)

Unfinished(p) == jobs[p] # NoJob /\ ~Ended(jobs[p])

\* The job's condition changes; the controller learns of it by its watch.
JobCondition(p, cond) ==
  /\ StoreJob(p, [jobs[p] EXCEPT !.cond = cond])
  /\ UNCHANGED <<rag, pvc, ragWatch, pvcWatch, views, up, queued, rec, resetter, jobH, pvcH>>

\* A pod is not scheduled on a claim that is being deleted.
PodStarts(p) ==
  /\ Unfinished(p) /\ ~jobs[p].suspend /\ ~jobs[p].deleting /\ p \notin pods
  /\ jobs[p].cond # "jobSuspended"
  /\ pvc = "present"
  /\ pods' = pods \cup {p}
  /\ UNCHANGED <<rag, pvc, jobs, ran, watches, views, up, queued, rec, resetter, jobH, pvcH, used>>

CreatingJob(p) == rec.pc = "patch" /\ rec.cond = "waiting" /\ rec.snap.phase = p

JobEnds(p, cond) ==
  /\ p \in pods
  /\ SlowJobs => ~CreatingJob(p)
  /\ pods' = pods \ {p}
  /\ JobCondition(p, cond)

JobCompletes(p) ==
  /\ JobEnds(p, "jobComplete")
  /\ ran' = [ran EXCEPT ![p] = jobs[p].ver]
  /\ UNCHANGED used

JobFails(p) ==
  /\ used.failures < MaxJobFailures
  /\ used' = [used EXCEPT !.failures = @ + 1]
  /\ JobEnds(p, "jobFailed")
  /\ UNCHANGED ran

\* A suspended job has no pods: the running one is deleted.
JobSuspends(p) ==
  /\ Unfinished(p) /\ ~jobs[p].deleting
  /\ jobs[p].suspend /\ jobs[p].cond # "jobSuspended"
  /\ pods' = pods \ {p}
  /\ JobCondition(p, "jobSuspended")
  /\ UNCHANGED <<ran, used>>

JobResumes(p) ==
  /\ Unfinished(p) /\ ~jobs[p].deleting
  /\ ~jobs[p].suspend /\ jobs[p].cond = "jobSuspended"
  /\ JobCondition(p, "jobResumed")
  /\ UNCHANGED <<pods, ran, used>>

\* Foreground deletion: the pods of the job go before the job does.
JobCollected(p) ==
  /\ jobs[p].deleting
  /\ StoreJob(p, NoJob)
  /\ pods' = pods \ {p}
  /\ UNCHANGED <<rag, pvc, ran, ragWatch, pvcWatch, views, up, queued, rec, resetter,
                 jobH, pvcH, used>>

PvcCollected ==
  /\ pvc = "deleting" /\ pods = {}     \* pvc-protection
  /\ StorePvc("absent")
  /\ ran' = [p \in JobPhases |-> Never]
  /\ UNCHANGED <<rag, jobs, pods, ragWatch, jobWatch, views, up, queued, rec, resetter,
                 jobH, pvcH, used>>

-----------------------------------------------------------------------------
(* Users *)

\* Nothing is under way in the controller, on a watch or in the collector.
Quiet ==
  /\ up /\ ~queued /\ rec = Idle /\ resetter = Idle /\ jobH = Idle /\ pvcH = Idle
  /\ ragWatch = <<>> /\ jobWatch = <<>> /\ pvcWatch = <<>>
  /\ pvc # "deleting" /\ \A p \in JobPhases : ~jobs[p].deleting

\* Users may edit at any time; or only when nothing is under way, a running
\* job excepted; or only when, besides, every job has ended.
MayEdit ==
  /\ used.edits < MaxEdits
  /\ EditTime # "any" => Quiet
  /\ EditTime = "ended" => \A p \in JobPhases : ~Unfinished(p)

Edit(r) ==
  /\ MayEdit
  /\ used' = [used EXCEPT !.edits = @ + 1]
  /\ StoreRag(r)
  /\ UNCHANGED <<cluster, pvcWatch, jobWatch, views, up, queued, rec, resetter, jobH, pvcH>>

EditInputs ==
  /\ "inputs" \in Edits
  /\ \E a \in Apps, d \in Datasets :
       /\ <<a, d>> # <<rag.app, rag.datasets>>
       /\ Edit([rag EXCEPT !.app = a, !.datasets = d])
EditMetrics ==
  "metrics" \in Edits /\ \E m \in Metrics \ {rag.metrics} : Edit([rag EXCEPT !.metrics = m])
EditSuspend ==
  "suspend" \in Edits /\ Edit([rag EXCEPT !.suspend = ~@])

RemovePvc ==
  /\ "claim" \in Edits /\ pvc = "present" /\ MayEdit
  /\ used' = [used EXCEPT !.edits = @ + 1]
  /\ StorePvc("deleting")
  /\ UNCHANGED <<rag, jobs, pods, ran, ragWatch, jobWatch, views, up, queued, rec, resetter,
                 jobH, pvcH>>

-----------------------------------------------------------------------------
(* The controller stops and starts. At the start its caches are listed     *)
(* afresh and every RAG gets a Create event; nothing else is replayed.     *)

Crash ==
  /\ up /\ used.crashes < MaxCrashes
  /\ used' = [used EXCEPT !.crashes = @ + 1]
  /\ up' = FALSE /\ queued' = FALSE
  /\ rec' = Idle /\ resetter' = Idle /\ jobH' = Idle /\ pvcH' = Idle
  /\ ragWatch' = <<>> /\ pvcWatch' = <<>> /\ jobWatch' = <<>>
  /\ UNCHANGED <<rag, cluster, views>>

Restart ==
  /\ ~up
  /\ up' = TRUE /\ queued' = TRUE
  /\ ragView' = rag /\ pvcView' = pvc /\ jobView' = jobs
  /\ UNCHANGED <<rag, cluster, watches, rec, resetter, jobH, pvcH, used>>

-----------------------------------------------------------------------------

ReconcileStep ==
  \/ ReconcileLabel \/ ReconcileUnset \/ ReconcileAdvance \/ ReconcilePvc
  \/ ReconcileJob \/ ReconcileComplete
  \/ UpdateLabel \/ PatchRag \/ CreatePvc \/ FoundPvc
  \/ CreateJob \/ SuspendJob \/ FoundJob

ResetStep ==
  \/ ListJobs \/ (\E p \in JobPhases : DeleteJob(p)) \/ DeletePvc \/ ResetStatus

Watchers ==
  \/ DeliverRag \/ ResetStep \/ ResetFails
  \/ DeliverJob \/ WhenJobChanged \/ DeliverPvc \/ WhenPVCDeleted

Cluster ==
  \/ \E p \in JobPhases : \/ PodStarts(p) \/ JobCompletes(p) \/ JobFails(p)
                           \/ JobSuspends(p) \/ JobResumes(p) \/ JobCollected(p)
  \/ PvcCollected

User == EditInputs \/ EditMetrics \/ EditSuspend \/ RemovePvc

Next == ReconcileStep \/ ReconcileFails \/ Watchers \/ Cluster \/ User \/ Crash \/ Restart

Spec == Init /\ [][Next]_vars

(***************************************************************************)
(* Fairness. The workers and watches of the controller run on, a stopped   *)
(* controller is started again by its Deployment, and the cluster runs and *)
(* collects what it is asked to. Users need do nothing and calls need not  *)
(* fail.                                                                   *)
(***************************************************************************)
Fairness ==
  /\ WF_vars(ReconcileStep) /\ WF_vars(ResetStep) /\ WF_vars(Restart)
  /\ WF_vars(DeliverRag) /\ WF_vars(DeliverJob) /\ WF_vars(DeliverPvc)
  /\ WF_vars(WhenJobChanged) /\ WF_vars(WhenPVCDeleted)
  /\ WF_vars(PvcCollected)
  /\ \A p \in JobPhases : /\ WF_vars(PodStarts(p)) /\ WF_vars(JobCompletes(p))
                          /\ WF_vars(JobSuspends(p)) /\ WF_vars(JobResumes(p))
                          /\ WF_vars(JobCollected(p))

FairSpec == Spec /\ Fairness

-----------------------------------------------------------------------------
(* Properties *)

RecStates ==
  {Idle} \cup [pc: {"label", "pvc"}, snap: Rags]
         \cup [pc: {"job"}, snap: {r \in Rags : r.phase \in JobPhases}]
         \cup [pc: {"patch"}, snap: Rags, phase: Phases, cond: Conds]

\* Every variable holds a value of its kind: rag_types.go's RAG and its status,
\* and what each activity of rag_controller.go keeps between two calls.
TypeOK ==
  /\ rag \in Rags /\ ragView \in Rags /\ ragWatch \in Seq(Rags)
  /\ pvc \in Pvcs /\ pvcView \in Pvcs /\ pvcWatch \in Seq(Pvcs)
  /\ jobs \in [JobPhases -> Jobs \cup {NoJob}]
  /\ jobView \in [JobPhases -> Jobs \cup {NoJob}]
  /\ jobWatch \in Seq(JobPhases \X (Jobs \cup {NoJob}))
  /\ pods \in SUBSET JobPhases
  /\ ran \in [JobPhases -> Specs \cup {Never}]
  /\ up \in BOOLEAN /\ queued \in BOOLEAN
  /\ rec \in RecStates
  /\ resetter \in {Idle} \cup [pc: {"list", "patch"}, snap: Rags]
                         \cup [pc: {"jobs"}, snap: Rags, todo: SUBSET JobPhases]
  /\ jobH \in {Idle} \cup [pc: {"patch"}, snap: Rags, cond: JobConds]
  /\ pvcH \in {Idle} \cup [pc: {"patch"}, snap: Rags]
  /\ used \in [edits: Nat, faults: Nat, failures: Nat, crashes: Nat]

\* The phase, which stale reconciles patch without a version check, still
\* only moves to the next phase of phaseHandler or back to the start.
PhasesInOrder == [][rag'.phase \in {rag.phase, rag.phase + 1, Unset}]_rag

\* A phase's job never exists before the evaluation has reached that phase,
\* although JobGenerator creates it from a cached RAG.
JobsInOrder == \A p \in JobPhases : jobs[p] # NoJob => p <= rag.phase

\* Past init_pvc the evaluation has its volume: no job is made to wait for one.
StorageHeld == rag.phase > InitPvc => pvc = "present"

\* Unless users edit the RAG, JobGenerator leaves a phase only after the job
\* of that phase, and not another one, has run to its end.
PassedPhasesRan ==
  used.edits = 0 => \A p \in JobPhases : p < rag.phase => ran[p] # Never

\* A volume never holds results of two specs: DeleteJobsAndPvc removes the old
\* volume before the jobs of the new spec run.
OneSpecPerVolume ==
  \A p, q \in JobPhases : Never \notin {ran[p], ran[q]} => ran[p] = ran[q]

\* RagStatus, which the API service shows to users.
ReportedStatus ==
  IF rag.suspend THEN "suspend"
  ELSE IF rag.cond \in FailedTrue THEN "failed"
  ELSE IF rag.phase = Complete /\ rag.cond \in CompleteTrue THEN "complete"
  ELSE "ing"

\* An evaluation that nobody edits, and none of whose calls fail, is in the end
\* reported complete or failed, and stays so: no condition of a job is lost
\* between JobGenerator and WhenJobChanged.
Ends == <>[](ReportedStatus \in {"complete", "failed", "suspend"}
                 \/ used.edits + used.faults > 0)

\* The controller comes to rest: Reconcile, the predicate and the two watch
\* handlers, which trigger each other by their patches, do not do so for ever.
ComesToRest == <>[]Quiet
=============================================================================
