----------------------------- MODULE ModelServing -----------------------------
(***************************************************************************)
(* A model, the worker that serves it, and the LLM and the embedder that   *)
(* stand for it: the controllers of                                        *)
(* controllers/base/{model,worker,llm,embedder}_controller.go, with        *)
(* pkg/worker, side by side.  The model controller looks for the files;    *)
(* the worker's makes the providers (LLM, embedder) and a deployment, and  *)
(* derives a condition from the pods; those of the providers copy the      *)
(* worker's condition.  The worker is read from a cache that is behind and *)
(* nobody watches the model for it; the providers are looked at again and  *)
(* again.                                                                  *)
(***************************************************************************)
EXTENDS Naturals

CONSTANTS
  Types,        \* what the model is: the providers its worker makes
  Names,        \* the common part of a spec, which the providers take over
  MaxEdits,
  MaxMishaps    \* calls that fail, containers that stop, pods that are evicted

VARIABLES
  model,        \* the model and its files in the object store
  worker,       \* as the API server has it
  cache,        \* as the informer has it
  queued,       \* the worker's controller is to look at it
  rec,          \* its reconcile
  deployment,
  pods,         \* of the deployment: the present one, and one that is left over
  providers,    \* LLM and embedder
  edits, troubles, faults

objects     == <<model, worker, deployment, pods, providers>>
controllers == <<cache, queued, rec>>
bounds      == <<edits, troubles, faults>>
vars        == <<objects, controllers, bounds>>

Kinds    == {"embedder", "llm"}
Replicas == {"on", "off"}
Phases   == {"none", "pending", "running", "waiting", "failed"}
Conds    == {"none", "pending", "running", "error", "offline"}
Ready    == {"none", "true", "false"}

ASSUME TypesAssumption == Types \subseteq Kinds
ASSUME BoundsAssumption == {MaxEdits, MaxMishaps} \subseteq Nat

\* The steps of a new object: its finalizer, its labels.
Finalized == 1
Labelled  == 2

NoProvider(n) == [exists |-> FALSE, deleting |-> FALSE, init |-> 0, name |-> n, ready |-> "none"]
NoRec(n)   == [pc |-> "idle", name |-> n, replicas |-> "on", cond |-> "none", new |-> FALSE]
SomeName   == CHOOSE n \in Names : TRUE

Mishap == faults + troubles < MaxMishaps
Fault  == Mishap /\ faults' = faults + 1

-----------------------------------------------------------------------------
(* The model *)

UploadFiles ==
  /\ model.exists /\ ~model.files
  /\ model' = [model EXCEPT !.files = TRUE]
  /\ UNCHANGED <<worker, deployment, pods, providers, controllers, bounds>>

DeleteModel ==
  /\ model.exists /\ ~model.deleting /\ edits < MaxEdits /\ edits' = edits + 1
  /\ model' = IF model.init = 0 THEN [model EXCEPT !.exists = FALSE] ELSE [model EXCEPT !.deleting = TRUE]
  /\ UNCHANGED <<worker, deployment, pods, providers, controllers, troubles, faults>>

\* Finalizer, deletion with the files, labels, and then, again and again, the
\* look for the files. RemoveModel takes a Stat that fails for a model without
\* files; any failure of CheckModel makes the model one that is not ready.
ReconcileModel ==
  /\ model.exists
  /\ \/ model.init = 0 /\ model' = [model EXCEPT !.init = Finalized] /\ UNCHANGED faults
     \/ /\ model.init # 0 /\ model.deleting
        /\ \/ model' = [model EXCEPT !.exists = FALSE, !.files = FALSE] /\ UNCHANGED faults
           \/ Fault /\ model' \in {model, [model EXCEPT !.exists = FALSE]}
     \/ /\ model.init = Finalized /\ ~model.deleting
        /\ model' = [model EXCEPT !.init = Labelled] /\ UNCHANGED faults
     \/ /\ model.init = Labelled /\ ~model.deleting
        /\ \/ model' = [model EXCEPT !.ready = IF model.files THEN "true" ELSE "false"] /\ UNCHANGED faults
           \/ Fault /\ model' = [model EXCEPT !.ready = "false"]
  /\ UNCHANGED <<worker, deployment, pods, providers, controllers, edits, troubles>>

-----------------------------------------------------------------------------
(* The worker, its informer and its users *)

EditWorker ==
  /\ worker.exists /\ ~worker.deleting /\ edits < MaxEdits /\ edits' = edits + 1
  /\ \E n \in Names, r \in Replicas :
       /\ <<n, r>> # <<worker.name, worker.replicas>>
       /\ worker' = [worker EXCEPT !.name = n, !.replicas = r, !.gen = @ + 1]
  /\ UNCHANGED <<model, deployment, pods, providers, controllers, troubles, faults>>

DeleteWorker ==
  /\ worker.exists /\ ~worker.deleting /\ edits < MaxEdits /\ edits' = edits + 1
  /\ worker' = IF worker.init = 0 THEN [worker EXCEPT !.exists = FALSE] ELSE [worker EXCEPT !.deleting = TRUE]
  /\ UNCHANGED <<model, deployment, pods, providers, controllers, troubles, faults>>

\* The predicate of the worker's controller: the spec, or a deletion.
WorkerChanged == cache.gen # worker.gen \/ worker.deleting \/ ~worker.exists
SeeWorker ==
  /\ cache # worker /\ cache' = worker
  /\ queued' = (queued \/ WorkerChanged)
  /\ UNCHANGED <<objects, rec, bounds>>

-----------------------------------------------------------------------------
(* The worker's controller *)

\* An Update of what the cache has: it is refused when that is old.
Updated(w) == worker = cache /\ worker' = w

\* Mutant: the condition is named as the phase of a pod.
RefusedAsFailed(w) ==
  [pc |-> "patch", name |-> w.name, replicas |-> w.replicas, cond |-> "failed", new |-> TRUE]

\* The error of a reconcile that has no PodWorker yet goes into the condition.
Refused(w) ==
  [pc |-> "patch", name |-> w.name, replicas |-> w.replicas, cond |-> "error", new |-> w.cond # "error"]
Begun(w) ==
  [pc |-> "embedder", name |-> w.name, replicas |-> w.replicas, cond |-> w.cond, new |-> FALSE]

\* Mutant: a worker without labels is not finalized.
RemoveFinalizerLater ==
  /\ cache.exists /\ cache.init = Labelled /\ cache.deleting
  /\ Updated([worker EXCEPT !.exists = FALSE])
  /\ queued' = FALSE /\ UNCHANGED <<rec, faults>>

\* Each pass: finalizer, deletion, labels, and then the work on the deployment.
\* The labels are those of the model, which has to be there in every pass.
AddFinalizer ==
  /\ cache.exists /\ cache.init = 0
  /\ Updated([worker EXCEPT !.init = Finalized])
  /\ UNCHANGED <<queued, rec, faults>>
RemoveFinalizer ==
  /\ cache.exists /\ cache.init # 0 /\ cache.deleting
  /\ Updated([worker EXCEPT !.exists = FALSE])
  /\ queued' = FALSE /\ UNCHANGED <<rec, faults>>
Initialize ==
  /\ cache.exists /\ cache.init = Finalized /\ ~cache.deleting /\ model.exists
  /\ Updated([worker EXCEPT !.init = Labelled])
  /\ UNCHANGED <<queued, rec, faults>>
NewPodWorker ==
  /\ cache.exists /\ cache.init = Labelled /\ ~cache.deleting /\ model.exists
  /\ queued' = FALSE
  /\ \/ model.ready = "true" /\ rec' = Begun(cache) /\ UNCHANGED faults
     \/ model.ready # "true" /\ rec' = Refused(cache) /\ UNCHANGED faults
     \/ Fault /\ rec' = Refused(cache)
  /\ UNCHANGED worker

Reconcile ==
  /\ queued /\ rec.pc = "idle"
  /\ \/ ~cache.exists /\ queued' = FALSE /\ UNCHANGED <<worker, rec, faults>>
     \/ AddFinalizer \/ RemoveFinalizer \/ Initialize \/ NewPodWorker
  /\ UNCHANGED <<model, deployment, pods, providers, cache, edits, troubles>>

\* A failure from here on: the condition is set on the worker that was read,
\* and the status that is patched is that of the PodWorker's copy.
Lost == rec' = [rec EXCEPT !.pc = "patch"]

\* BeforeStart: the volume claim, the service, and the providers, the embedder
\* first.  An update of the embedder returns, and leaves the LLM as it is.
Provide(t, next) ==
  IF t \notin Types THEN rec' = [rec EXCEPT !.pc = next] /\ UNCHANGED providers
  ELSE IF ~providers[t].exists THEN
       /\ rec' = [rec EXCEPT !.pc = next]
       /\ providers' = [providers EXCEPT ![t] = [NoProvider(rec.name) EXCEPT !.exists = TRUE]]
  ELSE IF providers[t].name # rec.name THEN
       /\ rec' = [rec EXCEPT !.pc = "start"]
       /\ providers' = [providers EXCEPT ![t].name = rec.name]
  ELSE rec' = [rec EXCEPT !.pc = next] /\ UNCHANGED providers

BeforeStart ==
  /\ \/ /\ UNCHANGED faults
        /\ \/ rec.pc = "embedder" /\ Provide("embedder", "llm")
           \/ rec.pc = "llm" /\ Provide("llm", "start")
     \/ rec.pc \in Kinds /\ Fault /\ Lost /\ UNCHANGED providers
  /\ UNCHANGED <<model, worker, deployment, pods, cache, queued, edits, troubles>>

\* Start: the loader looks for the files, and the deployment is made or changed.
Start ==
  /\ rec.pc = "start"
  /\ \/ /\ model.files /\ deployment' = rec.replicas /\ UNCHANGED faults
        /\ rec' = [rec EXCEPT !.pc = "after"]
     \/ ~model.files /\ Lost /\ UNCHANGED <<deployment, faults>>
     \/ Fault /\ Lost /\ UNCHANGED deployment
  /\ UNCHANGED <<model, worker, pods, providers, cache, queued, edits, troubles>>

\* AfterStart.  State is that of the only pod; none, or two, is an unknown one.
CondOf(phases, replicas) ==
  CASE phases = {"running"}             -> "running"
    [] phases \in {{"waiting"}, {"failed"}} -> "error"
    [] phases = {} /\ replicas = "off"  -> "offline"
    [] OTHER                            -> "pending"
PodPhases == {pods.now, pods.old} \ {"none"}
Two == pods.now # "none" /\ pods.old # "none"
Condition(replicas) ==
  IF Two THEN (IF replicas = "off" THEN "offline" ELSE "pending") ELSE CondOf(PodPhases, replicas)

AfterStart ==
  /\ rec.pc = "after"
  /\ \/ /\ rec' = [rec EXCEPT !.pc = "patch", !.cond = Condition(rec.replicas),
                              !.new = Condition(rec.replicas) \notin {rec.cond} \ {"offline"}]
        /\ UNCHANGED faults
     \/ Fault /\ Lost
  /\ UNCHANGED <<objects, cache, queued, edits, troubles>>

\* Mutant: only whether the worker is ready counts.
DiffersInReadiness(c) == (c = "running") # (cache.cond = "running")

Differs(c) == c # cache.cond \/ rec.new

\* patchStatus: what differs from the cache, whatever the worker has.  A condition
\* that is new, and that of an offline worker is always, differs by its time.
PatchStatus ==
  /\ rec.pc = "patch" /\ rec' = NoRec(SomeName)
  /\ \/ /\ cache.exists /\ worker.exists /\ UNCHANGED <<queued, faults>>
        /\ worker' = [worker EXCEPT !.cond = IF Differs(rec.cond) THEN rec.cond ELSE @]
     \/ (~cache.exists \/ ~worker.exists) /\ queued' = TRUE /\ UNCHANGED <<worker, faults>>
     \/ Fault /\ queued' = TRUE /\ UNCHANGED worker
  /\ UNCHANGED <<model, deployment, pods, providers, cache, edits, troubles>>

-----------------------------------------------------------------------------
(* Kubernetes: each change of a pod is an event for the worker *)

Pods(now, old) ==
  /\ pods' = [now |-> now, old |-> old] /\ queued' = TRUE
  /\ UNCHANGED <<model, worker, deployment, providers, cache, rec, edits, faults>>

Create    == deployment = "on" /\ pods.now = "none" /\ Pods("pending", pods.old) /\ UNCHANGED troubles
ScaleDown == deployment # "on" /\ pods.now # "none" /\ pods.old = "none" /\ Pods("none", pods.now) /\ UNCHANGED troubles
\* A pod that was evicted stays until somebody removes it.
PodGoes   == pods.old # "none" /\ Pods(pods.now, "none") /\ UNCHANGED troubles
Runs      == pods.now \in {"pending", "waiting"} /\ Pods("running", pods.old) /\ UNCHANGED troubles
Trouble ==
  /\ Mishap /\ troubles' = troubles + 1 /\ pods.now = "running"
  /\ Pods("waiting", pods.old) \/ (pods.old = "none" /\ Pods("none", "failed"))

ResyncPods ==
  /\ PodPhases # {} /\ ~queued /\ rec.pc = "idle" /\ queued' = TRUE
  /\ UNCHANGED <<objects, cache, rec, bounds>>

\* What a worker that is gone owned is collected.
Collect ==
  /\ ~worker.exists
  /\ \/ deployment # "none" /\ deployment' = "none" /\ UNCHANGED providers
     \/ \E t \in Types :
          /\ providers[t].exists /\ ~providers[t].deleting /\ UNCHANGED deployment
          /\ providers' = [providers EXCEPT ![t] =
               IF @.init = 0 THEN [@ EXCEPT !.exists = FALSE] ELSE [@ EXCEPT !.deleting = TRUE]]
  /\ UNCHANGED <<model, worker, pods, cache, queued, rec, bounds>>

-----------------------------------------------------------------------------
(* The controllers of the providers *)

\* Mutant: only a provider without a condition is checked.
CheckedOnce(t) ==
  [providers EXCEPT ![t].ready =
     IF @ # "none" THEN @ ELSE IF cache.exists /\ cache.cond = "running" THEN "true" ELSE "false"]

Checked(t) ==
  [providers EXCEPT ![t].ready = IF cache.exists /\ cache.cond = "running" THEN "true" ELSE "false"]

\* They look again and again (RequeueAfter), whatever the events do: finalizer,
\* deletion, labels, and then the condition of the worker as the cache has it.
\* A write that is refused or fails leaves it to the next time.
ReconcileProvider(t) ==
  LET p == providers[t] IN
  /\ p.exists
  /\ \/ p.init = 0 /\ providers' = [providers EXCEPT ![t].init = Finalized]
     \/ p.init # 0 /\ p.deleting /\ providers' = [providers EXCEPT ![t].exists = FALSE]
     \/ p.init = Finalized /\ ~p.deleting /\ providers' = [providers EXCEPT ![t].init = Labelled]
     \/ p.init = Labelled /\ ~p.deleting /\ providers' = Checked(t)
  /\ UNCHANGED <<model, worker, deployment, pods, controllers, bounds>>

-----------------------------------------------------------------------------
Init ==
  /\ model = [exists |-> TRUE, deleting |-> FALSE, init |-> 0, ready |-> "none", files |-> FALSE]
  /\ worker = [exists |-> TRUE, deleting |-> FALSE, init |-> 0, name |-> SomeName, replicas |-> "on",
               gen |-> 0, cond |-> "none"]
  /\ cache = worker /\ queued = TRUE /\ rec = NoRec(SomeName)
  /\ deployment = "none" /\ pods = [now |-> "none", old |-> "none"]
  /\ providers = [t \in Types |-> NoProvider(SomeName)]
  /\ edits = 0 /\ troubles = 0 /\ faults = 0

Users == UploadFiles \/ DeleteModel \/ EditWorker \/ DeleteWorker
Controller == Reconcile \/ BeforeStart \/ Start \/ AfterStart \/ PatchStatus
Kubernetes == Create \/ ScaleDown \/ PodGoes \/ Runs \/ Trouble \/ ResyncPods \/ Collect

Next ==
  \/ Users \/ ReconcileModel \/ SeeWorker \/ Controller \/ Kubernetes
  \/ \E t \in Types : ReconcileProvider(t)

Spec == Init /\ [][Next]_vars

\* The informer delivers and resyncs, the controllers work, and
\* Kubernetes does what it is asked for.
FairSpec ==
  /\ Spec
  /\ WF_vars(ReconcileModel) /\ WF_vars(SeeWorker) /\ WF_vars(Controller)
  /\ WF_vars(Create) /\ WF_vars(ScaleDown) /\ WF_vars(PodGoes /\ deployment # "on") /\ WF_vars(Runs)
  /\ WF_vars(ResyncPods) /\ WF_vars(Collect)
  /\ \A t \in Types : WF_vars(ReconcileProvider(t))

-----------------------------------------------------------------------------
Workers ==
  [exists : BOOLEAN, deleting : BOOLEAN, init : 0..Labelled, name : Names, replicas : Replicas,
   gen : 0..MaxEdits, cond : Conds]
Objects == [exists : BOOLEAN, deleting : BOOLEAN, init : 0..Labelled, name : Names, ready : Ready]

TypeOK ==
  /\ model \in [exists : BOOLEAN, deleting : BOOLEAN, init : 0..Labelled, ready : Ready, files : BOOLEAN]
  /\ worker \in Workers /\ cache \in Workers /\ cache.gen <= worker.gen
  /\ queued \in BOOLEAN
  /\ rec \in [pc : {"idle", "start", "after", "patch"} \cup Kinds, name : Names, replicas : Replicas,
              cond : Conds, new : BOOLEAN]
  /\ deployment \in Replicas \cup {"none"}
  /\ pods \in [now : Phases \ {"failed"}, old : Phases]
  /\ providers \in [Types -> Objects]
  /\ edits \in 0..MaxEdits /\ troubles + faults \in 0..MaxMishaps

\* The condition of a worker comes to be that of its pods, although it is
\* patched from what the cache had and a failure puts back an older one: as long
\* as there is a pod, or nothing has failed.
Serves == model.exists /\ ~model.deleting /\ model.ready = "true" /\ worker.exists /\ deployment # "none"
ShowsPods ==
  <>[](Serves /\ (PodPhases # {} \/ faults = 0) => worker.cond = Condition(worker.replicas))

\* The LLM and the embedder of a worker come to be ready exactly when it is,
\* and have the common part of its spec when it has a pod.
FollowWorker ==
  <>[](\A t \in Types :
         /\ providers[t].exists =>
              (providers[t].ready = "true" <=> worker.exists /\ worker.cond = "running")
         /\ Serves /\ PodPhases # {} => providers[t].exists /\ providers[t].name = worker.name)

\* A worker that is deleted goes, with its providers, deployment and pods, also
\* when a reconcile is making them meanwhile.
Goes ==
  worker.deleting ~> [](~worker.exists /\ deployment = "none" /\ PodPhases = {} /\ \A t \in Types : ~providers[t].exists)
=============================================================================
