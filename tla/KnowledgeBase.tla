---------------------------- MODULE KnowledgeBase ----------------------------
(***************************************************************************)
(* One knowledge base: the KnowledgeBase object, the files it lists, the   *)
(* collection of the vector store they are embedded into, and the          *)
(* controller of controllers/base/knowledgebase_controller.go.             *)
(*                                                                         *)
(* The controller reads the object from its informer cache (view), which   *)
(* follows the API server through a FIFO watch. One worker reconciles: it  *)
(* reads the cache, makes at most a few calls, and writes one status. Each *)
(* call is a step of its own. Beside the object's status the controller    *)
(* keeps ReadyMap in memory, which covers for a cache that is behind.      *)
(* Deletion removes the collection in a goroutine that nobody waits for.   *)
(***************************************************************************)
EXTENDS Naturals, Sequences

CONSTANTS
  NFiles,      \* files are numbered in the order of the file groups
  Versions,    \* versions a file can be listed with
  Updates,     \* values users give the update annotation: "redo", "for-failed"
  MaxLag,      \* versions of the object that the cache may be behind
  MaxUploads, MaxEdits, MaxUpdates, MaxFaults, MaxOutages, MaxDeletes, MaxCrashes

ASSUME FilesAssumption   == NFiles \in Nat \ {0} /\ Versions # {}
ASSUME UpdatesAssumption == Updates \subseteq {"redo", "for-failed"}
ASSUME LimitsAssumption  ==
  /\ MaxLag \in Nat \ {0}
  /\ {MaxUploads, MaxEdits, MaxUpdates, MaxFaults, MaxOutages, MaxDeletes,
      MaxCrashes} \subseteq Nat

VARIABLES
  kb,        \* the KnowledgeBase object of the API server, or NoKb
  oss,       \* the object store: for each file and version, its ETag
  coll,      \* the collection: the files, with the ETag they had, embedded
  deps,      \* embedder and vector store: "ready", "notReady" or "missing"
  watch,     \* versions of the object on their way to the controller
  view,      \* the informer cache
  up,        \* is the controller running
  queued,    \* is the object in the work queue
  rec,       \* the reconcile worker, between two calls
  ready,     \* ReadyMap has the object
  removing,  \* is a goroutine about to remove the collection
  asked,     \* history: for each file, the ETag at the last request to redo it
  used       \* bounds: events so far, by kind

world == <<oss, coll, deps>>
vars  == <<kb, world, watch, view, up, queued, rec, ready, removing, asked, used>>

-----------------------------------------------------------------------------
(* Data *)

Files    == 1..NFiles
ETags    == 1..(MaxUploads + 1)
NoSum    == 0                          \* FileDetails.Checksum is empty
Conds    == {"none", "pending", "init", "ready", "error"}
FilePhases == {"Pending", "Processing", "Succeeded", "Failed"}
Detail   == [phase: FilePhases, sum: ETags \cup {NoSum}, version: Versions]
PartialFun(D, S) == UNION {[d -> S] : d \in SUBSET D}
Listings == PartialFun(Files, Versions)          \* spec.fileGroups
Details  == PartialFun(Files, Detail)            \* status.fileGroupDetail
Status   == [observed: Nat, cond: Conds, details: Details]
Kbs      == [gen: Nat, files: Listings, update: Updates \cup {"none"},
             finalizer: BOOLEAN, deleting: BOOLEAN, status: Status]
NoKb     == [gen |-> 0]
Nothing  == <<>>                                 \* the function with no files

NewKb(files) ==
  [gen |-> 1, files |-> files, update |-> "none", finalizer |-> FALSE, deleting |-> FALSE,
   status |-> [observed |-> 0, cond |-> "none", details |-> Nothing]]

Idle == [pc |-> "idle"]

\* syncStatus: a detail for each listed file, keeping what is known of it.
Sync(files, details) ==
  [f \in DOMAIN files |->
     IF f \notin DOMAIN details
     THEN [phase |-> "Pending", sum |-> NoSum, version |-> files[f]]
     ELSE IF details[f].version = files[f] THEN details[f]
     ELSE [details[f] EXCEPT !.version = files[f], !.phase = "Processing"]]

InPhase(phase) == {f \in DOMAIN view.status.details : view.status.details[f].phase = phase}

\* The first file that reconcile's loop does not pass over.
ToDo == InPhase("Pending") \cup InPhase("Processing")
Current == CHOOSE f \in ToDo : \A g \in ToDo : f <= g

-----------------------------------------------------------------------------
(* The API server *)

Store(k) ==
  /\ Len(watch) < MaxLag
  /\ kb' = k
  /\ watch' = IF up /\ k # kb THEN Append(watch, k) ELSE watch

Fault == /\ used.faults < MaxFaults
         /\ used' = [used EXCEPT !.faults = @ + 1]

Retry == rec' = Idle /\ queued' = TRUE

Init ==
  /\ kb \in {NewKb(files) : files \in Listings \ {Nothing}}
  /\ oss = [f \in Files |-> [v \in Versions |-> 1]]
  /\ coll = {}
  /\ deps \in {"ready", "notReady", "missing"}
  /\ watch = <<>> /\ view = kb
  /\ up = TRUE /\ queued = TRUE
  /\ rec = Idle /\ ready = FALSE /\ removing = FALSE
  /\ asked = [f \in Files |-> 0]
  /\ used = [uploads |-> 0, edits |-> 0, updates |-> 0, faults |-> 0, outages |-> 0,
             deletes |-> 0, crashes |-> 0]

-----------------------------------------------------------------------------
(* Reconcile: read the cache, set ReadyMap, plan the calls. *)

Take(next) ==
  /\ up /\ queued /\ rec = Idle
  /\ queued' = FALSE
  /\ rec' = next
  /\ UNCHANGED <<kb, world, watch, view, up, asked, used>>

\* A status to write with patchStatus. stamped: setCondition put a new
\* condition, whose times differ from any other's; again: requeue afterwards.
Patch(status, stamped, again) ==
  [pc |-> "patch", new |-> status, stamped |-> stamped, again |-> again]

\* setCondition keeps ReadyMap in step with the condition.
SetCondition(status, cond) ==
  /\ ready' = (cond = "ready")
  /\ Take(Patch([status EXCEPT !.cond = cond], TRUE, FALSE))
  /\ UNCHANGED removing

Exists     == view # NoKb
Deleting   == Exists /\ view.deleting /\ view.finalizer
Finalized  == Exists /\ ~Deleting /\ view.finalizer
Observed   == Finalized /\ view.status.cond # "none" /\ view.status.observed = view.gen
NotUpdated == Observed /\ view.update = "none"
InSync     == NotUpdated /\ Sync(view.files, view.status.details) = view.status.details

ReconcileGone == ~Exists /\ Take(Idle) /\ UNCHANGED <<ready, removing>>

\* Mutant: the finalizer goes, the collection stays.
DeleteKept ==
  /\ Deleting
  /\ Take([pc |-> "unfinalize", snap |-> view])
  /\ UNCHANGED <<ready, removing>>

\* reconcileDelete starts the removal of the collection, if it can get the
\* vector store, and does not wait for it.
ReconcileDelete ==
  /\ Deleting
  /\ removing' = (removing \/ deps # "missing")
  /\ Take([pc |-> "unfinalize", snap |-> view])
  /\ UNCHANGED ready

ReconcileFinalizer ==
  /\ Exists /\ ~view.finalizer
  /\ Take([pc |-> "finalize", snap |-> view])
  /\ UNCHANGED <<ready, removing>>

ReconcilePending ==
  Finalized /\ view.status.cond = "none" /\ SetCondition(view.status, "pending")

ReconcileGeneration ==
  /\ Finalized /\ view.status.cond # "none" /\ view.status.observed # view.gen
  /\ SetCondition([view.status EXCEPT !.observed = view.gen], "init")

\* The annotation asks for every file again: forget what is known of them.
ReconcileRedo ==
  /\ Observed /\ view.update = "redo" /\ view.status.details # Nothing
  /\ SetCondition([view.status EXCEPT !.details = Nothing], "init")

ReconcileRetryFailed ==
  /\ Observed /\ view.update = "for-failed" /\ InPhase("Failed") # {}
  /\ LET retried == [f \in DOMAIN view.status.details |->
                       IF f \in InPhase("Failed")
                       THEN [view.status.details[f] EXCEPT !.phase = "Processing"]
                       ELSE view.status.details[f]]
     IN SetCondition([view.status EXCEPT !.details = retried], "init")

\* Mutant: the annotation is removed without doing what it asks for.
UpdateIgnored == Observed /\ view.update # "none"
UpdateDone ==
  /\ Observed
  /\ \/ view.update = "redo" /\ view.status.details = Nothing
     \/ view.update = "for-failed" /\ InPhase("Failed") = {}

ReconcileUpdated == UpdateDone /\ Take([pc |-> "annotation"]) /\ UNCHANGED <<ready, removing>>

ReconcileSync ==
  /\ NotUpdated /\ ~InSync
  /\ Take([pc |-> "sync", base |-> view.status.details,
           new |-> Sync(view.files, view.status.details)])
  /\ UNCHANGED <<ready, removing>>

\* reconcile: no file groups; no embedder or vector store; one not ready.
ReconcileDeps ==
  /\ InSync
  /\ \/ view.files = Nothing /\ SetCondition(view.status, "pending")
     \/ view.files # Nothing /\ deps = "missing" /\ SetCondition(view.status, "pending")
     \/ view.files # Nothing /\ deps = "notReady" /\ SetCondition(view.status, "error")

Works == InSync /\ view.files # Nothing /\ deps = "ready"

ReconcileReady ==
  /\ Works /\ (view.status.cond = "ready" \/ ready)
  /\ Take(Idle)
  /\ UNCHANGED <<ready, removing>>

Embeds == Works /\ view.status.cond # "ready" /\ ~ready

ReconcileStart ==
  /\ Embeds /\ ToDo # {} /\ view.status.details[Current].phase = "Pending"
  /\ Take(Patch([view.status EXCEPT !.details[Current].phase = "Processing"], FALSE, FALSE))
  /\ UNCHANGED <<ready, removing>>

ReconcileFile ==
  /\ Embeds /\ ToDo # {} /\ view.status.details[Current].phase = "Processing"
  /\ Take([pc |-> "stat", file |-> Current, new |-> view.status])
  /\ UNCHANGED <<ready, removing>>

AllEmbedded == InPhase("Failed") = {}

\* Every file is done with: ready, or an error and another try in a minute.
ReconcileEnd ==
  /\ Embeds /\ ToDo = {}
  /\ IF AllEmbedded
     THEN SetCondition(view.status, "ready")
     ELSE /\ ready' = FALSE
          /\ Take(Patch([view.status EXCEPT !.cond = "error"], TRUE, TRUE))
          /\ UNCHANGED removing

-----------------------------------------------------------------------------
(* Reconcile: the calls. *)

\* Updates are checked against the stored version.
UpdateFinalizer ==
  /\ rec.pc \in {"finalize", "unfinalize"}
  /\ \/ /\ kb = rec.snap
        /\ Store(IF rec.pc = "unfinalize" THEN NoKb ELSE [kb EXCEPT !.finalizer = TRUE])
        /\ rec' = Idle /\ UNCHANGED queued
     \/ /\ kb # rec.snap
        /\ Retry /\ UNCHANGED <<kb, watch>>
  /\ UNCHANGED <<world, view, up, ready, removing, asked, used>>

\* patchStatus sends where the new status differs from the cached one, unless
\* ReadyMap says that a ready condition is still on its way.
PatchStatus ==
  /\ rec.pc = "patch"
  /\ IF ~Exists \/ kb = NoKb
     THEN Retry /\ UNCHANGED <<kb, watch>>
     ELSE LET old == view.status
              new == rec.new
              s   == kb.status IN
          /\ IF ready /\ new.cond # "ready"
             THEN UNCHANGED <<kb, watch>>
             ELSE Store([kb EXCEPT !.status =
                    [observed |-> IF new.observed = old.observed THEN s.observed ELSE new.observed,
                     cond     |-> IF new.cond = old.cond /\ ~rec.stamped THEN s.cond ELSE new.cond,
                     details  |-> IF new.details = old.details THEN s.details ELSE new.details]])
          /\ rec' = Idle
          /\ queued' = (queued \/ rec.again)
  /\ UNCHANGED <<world, view, up, ready, removing, asked, used>>

PatchSync ==
  /\ rec.pc = "sync"
  /\ IF kb = NoKb THEN Retry /\ UNCHANGED <<kb, watch>>
     ELSE Store([kb EXCEPT !.status.details = rec.new]) /\ rec' = Idle /\ UNCHANGED queued
  /\ UNCHANGED <<world, view, up, ready, removing, asked, used>>

\* The annotation is removed, whatever its value is by now.
PatchAnnotation ==
  /\ rec.pc = "annotation"
  /\ IF kb = NoKb THEN Retry /\ UNCHANGED <<kb, watch>>
     ELSE Store([kb EXCEPT !.update = "none"]) /\ rec' = Idle /\ UNCHANGED queued
  /\ UNCHANGED <<world, view, up, ready, removing, asked, used>>

(* reconcileFileGroup *)

\* Mutants: a phase nobody expects; no requeue after the attempt.
OutcomeSkipped(phase) == Patch([rec.new EXCEPT !.details[rec.file].phase = "Skipped"], FALSE, TRUE)
OutcomeOnce(phase) == Patch([rec.new EXCEPT !.details[rec.file].phase = phase], FALSE, FALSE)

Outcome(phase) == Patch([rec.new EXCEPT !.details[rec.file].phase = phase], FALSE, TRUE)

Changed(etag, d) == etag # d.sum

\* StatFile: the ETag is compared with the checksum, then becomes it.
StatFile ==
  /\ rec.pc = "stat"
  /\ LET d == rec.new.details[rec.file]
         etag == oss[rec.file][d.version] IN
     rec' = IF Changed(etag, d)
            THEN [rec EXCEPT !.pc = "read", !.new.details[rec.file].sum = etag]
            ELSE Outcome("Succeeded")
  /\ UNCHANGED <<kb, world, watch, view, up, queued, ready, removing, asked, used>>

\* The source cannot be read or is not ready: the file is tried again. The
\* file cannot be examined: it has failed.
StatFails ==
  /\ rec.pc = "stat" /\ Fault
  /\ rec' \in {Outcome("Processing"), Outcome("Failed")}
  /\ UNCHANGED <<kb, world, watch, view, up, queued, ready, removing, asked>>

\* Mutant: the documents are not added.
ReadOnly == coll
Added == coll \cup {<<rec.file, oss[rec.file][rec.new.details[rec.file].version]>>}

\* GetTags, ReadFile and handleFile, which adds the documents of the file.
HandleFile ==
  /\ rec.pc = "read"
  /\ coll' = Added
  /\ rec' = Outcome("Succeeded")
  /\ UNCHANGED <<kb, oss, deps, watch, view, up, queued, ready, removing, asked, used>>

\* One of them fails; the vector store may have taken the documents by then.
HandleFails ==
  /\ rec.pc = "read" /\ Fault
  /\ coll' \in {coll, Added}
  /\ rec' = Outcome("Failed")
  /\ UNCHANGED <<kb, oss, deps, watch, view, up, queued, ready, removing, asked>>

\* A call to the API server fails: Reconcile returns the error.
CallFails ==
  /\ rec.pc \in {"finalize", "unfinalize", "patch", "sync", "annotation"}
  /\ Fault /\ Retry
  /\ UNCHANGED <<kb, world, watch, view, up, ready, removing, asked>>

\* The goroutine of reconcileDelete. Its errors are dropped.
RemoveCollection ==
  /\ removing
  /\ removing' = FALSE
  /\ \/ coll' = {} /\ UNCHANGED used
     \/ Fault /\ UNCHANGED coll
  /\ UNCHANGED <<kb, oss, deps, watch, view, up, queued, rec, ready, asked>>

Deliver ==
  /\ watch # <<>>
  /\ watch' = Tail(watch) /\ view' = Head(watch)
  /\ queued' = TRUE
  /\ UNCHANGED <<kb, world, up, rec, ready, removing, asked, used>>

-----------------------------------------------------------------------------
(* Users, the other controllers, and restarts *)

Upload(f, v) ==
  /\ used.uploads < MaxUploads
  /\ used' = [used EXCEPT !.uploads = @ + 1]
  /\ oss' = [oss EXCEPT ![f][v] = used.uploads + 2]
  /\ UNCHANGED <<kb, coll, deps, watch, view, up, queued, rec, ready, removing, asked>>

EditFiles(files) ==
  /\ kb # NoKb /\ files # kb.files
  /\ used.edits < MaxEdits
  /\ used' = [used EXCEPT !.edits = @ + 1]
  /\ Store([kb EXCEPT !.gen = @ + 1, !.files = files])
  /\ asked' = [f \in Files |-> 0]
  /\ UNCHANGED <<world, view, up, queued, rec, ready, removing>>

RequestUpdate(how) ==
  /\ kb # NoKb
  /\ used.updates < MaxUpdates
  /\ used' = [used EXCEPT !.updates = @ + 1]
  /\ Store([kb EXCEPT !.update = how])
  /\ asked' = IF how = "redo"
              THEN [f \in Files |-> IF f \in DOMAIN kb.files THEN oss[f][kb.files[f]] ELSE 0]
              ELSE asked
  /\ UNCHANGED <<world, view, up, queued, rec, ready, removing>>

Delete ==
  /\ kb # NoKb /\ ~kb.deleting
  /\ used.deletes < MaxDeletes
  /\ used' = [used EXCEPT !.deletes = @ + 1]
  /\ Store(IF kb.finalizer THEN [kb EXCEPT !.deleting = TRUE] ELSE NoKb)
  /\ UNCHANGED <<world, view, up, queued, rec, ready, removing, asked>>

\* The embedder or the vector store changes, and its watch queues the object.
DepsChange(s) ==
  /\ deps # s
  /\ s # "ready" => used.outages < MaxOutages
  /\ used' = [used EXCEPT !.outages = IF s = "ready" THEN @ ELSE @ + 1]
  /\ deps' = s
  /\ queued' = (queued \/ (up /\ view # NoKb))
  /\ UNCHANGED <<kb, oss, coll, watch, view, up, rec, ready, removing, asked>>

Crash ==
  /\ up /\ used.crashes < MaxCrashes
  /\ used' = [used EXCEPT !.crashes = @ + 1]
  /\ up' = FALSE /\ queued' = FALSE /\ rec' = Idle /\ ready' = FALSE /\ removing' = FALSE
  /\ watch' = <<>>
  /\ UNCHANGED <<kb, world, view, asked>>

Restart ==
  /\ ~up
  /\ up' = TRUE /\ view' = kb /\ queued' = (kb # NoKb)
  /\ UNCHANGED <<kb, world, watch, rec, ready, removing, asked, used>>

-----------------------------------------------------------------------------

ReconcileStep ==
  \/ ReconcileGone \/ ReconcileDelete \/ ReconcileFinalizer \/ ReconcilePending
  \/ ReconcileGeneration \/ ReconcileRedo \/ ReconcileRetryFailed \/ ReconcileUpdated
  \/ ReconcileSync \/ ReconcileDeps \/ ReconcileReady \/ ReconcileStart \/ ReconcileFile
  \/ ReconcileEnd

Call == UpdateFinalizer \/ PatchStatus \/ PatchSync \/ PatchAnnotation \/ StatFile \/ HandleFile

User ==
  \/ \E f \in Files, v \in Versions : Upload(f, v)
  \/ \E files \in Listings : EditFiles(files)
  \/ \E how \in Updates : RequestUpdate(how)
  \/ Delete

Next ==
  \/ ReconcileStep \/ Call \/ StatFails \/ HandleFails \/ CallFails
  \/ RemoveCollection \/ Deliver \/ User
  \/ \E s \in {"ready", "notReady", "missing"} : DepsChange(s)
  \/ Crash \/ Restart

Spec == Init /\ [][Next]_vars

\* The worker, its calls, the watch and the goroutine run on; the controller
\* is started again; the embedder and the vector store get ready.
Fairness ==
  /\ WF_vars(ReconcileStep) /\ WF_vars(Call) /\ WF_vars(Deliver) /\ WF_vars(RemoveCollection)
  /\ WF_vars(Restart) /\ WF_vars(DepsChange("ready"))

FairSpec == Spec /\ Fairness

-----------------------------------------------------------------------------
(* Properties *)

\* The objects, the caches and what a reconcile (reconcile, patchStatus,
\* syncStatus) is about to write have the types of the code, and a controller
\* that is down keeps nothing in memory.
TypeOK ==
  /\ kb = NoKb \/ kb \in Kbs
  /\ view = NoKb \/ view \in Kbs
  /\ \A i \in DOMAIN watch : watch[i] = NoKb \/ watch[i] \in Kbs
  /\ oss \in [Files -> [Versions -> ETags]]
  /\ coll \subseteq Files \X ETags
  /\ rec.pc \in {"idle", "finalize", "unfinalize", "annotation", "sync", "patch", "stat", "read"}
  /\ rec.pc = "sync" => rec.new \in Details
  /\ rec.pc \in {"patch", "stat", "read"} => rec.new \in Status
  /\ {up, queued, ready, removing} \subseteq BOOLEAN
  /\ ~up => rec = Idle /\ ~queued /\ ~ready /\ ~removing /\ watch = <<>>

Live == kb # NoKb /\ ~kb.deleting

\* A file that is reported Succeeded has been embedded, with the content whose
\* checksum is reported beside it or a later one (it may be replaced between
\* StatFile and ReadFile): reconcileFileGroup writes both before and after
\* calls that may fail, and a restart may come between the calls.
SucceededEmbedded ==
  Live => \A f \in DOMAIN kb.status.details :
            LET d == kb.status.details[f] IN
            d.phase = "Succeeded" => \E etag \in ETags : etag >= d.sum /\ <<f, etag>> \in coll

Reported ==
  /\ Live /\ kb.status.cond = "ready" /\ kb.status.observed = kb.gen
  /\ kb.update = "none"

\* When the knowledge base is reported ready for what users want of it now, the
\* collection has every file they list, with the content it had at the last
\* request (annotation update-source-file-time) to embed it again, or a later
\* one. The condition, the details and the annotation are patched apart, from a
\* stale cache, so the details may still call such a file Processing.
UpdateEmbedded ==
  Reported
  => \A f \in DOMAIN kb.files : \E etag \in ETags : etag >= asked[f] /\ <<f, etag>> \in coll

Settled == kb = NoKb \/ kb.files = Nothing \/ kb.status.cond \in {"ready", "error"}

\* Users' edits, requests and deletions, files that fail, an embedder or a
\* vector store that comes and goes, and restarts: in the end the knowledge
\* base is reported ready or in error. When the patch of the ready condition
\* fails, ReadyMap alone has it ready.
Settles == <>[](Settled \/ ready)

\* The collection goes with the knowledge base, unless its removal fails, the
\* controller stops or the vector store is gone by then.
RemovedInTheEnd ==
  <>[](kb = NoKb /\ used.faults + used.crashes + used.outages = 0 => coll = {})
=============================================================================
