--------------------------- MODULE VersionedDataset ---------------------------
(***************************************************************************)
(* One version of a dataset: the controller                                *)
(* (controllers/base/versioneddataset_controller.go) compares the files of *)
(* the spec with those of the status (pkg/versioneddataset), removes what  *)
(* is no longer asked for and starts a scheduler (pkg/scheduler), which    *)
(* copies what is missing into the bucket of the system and writes down    *)
(* the results when it is through.  The scheduler is a goroutine: it       *)
(* outlives the reconcile that started it, works on the object as that     *)
(* reconcile knew it, and may be stopped, but not waited for.  All of them *)
(* read the informer's cache and patch the status without its version.     *)
(***************************************************************************)
EXTENDS Naturals, FiniteSets, Functions

CONSTANTS
  Files,        \* pairs of a source and a path
  Specs,        \* the files that are asked for: those of the groups, and
                \* those of the version that this one inherits from
  MaxRuns,      \* schedulers at a time
  MaxEdits,
  MaxMishaps    \* calls and copies that fail, restarts, and patches that change
                \* nothing but a time

VARIABLES
  object,       \* the version, as the API server has it
  cache,        \* as the informer has it
  pending,      \* the controller is to look at it
  bucket,       \* the paths below dataset/<name>/<version>/
  rec,          \* the reconcile
  runs,         \* the schedulers
  current,      \* the one in the controller's map, or 0
  edits, mishaps

controller == <<pending, rec, runs, current>>
bounds     == <<edits, mishaps>>
vars       == <<object, cache, bucket, controller, bounds>>

Path(f) == f[2]
Ids     == 1..MaxRuns
Phases  == {"processing", "succeeded", "failed"}
Ready   == {"none", "syncing", "again", "failed", "success"}
Paths(S) == {Path(f) : f \in S}

ASSUME FilesAssumption == IsFiniteSet(Files) /\ Specs \subseteq SUBSET Files /\ Specs # {}
ASSUME BoundsAssumption ==
  MaxRuns \in Nat \ {0} /\ {MaxEdits, MaxMishaps} \subseteq Nat

NoFiles == [f \in {} |-> "processing"]
Phased  == UNION {[S -> Phases] : S \in SUBSET Files}

\* What a reconcile or a scheduler knows of the object that it works on; todo
\* are the files, or the jobs, that are left.
Known(o) == [version |-> o.version, files |-> o.files, ready |-> o.ready]
Unknown  == [version |-> 0, files |-> NoFiles, ready |-> "none"]
NoRec == [pc |-> "idle", base |-> Unknown, files |-> NoFiles, ready |-> "none", todo |-> {}]
NoRun == [pc |-> "off", base |-> Unknown, files |-> NoFiles, todo |-> {}]

-----------------------------------------------------------------------------
(* The API server *)

\* Update: refused unless the version is that of the server.
Updates(o, new) == object.exists /\ object.version = o.version /\ object' = [new EXCEPT !.version = @ + 1]
Conflicts(o) == object.version # o.version \/ ~object.exists

\* The status patch: the fields that differ from what the patch was made from,
\* files as a whole, are written over whatever is there. What changes nothing is
\* not a new version.
Written(base, files, ready) ==
  [object EXCEPT !.files = IF files # base.files THEN files ELSE @,
                 !.ready = IF ready # base.ready THEN ready ELSE @]
Patched(base, files, ready) ==
  LET new == Written(base, files, ready) IN
  object' = IF new = object THEN object ELSE [new EXCEPT !.version = @ + 1]

\* An edit of the file groups, or another one of the object: the labels are those
\* of the request, so that the controller's may be gone.  Deletion.
Edit ==
  /\ object.exists /\ edits < MaxEdits /\ edits' = edits + 1
  /\ \/ \E S \in Specs, kept \in BOOLEAN :
          object' = [object EXCEPT !.spec = S, !.labelled = @ /\ kept, !.version = @ + 1]
     \/ /\ ~object.deleting
        /\ object' = IF object.guarded THEN [object EXCEPT !.deleting = TRUE, !.version = @ + 1]
                     ELSE [object EXCEPT !.exists = FALSE]
  /\ UNCHANGED <<cache, bucket, controller, mishaps>>

\* The informer: an event for every version that it sees.
Informed ==
  /\ cache # object /\ cache' = object
  /\ pending' = TRUE
  /\ UNCHANGED <<object, bucket, rec, runs, current, bounds>>

\* Its resync, when nothing else goes on.
Resync ==
  /\ ~pending /\ rec.pc = "idle" /\ (\A i \in Ids : runs[i].pc = "off")
  /\ cache = object /\ object.exists /\ pending' = TRUE
  /\ UNCHANGED <<object, cache, bucket, rec, runs, current, bounds>>

Mishap == mishaps < MaxMishaps /\ mishaps' = mishaps + 1

-----------------------------------------------------------------------------
(* The reconcile *)

\* Mutant: new files are not looked for again.
IsUpdateOnce(o) == o.ready = "none"

\* CopiedFileGroup2Status: files that the status knows keep their details,
\* new ones are to be processed, and the rest is to be removed.  A version that
\* is ready stays so.
Targets(o) == [f \in o.spec |-> IF f \in DOMAIN o.files THEN o.files[f] ELSE "processing"]
IsUpdate(o) == o.ready = "none" \/ ~(o.spec \subseteq DOMAIN o.files)
Deleted(o) == DOMAIN o.files \ o.spec
Syncing(o) == CASE o.ready = "none" -> "syncing" [] o.ready = "success" -> "success" [] OTHER -> "again"

\* generateJob: only the files that are to be processed.
Jobs(files) == {f \in DOMAIN files : files[f] = "processing"}

\* The scheduler of the last reconcile is told to stop: nobody will look at its
\* results, but what it has begun may still happen.
Stopped(r) ==
  CASE r.pc = "copying" -> [NoRun EXCEPT !.pc = "stopping", !.todo = r.todo]
    [] r.pc = "patch"   -> [r EXCEPT !.pc = "late"]
    [] OTHER -> r

\* A new one starts.
Sync(o) ==
  /\ \E i \in Ids :
       /\ runs[i].pc = "off" /\ (\A j \in 1..(i - 1) : runs[j].pc # "off")
       /\ current' = i
       /\ runs' = [j \in Ids |->
            IF j = i THEN [pc |-> "copying", base |-> Known(o), files |-> o.files, todo |-> Jobs(o.files)]
            ELSE IF j = current THEN Stopped(runs[j]) ELSE runs[j]]
  /\ UNCHANGED <<object, bucket, rec>>

\* preUpdate: the labels and the finalizer.
PreUpdate(o) ==
  /\ \/ Updates(o, [o EXCEPT !.labelled = TRUE, !.guarded = TRUE]) /\ pending' = FALSE
     \/ Conflicts(o) /\ pending' = TRUE /\ UNCHANGED object
  /\ UNCHANGED <<bucket, rec, runs, current>>

Clean(o) ==
  /\ rec' = [pc |-> IF Deleted(o) # {} THEN "remove" ELSE "patch", base |-> Known(o),
             files |-> Targets(o), ready |-> Syncing(o), todo |-> Deleted(o)]
  /\ UNCHANGED <<object, bucket, runs, current>>

Reconcile ==
  /\ pending /\ rec.pc = "idle"
  /\ UNCHANGED <<cache, bounds>>
  /\ CASE ~cache.exists -> pending' = FALSE /\ UNCHANGED <<object, bucket, rec, runs, current>>
       [] cache.exists /\ cache.deleting ->
            /\ pending' = FALSE /\ rec' = [NoRec EXCEPT !.pc = "empty", !.base = Known(cache)]
            /\ UNCHANGED <<object, bucket, runs, current>>
       [] cache.exists /\ ~cache.deleting /\ ~cache.labelled -> PreUpdate(cache)
       [] OTHER ->
            /\ pending' = FALSE
            /\ IF IsUpdate(cache) \/ Deleted(cache) # {} THEN Clean(cache) ELSE Sync(cache)

\* A file is removed; that it could not be is only logged.
RemoveFile ==
  /\ rec.pc = "remove"
  /\ \E f \in rec.todo :
       /\ rec' = [rec EXCEPT !.todo = @ \ {f}]
       /\ \/ bucket' = bucket \ {Path(f)} /\ UNCHANGED mishaps
          \/ Mishap /\ UNCHANGED bucket
  /\ UNCHANGED <<object, cache, pending, runs, current, edits>>

\* The end of the removal looks at the object again.  If it is being deleted,
\* its finalizer goes, and the patch that follows does not find it, or finds
\* that it could not go.
Removed ==
  /\ rec.pc = "remove" /\ rec.todo = {}
  /\ IF cache.exists /\ ~cache.deleting
     THEN rec' = [rec EXCEPT !.pc = "patch"] /\ UNCHANGED <<object, pending>>
     ELSE /\ rec' = NoRec /\ pending' = TRUE
          /\ \/ cache.exists /\ object.exists /\ object.version = cache.version
                /\ object' = [object EXCEPT !.exists = FALSE]
             \/ Conflicts(cache) /\ UNCHANGED object
  /\ UNCHANGED <<cache, bucket, runs, current, bounds>>

\* A call that fails ends the reconcile, and it is tried again.
PatchStatus ==
  /\ rec.pc = "patch" /\ rec' = NoRec
  /\ \/ object.exists /\ Patched(rec.base, rec.files, rec.ready) /\ UNCHANGED <<pending, mishaps>>
     \/ ~object.exists /\ pending' = TRUE /\ UNCHANGED <<object, mishaps>>
     \/ Mishap /\ pending' = TRUE /\ UNCHANGED object
  /\ UNCHANGED <<cache, bucket, runs, current, edits>>

\* removeBucketFiles, and then the finalizer.
RemoveBucketFiles ==
  /\ rec.pc = "empty"
  /\ \/ bucket' = {} /\ rec' = [rec EXCEPT !.pc = "finalize"] /\ UNCHANGED <<pending, mishaps>>
     \/ /\ Mishap /\ bucket' \in SUBSET bucket
        /\ rec' = NoRec /\ pending' = TRUE
  /\ UNCHANGED <<object, cache, runs, current, edits>>

\* Mutant: it waits until there is no scheduler in the map.
FinalizeWhenIdle ==
  /\ rec.pc = "finalize" /\ current = 0 /\ rec' = NoRec
  /\ \/ /\ object.exists /\ object.version = rec.base.version
        /\ object' = [object EXCEPT !.exists = FALSE] /\ UNCHANGED pending
     \/ Conflicts(rec.base) /\ pending' = TRUE /\ UNCHANGED object
  /\ UNCHANGED <<cache, bucket, runs, current, bounds>>

Finalize ==
  /\ rec.pc = "finalize" /\ rec' = NoRec
  /\ \/ /\ object.exists /\ object.version = rec.base.version
        /\ object' = [object EXCEPT !.exists = FALSE] /\ UNCHANGED pending
     \/ Conflicts(rec.base) /\ pending' = TRUE /\ UNCHANGED object
  /\ UNCHANGED <<cache, bucket, runs, current, bounds>>

-----------------------------------------------------------------------------
(* A scheduler *)

Set(i, r) == runs' = [runs EXCEPT ![i] = r]
Off(i) == Set(i, NoRun)

\* Task and OnFinish: the result goes into the scheduler's object.
Copy(i) ==
  /\ runs[i].pc = "copying"
  /\ \E f \in runs[i].todo :
       \/ /\ bucket' = bucket \cup {Path(f)} /\ UNCHANGED mishaps
          /\ Set(i, [runs[i] EXCEPT !.todo = @ \ {f}, !.files[f] = "succeeded"])
       \/ /\ Mishap /\ UNCHANGED bucket
          /\ Set(i, [runs[i] EXCEPT !.todo = @ \ {f}, !.files[f] = "failed"])
  /\ UNCHANGED <<object, cache, pending, rec, current, edits>>

\* After Stop the jobs that have begun may still reach the bucket.
CopyStopped(i) ==
  /\ runs[i].pc = "stopping"
  /\ \/ \E f \in runs[i].todo :
          bucket' = bucket \cup {Path(f)} /\ Set(i, [runs[i] EXCEPT !.todo = @ \ {f}])
     \/ Off(i) /\ UNCHANGED bucket
  /\ UNCHANGED <<object, cache, pending, rec, current, bounds>>

\* generateJob does not find a data source, or the bucket: Start returns an
\* error, which nobody looks at.
GenerateJobFails(i) ==
  /\ runs[i].pc = "copying" /\ runs[i].todo # {} /\ Mishap /\ Off(i)
  /\ UNCHANGED <<object, cache, pending, bucket, rec, current, edits>>

\* Start, when the jobs are done.  An object that is being deleted loses its
\* finalizer, another version than the scheduler's ends it.
Through(i) ==
  /\ runs[i].pc = "copying" /\ runs[i].todo = {}
  /\ CASE cache.exists /\ cache.deleting ->
            /\ Off(i)
            /\ \/ /\ object.exists /\ object.version = cache.version
                  /\ object' = [object EXCEPT !.exists = FALSE]
               \/ Conflicts(cache) /\ UNCHANGED object
       [] cache.exists /\ ~cache.deleting /\ cache.version = runs[i].base.version ->
            Set(i, [runs[i] EXCEPT !.pc = "patch"]) /\ UNCHANGED object
       [] OTHER -> Off(i) /\ UNCHANGED object
  /\ UNCHANGED <<cache, pending, bucket, rec, current, bounds>>

\* Mutant: that none is left to be processed is enough.
SyncedIfDone(base, files) == IF Jobs(files) = {} THEN "success" ELSE "failed"

\* The condition: it is left alone if it says that the files are there.
Synced(base, files) ==
  IF base.ready = "success" THEN base.ready
  ELSE IF \A f \in DOMAIN files : files[f] = "succeeded" THEN "success" ELSE "failed"

\* Its patch; one that was sent before the scheduler was stopped may arrive.  A
\* condition that was failed before carries a new time.
PatchFiles(i) ==
  LET r == runs[i]
      ready == Synced(r.base, r.files) IN
  /\ r.pc \in {"patch", "late"} /\ Off(i)
  /\ \/ object.exists /\ Patched(r.base, r.files, ready) /\ UNCHANGED mishaps
     \/ /\ object.exists /\ ready = "failed" /\ r.base.ready = "failed" /\ r.files = r.base.files
        /\ Mishap /\ object' = [object EXCEPT !.ready = "failed", !.version = @ + 1]
     \/ ~object.exists /\ UNCHANGED <<object, mishaps>>
     \/ Mishap /\ UNCHANGED object
     \/ r.pc = "late" /\ UNCHANGED <<object, mishaps>>
  /\ UNCHANGED <<cache, pending, bucket, rec, current, edits>>

-----------------------------------------------------------------------------
\* The controller starts again: its reconcile, its schedulers and its map are
\* gone, and it looks at everything.
Restart ==
  /\ Mishap
  /\ cache' = object /\ pending' = object.exists
  /\ rec' = NoRec /\ runs' = [i \in Ids |-> NoRun] /\ current' = 0
  /\ UNCHANGED <<object, bucket, edits>>

Init ==
  /\ \E S \in Specs :
       object = [exists |-> TRUE, spec |-> S, files |-> NoFiles, ready |-> "none", version |-> 1,
                 labelled |-> FALSE, guarded |-> FALSE, deleting |-> FALSE]
  /\ cache = object /\ pending = TRUE
  /\ bucket = {}
  /\ rec = NoRec /\ runs = [i \in Ids |-> NoRun] /\ current = 0
  /\ edits = 0 /\ mishaps = 0

Controller ==
  Reconcile \/ RemoveFile \/ Removed \/ PatchStatus \/ RemoveBucketFiles \/ Finalize
Scheduler(i) ==
  Copy(i) \/ CopyStopped(i) \/ GenerateJobFails(i) \/ Through(i) \/ PatchFiles(i)

Next == Edit \/ Informed \/ Resync \/ Controller \/ (\E i \in Ids : Scheduler(i)) \/ Restart

Spec == Init /\ [][Next]_vars

\* The informer delivers and resyncs, and the worker and the goroutines run.
FairSpec ==
  /\ Spec
  /\ WF_vars(Informed) /\ WF_vars(Resync) /\ WF_vars(Controller)
  /\ \A i \in Ids : WF_vars(Scheduler(i))

-----------------------------------------------------------------------------
Objects ==
  [exists : BOOLEAN, spec : SUBSET Files, files : Phased, ready : Ready, version : Nat,
   labelled : BOOLEAN, guarded : BOOLEAN, deleting : BOOLEAN]

Knowledge == [version : Nat, files : Phased, ready : Ready]

TypeOK ==
  /\ object \in Objects /\ cache \in Objects
  /\ bucket \subseteq Paths(Files)
  /\ pending \in BOOLEAN /\ current \in 0..MaxRuns
  /\ rec.pc \in {"idle", "remove", "patch", "empty", "finalize"} /\ rec.ready \in Ready
  /\ rec.todo \subseteq Files /\ rec.files \in Phased /\ rec.base \in Knowledge
  /\ \A i \in Ids :
       /\ runs[i].pc \in {"off", "copying", "patch", "stopping", "late"} /\ runs[i].base \in Knowledge
       /\ runs[i].files \in [DOMAIN runs[i].base.files -> Phases]
       /\ runs[i].pc = "copying" => runs[i].todo = Jobs(runs[i].files)
  /\ edits \in 0..MaxEdits /\ mishaps \in 0..MaxMishaps

\* As long as the files that are asked for are those of the beginning, a version
\* that is ready has all of them in its bucket, whichever of the schedulers that
\* were started for it wrote the status, and whatever failed.
FirstSync ==
  edits = 0 /\ object.ready = "success" =>
    /\ DOMAIN object.files = object.spec
    /\ \A f \in object.spec : object.files[f] = "succeeded" /\ Path(f) \in bucket

\* What holds in every state: types, with a scheduler's jobs those that its files
\* ask for, and a first ready status (PatchFiles) that can be trusted.
Inv == TypeOK /\ FirstSync

\* When nobody edits the version any more, its status comes to list the files
\* that are asked for, and each of them has been copied or has failed to be,
\* although schedulers write the status over with what they knew.
Settles ==
  <>[](object.exists =>
         DOMAIN object.files = object.spec /\ Jobs(object.files) = {} /\ object.ready \in {"failed", "success"})

\* A version that is deleted goes.
Goes == [](object.deleting => <>~object.exists)
=============================================================================
