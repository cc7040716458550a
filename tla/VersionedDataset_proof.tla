------------------------- MODULE VersionedDataset_proof -------------------------
(***************************************************************************)
(* Proofs about VersionedDataset, for all files and specs, any number of   *)
(* schedulers, and every number of edits, failures and restarts: type      *)
(* correctness, and that a version that is ready for the first time has    *)
(* its files.                                                              *)
(***************************************************************************)
EXTENDS VersionedDataset, TLAPS

-----------------------------------------------------------------------------
(* Types *)

RecPlaces == {"idle", "remove", "patch", "empty", "finalize"}
RunPlaces == {"off", "copying", "patch", "stopping", "late"}
Recs == [pc : RecPlaces, base : Knowledge, files : Phased, ready : Ready, todo : SUBSET Files]
Runs == {r \in [pc : RunPlaces, base : Knowledge, files : Phased, todo : SUBSET Files] :
           DOMAIN r.files = DOMAIN r.base.files /\ (r.pc = "copying" => r.todo = Jobs(r.files))}

Types ==
  /\ object \in Objects /\ cache \in Objects
  /\ bucket \subseteq Paths(Files)
  /\ pending \in BOOLEAN /\ current \in 0..MaxRuns
  /\ rec \in Recs /\ runs \in [Ids -> Runs]
  /\ edits \in 0..MaxEdits /\ mishaps \in 0..MaxMishaps

LEMMA PhasedType ==
  ASSUME NEW F
  PROVE  F \in Phased <=> F \in [DOMAIN F -> Phases] /\ DOMAIN F \subseteq Files
BY DEF Phased

LEMMA NoFilesType == NoFiles \in Phased /\ DOMAIN NoFiles = {}
<1>1. DOMAIN NoFiles = {} /\ NoFiles \in [{} -> Phases]
  BY DEF NoFiles, Phases
<1> QED
  BY <1>1, PhasedType

LEMMA NothingType == Unknown \in Knowledge /\ NoRec \in Recs /\ NoRun \in Runs
<1>1. Unknown \in Knowledge
  BY NoFilesType DEF Unknown, Knowledge, Ready
<1>2. NoRec \in Recs
  BY <1>1, NoFilesType DEF NoRec, Recs, RecPlaces, Ready
<1>3. NoRun \in Runs
  BY <1>1, NoFilesType DEF NoRun, Runs, RunPlaces, Unknown
<1> QED
  BY <1>1, <1>2, <1>3

LEMMA KnownType ==
  ASSUME NEW o \in Objects
  PROVE  Known(o) \in Knowledge /\ Known(o).files = o.files /\ Known(o).ready = o.ready
         /\ Known(o).version = o.version
BY DEF Known, Knowledge, Objects

LEMMA TypesAreOK ==
  ASSUME Types
  PROVE  TypeOK
<1>1. \A i \in Ids : runs[i] \in Runs
  BY DEF Types
<1>2. \A i \in Ids : runs[i].files \in [DOMAIN runs[i].base.files -> Phases]
  BY <1>1, PhasedType DEF Runs
<1> QED
  BY <1>1, <1>2 DEF Types, TypeOK, Recs, Runs, RecPlaces, RunPlaces

\* What a patch of the status does to the object.
LEMMA PatchedType ==
  ASSUME object \in Objects, NEW base, NEW files \in Phased, NEW ready \in Ready, Patched(base, files, ready)
  PROVE  /\ object' \in Objects
         /\ object'.exists = object.exists /\ object'.deleting = object.deleting /\ object'.spec = object.spec
         /\ base.files = object.files => object'.files = files
         /\ base.ready = object.ready => object'.ready = ready
<1> DEFINE new == Written(base, files, ready)
<1>1. /\ new \in Objects
      /\ new.exists = object.exists /\ new.deleting = object.deleting /\ new.spec = object.spec
      /\ new.files = (IF files # base.files THEN files ELSE object.files)
      /\ new.ready = (IF ready # base.ready THEN ready ELSE object.ready)
  BY DEF Written, Objects
<1>2. object' = IF new = object THEN object ELSE [new EXCEPT !.version = @ + 1]
  BY DEF Patched
<1> HIDE DEF new
<1>3. object' = new \/ object' = [new EXCEPT !.version = @ + 1]
  BY <1>2
<1>4. /\ object' \in Objects
      /\ object'.exists = new.exists /\ object'.deleting = new.deleting /\ object'.spec = new.spec
      /\ object'.files = new.files /\ object'.ready = new.ready
  BY <1>1, <1>3 DEF Objects
<1> QED
  BY <1>1, <1>4

-----------------------------------------------------------------------------
(* The invariant *)

On(i) == runs[i].pc # "off"
Busy  == pending \/ rec.pc # "idle" \/ \E i \in Ids : On(i)

\* The status of a version that nobody edits: empty, or all files to be copied, or
\* all of them copied or failed, and those copied in the bucket.
Empty == object.ready = "none" /\ object.files = NoFiles
Begun ==
  /\ object.ready = "syncing" /\ DOMAIN object.files = object.spec
  /\ \A f \in object.spec : object.files[f] = "processing"
Done ==
  /\ object.ready \in {"failed", "success"} /\ DOMAIN object.files = object.spec
  /\ \A f \in object.spec :
       /\ object.files[f] \in {"succeeded", "failed"}
       /\ object.files[f] = "succeeded" => Path(f) \in bucket
  /\ object.ready = "success" <=> \A f \in object.spec : object.files[f] = "succeeded"

\* One thing at a time: the controller is to look, or it reconciles, or one scheduler
\* is at work.  Whoever works has read what the API server has.
OneAtATime ==
  /\ Busy => cache = object
  /\ pending => rec.pc = "idle"
  /\ pending \/ rec.pc # "idle" => \A i \in Ids : ~On(i)
  /\ \A i, j \in Ids : On(i) /\ On(j) => i = j

\* A reconcile writes a status once, the first.
FirstStatus ==
  rec.pc # "idle" =>
    /\ rec.pc = "patch" /\ Empty
    /\ rec.base.files = object.files /\ rec.base.ready = object.ready
    /\ rec.ready = "syncing" /\ DOMAIN rec.files = object.spec
    /\ \A f \in object.spec : rec.files[f] = "processing"

\* A scheduler knows the status, and what it calls copied is in the bucket.
RunOK(i) ==
  On(i) =>
    /\ runs[i].pc \in {"copying", "patch"}
    /\ ~Empty /\ runs[i].base.files = object.files /\ runs[i].base.ready = object.ready
    /\ \A f \in DOMAIN runs[i].files : runs[i].files[f] = "succeeded" => Path(f) \in bucket
    /\ runs[i].pc = "patch" => Jobs(runs[i].files) = {}
    /\ Done => runs[i].files = object.files

Untouched ==
  /\ object.exists /\ ~object.deleting
  /\ Empty \/ Begun \/ Done
  /\ OneAtATime
  /\ FirstStatus
  /\ \A i \in Ids : RunOK(i)

IInv == Types /\ (edits = 0 => Untouched)

\* Nothing is said of the version once it has been edited.
LEMMA Edited ==
  ASSUME Types', edits' # 0
  PROVE  IInv'
BY DEF IInv

-----------------------------------------------------------------------------
(* Users, and the informer *)

LEMMA NextVersion ==
  ASSUME NEW o \in Objects
  PROVE  LET n == [o EXCEPT !.version = @ + 1] IN
         /\ n \in Objects
         /\ n.exists = o.exists /\ n.deleting = o.deleting /\ n.spec = o.spec
         /\ n.files = o.files /\ n.ready = o.ready
BY DEF Objects

LEMMA EditOK ==
  ASSUME IInv, Edit
  PROVE  IInv'
<1>1. edits' = edits + 1 /\ edits < MaxEdits /\ edits \in 0..MaxEdits
  BY DEF Edit, IInv, Types
<1>2. edits' \in 0..MaxEdits /\ edits' # 0
  BY <1>1, BoundsAssumption
<1>3. object \in Objects /\ \A S \in Specs : S \subseteq Files
  BY FilesAssumption DEF IInv, Types
<1>4. object' \in Objects
  <2>1. ASSUME NEW S \in Specs, NEW kept \in BOOLEAN,
               object' = [object EXCEPT !.spec = S, !.labelled = @ /\ kept, !.version = @ + 1]
        PROVE  object' \in Objects
    <3>1. PICK n : n = [object EXCEPT !.spec = S, !.labelled = @ /\ kept]
      OBVIOUS
    <3>2. (object.labelled /\ kept) \in BOOLEAN /\ S \subseteq Files
      BY <1>3
    <3>3. n \in Objects
      BY <1>3, <3>1, <3>2 DEF Objects
    <3>4. object' = [n EXCEPT !.version = @ + 1]
      BY <1>3, <2>1, <3>1 DEF Objects
    <3> QED
      BY <3>3, <3>4, NextVersion
  <2>2. CASE object' = [object EXCEPT !.deleting = TRUE, !.version = @ + 1]
    <3>1. PICK n : n = [object EXCEPT !.deleting = TRUE]
      OBVIOUS
    <3>2. n \in Objects
      BY <1>3, <3>1 DEF Objects
    <3>3. object' = [n EXCEPT !.version = @ + 1]
      BY <1>3, <2>2, <3>1 DEF Objects
    <3> QED
      BY <3>2, <3>3, NextVersion
  <2>3. CASE object' = [object EXCEPT !.exists = FALSE]
    <3>1. PICK n : n = [object EXCEPT !.exists = FALSE]
      OBVIOUS
    <3>2. n \in Objects
      BY <1>3, <3>1 DEF Objects
    <3> QED
      BY <2>3, <3>1, <3>2
  <2> QED
    BY <2>1, <2>2, <2>3 DEF Edit
<1>5. Types'
  BY <1>2, <1>4 DEF Edit, IInv, Types, controller
<1> QED
  BY <1>2, <1>5, Edited

\* The controller is to look at an object that it then has in its cache.
LEMMA LookOK ==
  ASSUME IInv, ~Busy \/ cache = object, ~Busy \/ pending, pending', cache' = object, rec' = rec, runs' = runs,
         UNCHANGED <<object, bucket, current, bounds>>
  PROVE  IInv'
<1>1. Types'
  BY DEF IInv, Types, bounds
<1>2. ASSUME Untouched
      PROVE  Untouched'
  <2>1. rec.pc = "idle" /\ \A i \in Ids : ~On(i)
    BY <1>2 DEF Busy, Untouched, OneAtATime
  <2>2. OneAtATime' /\ FirstStatus'
    BY <2>1 DEF OneAtATime, FirstStatus, On
  <2>3. \A i \in Ids : RunOK(i)'
    BY <2>1 DEF RunOK, On
  <2> QED
    BY <1>2, <2>2, <2>3 DEF Untouched, Empty, Begun, Done
<1> QED
  BY <1>1, <1>2 DEF IInv, bounds

LEMMA InformedOK ==
  ASSUME IInv, Informed
  PROVE  IInv'
<1>1. Types'
  BY DEF IInv, Types, bounds, Informed
<1>2. ASSUME Untouched
      PROVE  IInv'
  <2>1. ~Busy
    BY <1>2 DEF Untouched, OneAtATime, Informed
  <2> QED
    BY <2>1, LookOK DEF Informed, bounds
<1> QED
  BY <1>1, <1>2 DEF IInv, Informed, bounds

LEMMA ResyncOK ==
  ASSUME IInv, Resync
  PROVE  IInv'
<1>1. ~Busy
  BY DEF Resync, Busy, On
<1> QED
  BY <1>1, LookOK DEF Resync, bounds

LEMMA RestartOK ==
  ASSUME IInv, Restart
  PROVE  IInv'
<1>1. mishaps' \in 0..MaxMishaps /\ current' \in 0..MaxRuns
  BY BoundsAssumption DEF Restart, Mishap, IInv, Types
<1>2. Types'
  <2>1. object.exists \in BOOLEAN
    BY DEF IInv, Types, Objects
  <2> QED
    BY <1>1, <2>1, NothingType DEF Restart, IInv, Types
<1>3. ASSUME Untouched
      PROVE  Untouched'
  <2>1. rec'.pc = "idle" /\ \A i \in Ids : ~On(i)'
    BY DEF Restart, NoRec, NoRun, On
  <2>2. OneAtATime' /\ FirstStatus' /\ \A i \in Ids : RunOK(i)'
    BY <2>1 DEF OneAtATime, FirstStatus, RunOK, Restart
  <2> QED
    BY <1>3, <2>2 DEF Restart, Untouched, Empty, Begun, Done
<1> QED
  BY <1>2, <1>3 DEF IInv, Restart

-----------------------------------------------------------------------------
(* The reconcile *)

\* The end of a reconcile, or of nothing but a look.
LEMMA RecEnds ==
  ASSUME IInv, rec' \in Recs, rec'.pc = "idle", pending' \in BOOLEAN, runs' = runs, cache' = cache,
         bucket' = bucket, mishaps' \in 0..MaxMishaps, object' \in Objects,
         UNCHANGED <<current, edits>>,
         pending \/ rec.pc # "idle",
         Untouched => /\ object'.exists /\ ~object'.deleting /\ (Empty \/ Begun \/ Done)'
                      /\ pending' => object' = object
  PROVE  IInv'
<1>1. Types'
  BY DEF IInv, Types
<1>2. ASSUME Untouched
      PROVE  Untouched'
  <2>1. \A i \in Ids : ~On(i)
    BY <1>2 DEF Untouched, OneAtATime
  <2>2. \A i \in Ids : ~On(i)'
    BY <2>1 DEF On
  <2>3. OneAtATime'
    <3>1. cache = object
      BY <1>2 DEF Untouched, OneAtATime, Busy
    <3>2. Busy' => pending'
      BY <2>2 DEF Busy
    <3> QED
      BY <1>2, <2>2, <3>1, <3>2 DEF OneAtATime
  <2>4. FirstStatus' /\ \A i \in Ids : RunOK(i)'
    BY <2>2 DEF FirstStatus, RunOK
  <2> QED
    BY <1>2, <2>3, <2>4 DEF Untouched
<1> QED
  BY <1>1, <1>2 DEF IInv

LEMMA PreUpdateOK ==
  ASSUME IInv, pending, rec.pc = "idle", UNCHANGED <<cache, bounds>>, PreUpdate(cache)
  PROVE  IInv'
<1>1. cache \in Objects /\ object \in Objects /\ rec \in Recs /\ pending' \in BOOLEAN
  BY DEF PreUpdate, IInv, Types
<1>2. CASE UNCHANGED object
  <2>1. Untouched => object'.exists /\ ~object'.deleting /\ (Empty \/ Begun \/ Done)'
    BY <1>2 DEF Untouched, Empty, Begun, Done, PreUpdate
  <2>2. mishaps' \in 0..MaxMishaps
    BY DEF IInv, Types, bounds
  <2> QED
    BY <1>1, <1>2, <2>1, <2>2, RecEnds DEF PreUpdate, bounds
<1>3. CASE Updates(cache, [cache EXCEPT !.labelled = TRUE, !.guarded = TRUE]) /\ pending' = FALSE
  <2>1. PICK new : new = [cache EXCEPT !.labelled = TRUE, !.guarded = TRUE]
    OBVIOUS
  <2>2. /\ new \in Objects /\ new.exists = cache.exists /\ new.deleting = cache.deleting
        /\ new.spec = cache.spec /\ new.files = cache.files /\ new.ready = cache.ready
    BY <1>1, <2>1 DEF Objects
  <2>3. object' = [new EXCEPT !.version = @ + 1]
    BY <1>3, <2>1 DEF Updates
  <2>4. /\ object' \in Objects /\ object'.exists = cache.exists /\ object'.deleting = cache.deleting
        /\ object'.spec = cache.spec /\ object'.files = cache.files /\ object'.ready = cache.ready
    BY <2>2, <2>3 DEF Objects
  <2>5. ASSUME Untouched
        PROVE  object'.exists /\ ~object'.deleting /\ (Empty \/ Begun \/ Done)'
    <3>1. cache = object
      BY <2>5 DEF Untouched, OneAtATime, Busy
    <3> QED
      BY <2>4, <2>5, <3>1 DEF Untouched, Empty, Begun, Done, PreUpdate
  <2>6. mishaps' \in 0..MaxMishaps
    BY DEF IInv, Types, bounds
  <2> QED
    BY <1>1, <1>3, <2>4, <2>5, <2>6, RecEnds DEF PreUpdate, bounds
<1> QED
  BY <1>2, <1>3 DEF PreUpdate

LEMMA TargetsType ==
  ASSUME NEW o \in Objects
  PROVE  /\ Targets(o) \in Phased /\ DOMAIN Targets(o) = o.spec
         /\ \A f \in o.spec : Targets(o)[f] = IF f \in DOMAIN o.files THEN o.files[f] ELSE "processing"
         /\ Syncing(o) \in Ready /\ Deleted(o) \subseteq Files
<1>1. o.spec \subseteq Files /\ o.files \in [DOMAIN o.files -> Phases] /\ DOMAIN o.files \subseteq Files
  BY PhasedType DEF Objects
<1>2. DOMAIN Targets(o) = o.spec /\ Targets(o) \in [o.spec -> Phases]
  BY <1>1 DEF Targets, Phases
<1> QED
  BY <1>1, <1>2, PhasedType DEF Targets, Syncing, Ready, Deleted

LEMMA CleanOK ==
  ASSUME IInv, pending, rec.pc = "idle", UNCHANGED <<cache, bounds>>, pending' = FALSE,
         IsUpdate(cache) \/ Deleted(cache) # {}, Clean(cache)
  PROVE  IInv'
<1>1. cache \in Objects
  BY DEF IInv, Types
<1>2. PICK new : new = [pc |-> IF Deleted(cache) # {} THEN "remove" ELSE "patch", base |-> Known(cache),
                        files |-> Targets(cache), ready |-> Syncing(cache), todo |-> Deleted(cache)]
  OBVIOUS
<1>3. /\ new \in Recs /\ new.pc = (IF Deleted(cache) # {} THEN "remove" ELSE "patch")
      /\ new.base = Known(cache) /\ new.files = Targets(cache) /\ new.ready = Syncing(cache)
  BY <1>1, <1>2, TargetsType, KnownType DEF Recs, RecPlaces
<1>4. rec' = new
  BY <1>2 DEF Clean
<1>5. Types'
  BY <1>3, <1>4 DEF Clean, IInv, Types, bounds
<1>6. ASSUME Untouched
      PROVE  Untouched'
  <2>1. cache = object /\ \A i \in Ids : ~On(i)
    BY <1>6 DEF Untouched, OneAtATime, Busy
  <2>2. Deleted(object) = {}
    BY <1>6, NoFilesType DEF Deleted, Untouched, Empty, Begun, Done
  <2>3. Empty
    BY <1>6, <2>1, <2>2 DEF IsUpdate, Untouched, Begun, Done
  <2>4. DOMAIN object.files = {}
    BY <2>3, NoFilesType DEF Empty
  <2>5. FirstStatus'
    <3>1. new.pc = "patch" /\ new.ready = "syncing"
      BY <1>3, <2>1, <2>2, <2>3 DEF Syncing, Empty
    <3>2. new.base.files = object.files /\ new.base.ready = object.ready
      BY <1>1, <1>3, <2>1, KnownType
    <3>3. DOMAIN new.files = object.spec /\ \A f \in object.spec : new.files[f] = "processing"
      BY <1>1, <1>3, <2>1, <2>4, TargetsType
    <3> QED
      BY <1>4, <2>3, <3>1, <3>2, <3>3 DEF FirstStatus, Empty, Clean
  <2>6. \A i \in Ids : ~On(i)'
    BY <2>1 DEF On, Clean
  <2>7. OneAtATime' /\ \A i \in Ids : RunOK(i)'
    BY <2>1, <2>6 DEF OneAtATime, RunOK, Clean
  <2> QED
    BY <1>6, <2>5, <2>7 DEF Untouched, Empty, Begun, Done, Clean
<1> QED
  BY <1>5, <1>6 DEF IInv, bounds

LEMMA JobsType ==
  ASSUME NEW F \in Phased
  PROVE  Jobs(F) \in SUBSET Files
BY PhasedType DEF Jobs

LEMMA StoppedType ==
  ASSUME NEW r \in Runs
  PROVE  Stopped(r) \in Runs /\ (r.pc = "off" => Stopped(r) = r)
<1>1. CASE r.pc = "copying"
  <2>1. PICK n : n = [NoRun EXCEPT !.pc = "stopping", !.todo = r.todo]
    OBVIOUS
  <2>2. n \in Runs
    BY <2>1, NothingType DEF Runs, RunPlaces, NoRun
  <2> QED
    BY <1>1, <2>1, <2>2 DEF Stopped
<1>2. CASE r.pc = "patch"
  <2>1. PICK n : n = [r EXCEPT !.pc = "late"]
    OBVIOUS
  <2>2. n \in Runs
    BY <2>1 DEF Runs, RunPlaces
  <2> QED
    BY <1>2, <2>1, <2>2 DEF Stopped
<1>3. CASE r.pc \notin {"copying", "patch"}
  BY <1>3 DEF Stopped
<1> QED
  BY <1>1, <1>2, <1>3

LEMMA SyncOK ==
  ASSUME IInv, pending, rec.pc = "idle", UNCHANGED <<cache, bounds>>, pending' = FALSE,
         ~IsUpdate(cache), Deleted(cache) = {}, Sync(cache)
  PROVE  IInv'
<1>1. cache \in Objects /\ cache.files \in Phased
  BY DEF IInv, Types, Objects
<1>2. PICK new : new = [pc |-> "copying", base |-> Known(cache), files |-> cache.files, todo |-> Jobs(cache.files)]
  OBVIOUS
<1>3. /\ new \in Runs /\ new.pc = "copying" /\ new.files = cache.files
      /\ new.base.files = cache.files /\ new.base.ready = cache.ready
  BY <1>1, <1>2, KnownType, JobsType DEF Runs, RunPlaces
<1>4. PICK i \in Ids :
        /\ runs[i].pc = "off" /\ current' = i
        /\ runs' = [j \in Ids |-> IF j = i THEN new ELSE IF j = current THEN Stopped(runs[j]) ELSE runs[j]]
  BY <1>2 DEF Sync
<1>5. runs' \in [Ids -> Runs]
  BY <1>3, <1>4, StoppedType DEF IInv, Types
<1>6. current' \in 0..MaxRuns
  BY <1>4, BoundsAssumption DEF Ids
<1>7. Types'
  BY <1>5, <1>6 DEF Sync, IInv, Types, bounds
<1>8. ASSUME Untouched
      PROVE  Untouched'
  <2>1. cache = object /\ \A j \in Ids : ~On(j)
    BY <1>8 DEF Untouched, OneAtATime, Busy
  <2>2. /\ runs'[i] = new
        /\ \A j \in Ids : j # i => runs'[j] = runs[j]
    <3>1. \A j \in Ids : Stopped(runs[j]) = runs[j]
      BY <2>1, StoppedType DEF On, IInv, Types
    <3> QED
      BY <1>4, <3>1
  <2>3. \A j \in Ids : On(j)' => j = i
    BY <2>1, <2>2 DEF On
  <2>4. ~Empty
    BY <2>1 DEF IsUpdate, Empty
  <2>5. \A f \in DOMAIN object.files : object.files[f] = "succeeded" => Path(f) \in bucket
    BY <1>8, <2>4 DEF Untouched, Begun, Done
  <2>6. OneAtATime'
    BY <2>1, <2>3 DEF OneAtATime, Sync
  <2>7. RunOK(i)'
    BY <1>3, <2>1, <2>2, <2>4, <2>5 DEF RunOK, Empty, Sync
  <2>8. \A j \in Ids : RunOK(j)'
    BY <2>3, <2>7 DEF RunOK
  <2>9. FirstStatus'
    BY DEF FirstStatus, Sync
  <2> QED
    BY <1>8, <2>6, <2>8, <2>9 DEF Untouched, Empty, Begun, Done, Sync
<1> QED
  BY <1>7, <1>8 DEF IInv, bounds

LEMMA ReconcileOK ==
  ASSUME IInv, Reconcile
  PROVE  IInv'
<1>1. pending /\ rec.pc = "idle" /\ UNCHANGED <<cache, bounds>> /\ cache \in Objects
  BY DEF Reconcile, IInv, Types
<1>2. CASE ~cache.exists \/ cache.deleting
  <2>1. PICK new : new = [NoRec EXCEPT !.pc = "empty", !.base = Known(cache)]
    OBVIOUS
  <2>2. new \in Recs
    BY <1>1, <2>1, KnownType, NothingType DEF NoRec, Recs, RecPlaces
  <2>3. pending' = FALSE /\ UNCHANGED <<object, bucket, runs, current>> /\ (rec' = rec \/ rec' = new)
    BY <1>1, <1>2, <2>1 DEF Reconcile, Objects
  <2>4. Types'
    BY <1>1, <2>2, <2>3 DEF IInv, Types, bounds
  <2>5. ~Untouched
    BY <1>1, <1>2 DEF Untouched, OneAtATime, Busy
  <2> QED
    BY <1>1, <2>4, <2>5 DEF IInv, bounds
<1>3. CASE cache.exists /\ ~cache.deleting /\ ~cache.labelled
  BY <1>1, <1>3, PreUpdateOK DEF Reconcile
<1>4. CASE cache.exists /\ ~cache.deleting /\ cache.labelled
  BY <1>1, <1>4, CleanOK, SyncOK DEF Reconcile
<1> QED
  BY <1>1, <1>2, <1>3, <1>4 DEF Objects

LEMMA MishapType ==
  ASSUME IInv, Mishap \/ UNCHANGED mishaps
  PROVE  mishaps' \in 0..MaxMishaps
<1>1. mishaps \in 0..MaxMishaps /\ MaxMishaps \in Nat
  BY BoundsAssumption DEF IInv, Types
<1> QED
  BY <1>1 DEF Mishap

\* Removal and deletion happen to a version that was edited only.
LEMMA RemovesOK ==
  ASSUME IInv, edits' = edits, rec.pc \in {"remove", "empty", "finalize"}, Types'
  PROVE  IInv'
BY DEF IInv, Untouched, FirstStatus

LEMMA Goes1 ==
  ASSUME object \in Objects, object' = [object EXCEPT !.exists = FALSE] \/ UNCHANGED object
  PROVE  object' \in Objects
<1>1. PICK new : new = [object EXCEPT !.exists = FALSE]
  OBVIOUS
<1>2. new \in Objects
  BY <1>1 DEF Objects
<1> QED
  BY <1>1, <1>2

LEMMA RemoveFileOK ==
  ASSUME IInv, RemoveFile
  PROVE  IInv'
<1>1. mishaps' \in 0..MaxMishaps
  BY MishapType DEF RemoveFile
<1>2. PICK f \in rec.todo : rec' = [rec EXCEPT !.todo = @ \ {f}]
  BY DEF RemoveFile
<1>3. rec' \in Recs
  BY <1>2 DEF IInv, Types, Recs
<1>4. bucket' \subseteq bucket
  BY DEF RemoveFile
<1>5. Types'
  BY <1>1, <1>3, <1>4 DEF RemoveFile, IInv, Types
<1> QED
  BY <1>5, RemovesOK DEF RemoveFile

LEMMA RemovedOK ==
  ASSUME IInv, Removed
  PROVE  IInv'
<1>1. rec' \in Recs
  <2>1. PICK new : new = [rec EXCEPT !.pc = "patch"]
    OBVIOUS
  <2>2. new \in Recs
    BY <2>1 DEF Recs, RecPlaces, IInv, Types
  <2> QED
    BY <2>1, <2>2, NothingType DEF Removed
<1>2. object' \in Objects
  BY Goes1 DEF Removed, IInv, Types
<1>3. Types'
  BY <1>1, <1>2 DEF Removed, IInv, Types, bounds
<1> QED
  BY <1>3, RemovesOK DEF Removed, bounds

LEMMA RemoveBucketFilesOK ==
  ASSUME IInv, RemoveBucketFiles
  PROVE  IInv'
<1>1. mishaps' \in 0..MaxMishaps
  BY MishapType DEF RemoveBucketFiles
<1>2. rec' \in Recs
  <2>1. PICK new : new = [rec EXCEPT !.pc = "finalize"]
    OBVIOUS
  <2>2. new \in Recs
    BY <2>1 DEF Recs, RecPlaces, IInv, Types
  <2> QED
    BY <2>1, <2>2, NothingType DEF RemoveBucketFiles
<1>3. bucket' \subseteq bucket
  BY DEF RemoveBucketFiles
<1>4. Types'
  BY <1>1, <1>2, <1>3 DEF RemoveBucketFiles, IInv, Types
<1> QED
  BY <1>4, RemovesOK DEF RemoveBucketFiles

LEMMA FinalizeOK ==
  ASSUME IInv, Finalize
  PROVE  IInv'
<1>1. object' \in Objects
  BY Goes1 DEF Finalize, IInv, Types
<1>2. Types'
  BY <1>1, NothingType DEF Finalize, IInv, Types, bounds
<1> QED
  BY <1>2, RemovesOK DEF Finalize, bounds

\* The first status: all files are to be copied.
LEMMA PatchStatusOK ==
  ASSUME IInv, PatchStatus
  PROVE  IInv'
<1>1. /\ mishaps' \in 0..MaxMishaps /\ rec' = NoRec /\ rec.pc = "patch" /\ pending' \in BOOLEAN
      /\ UNCHANGED <<cache, bucket, runs, current, edits>>
  BY MishapType DEF PatchStatus, IInv, Types
<1>2. rec' \in Recs /\ rec'.pc = "idle"
  BY <1>1, NothingType DEF NoRec
<1>3. object \in Objects /\ rec \in Recs /\ rec.files \in Phased /\ rec.ready \in Ready
  BY DEF IInv, Types, Recs
<1>4. CASE UNCHANGED object
  <2>1. ASSUME Untouched
        PROVE  object'.exists /\ ~object'.deleting /\ (Empty \/ Begun \/ Done)'
    BY <1>1, <1>4, <2>1 DEF Untouched, Empty, Begun, Done
  <2> QED
    BY <1>1, <1>2, <1>3, <1>4, <2>1, RecEnds
<1>5. CASE object.exists /\ Patched(rec.base, rec.files, rec.ready) /\ UNCHANGED <<pending, mishaps>>
  <2>1. /\ object' \in Objects
        /\ object'.exists = object.exists /\ object'.deleting = object.deleting /\ object'.spec = object.spec
        /\ rec.base.files = object.files => object'.files = rec.files
        /\ rec.base.ready = object.ready => object'.ready = rec.ready
    BY <1>3, <1>5, PatchedType
  <2>2. ASSUME Untouched
        PROVE  object'.exists /\ ~object'.deleting /\ Begun' /\ ~pending'
    BY <1>1, <1>5, <2>1, <2>2 DEF Untouched, FirstStatus, Begun, OneAtATime
  <2> QED
    BY <1>1, <1>2, <2>1, <2>2, RecEnds
<1> QED
  BY <1>4, <1>5 DEF PatchStatus

-----------------------------------------------------------------------------
(* A scheduler *)

\* A step of a scheduler that leaves the object alone, and the files that others know.
LEMMA RunStep ==
  ASSUME IInv, NEW i \in Ids, NEW new \in Runs, Set(i, new), runs[i].pc # "off",
         UNCHANGED <<object, cache, pending, rec, current, edits>>,
         bucket \subseteq bucket', bucket' \subseteq Paths(Files), mishaps' \in 0..MaxMishaps,
         Untouched => RunOK(i)'
  PROVE  IInv'
<1>1. /\ runs' \in [Ids -> Runs] /\ runs'[i] = new
      /\ \A j \in Ids : j # i => runs'[j] = runs[j]
  BY DEF Set, IInv, Types
<1>2. Types'
  BY <1>1 DEF IInv, Types
<1>3. ASSUME Untouched
      PROVE  Untouched'
  <2>1. \A j \in Ids : On(j) => j = i
    BY <1>3 DEF Untouched, OneAtATime, On
  <2>2. \A j \in Ids : On(j)' => j = i
    BY <1>1, <2>1 DEF On
  <2>3. /\ cache = object /\ ~pending /\ rec.pc = "idle"
    BY <1>3 DEF Untouched, OneAtATime, Busy, On
  <2>4. OneAtATime' /\ FirstStatus'
    BY <2>2, <2>3 DEF OneAtATime, FirstStatus
  <2>5. \A j \in Ids : RunOK(j)'
    BY <1>3, <2>2 DEF RunOK
  <2>6. (Empty \/ Begun \/ Done)'
    BY <1>3 DEF Untouched, Empty, Begun, Done
  <2> QED
    BY <1>3, <2>4, <2>5, <2>6 DEF Untouched
<1> QED
  BY <1>2, <1>3 DEF IInv

LEMMA RunEnds ==
  ASSUME IInv, NEW i \in Ids, Off(i), runs[i].pc # "off",
         UNCHANGED <<object, cache, pending, rec, current, edits>>,
         bucket \subseteq bucket', bucket' \subseteq Paths(Files), mishaps' \in 0..MaxMishaps
  PROVE  IInv'
<1>1. Set(i, NoRun) /\ NoRun \in Runs /\ NoRun.pc = "off"
  BY NothingType DEF Off, NoRun
<1>2. RunOK(i)'
  BY <1>1 DEF RunOK, On, Set, IInv, Types
<1> QED
  BY <1>1, <1>2, RunStep

LEMMA PathType ==
  ASSUME NEW f \in Files
  PROVE  Path(f) \in Paths(Files)
BY DEF Paths

LEMMA CopyOK ==
  ASSUME IInv, NEW i \in Ids, Copy(i)
  PROVE  IInv'
<1>1. runs[i] \in Runs /\ runs[i].pc = "copying" /\ runs[i].todo = Jobs(runs[i].files) /\ runs[i].files \in Phased
  BY DEF Copy, IInv, Types, Runs
<1>2. mishaps' \in 0..MaxMishaps
  BY MishapType DEF Copy
<1>3. PICK f \in runs[i].todo, how \in {"succeeded", "failed"} :
        /\ Set(i, [runs[i] EXCEPT !.todo = @ \ {f}, !.files[f] = how])
        /\ IF how = "succeeded" THEN bucket' = bucket \cup {Path(f)} ELSE bucket' = bucket
  BY DEF Copy
<1>4. f \in DOMAIN runs[i].files /\ runs[i].files[f] = "processing" /\ f \in Files
  BY <1>1, PhasedType DEF Jobs
<1>5. PICK F : F = [runs[i].files EXCEPT ![f] = how]
  OBVIOUS
<1>6. /\ F \in Phased /\ DOMAIN F = DOMAIN runs[i].files /\ F[f] = how
      /\ \A g \in DOMAIN F : g # f => F[g] = runs[i].files[g]
  BY <1>1, <1>4, <1>5, PhasedType DEF Phases
<1>7. Jobs(F) = runs[i].todo \ {f}
  BY <1>1, <1>4, <1>6 DEF Jobs
<1>8. PICK new : new = [runs[i] EXCEPT !.todo = @ \ {f}, !.files[f] = how]
  OBVIOUS
<1>9. new = [runs[i] EXCEPT !.todo = runs[i].todo \ {f}, !.files = F]
  BY <1>1, <1>5, <1>8 DEF Runs
<1>10. /\ new \in Runs /\ new.pc = "copying" /\ new.base = runs[i].base /\ new.files = F
  BY <1>1, <1>6, <1>7, <1>9 DEF Runs
<1>11. bucket \subseteq bucket' /\ bucket' \subseteq Paths(Files)
  BY <1>3, <1>4, PathType DEF IInv, Types
<1>12. Set(i, new)
  BY <1>3, <1>8
<1>13. ASSUME Untouched
       PROVE  RunOK(i)'
  <2>1. runs'[i] = new
    BY <1>12 DEF Set, IInv, Types
  <2>2. RunOK(i) /\ On(i)
    BY <1>1, <1>13 DEF Untouched, On
  <2>3. \A g \in DOMAIN F : F[g] = "succeeded" => Path(g) \in bucket'
    <3>1. \A g \in DOMAIN F : g # f /\ F[g] = "succeeded" => Path(g) \in bucket
      BY <1>6, <2>2 DEF RunOK
    <3> QED
      BY <1>3, <1>6, <1>11, <3>1
  <2>4. ~Done
    BY <1>4, <2>2 DEF RunOK, Done
  <2>5. ~Done' /\ ~Empty'
    <3>1. object.ready = "syncing" /\ object' = object
      BY <1>13, <2>2, <2>4 DEF Untouched, RunOK, Begun, Copy
    <3> QED
      BY <3>1 DEF Done, Empty
  <2> QED
    BY <1>10, <2>1, <2>2, <2>3, <2>5 DEF RunOK, Copy
<1> QED
  BY <1>1, <1>2, <1>10, <1>11, <1>12, <1>13, RunStep DEF Copy

LEMMA CopyStoppedOK ==
  ASSUME IInv, NEW i \in Ids, CopyStopped(i)
  PROVE  IInv'
<1>1. runs[i] \in Runs /\ runs[i].pc = "stopping" /\ mishaps' = mishaps
  BY DEF CopyStopped, IInv, Types, bounds
<1>2. mishaps' \in 0..MaxMishaps
  BY <1>1 DEF IInv, Types
<1>3. CASE Off(i) /\ UNCHANGED bucket
  <2>1. bucket' \subseteq Paths(Files)
    BY <1>3 DEF IInv, Types
  <2> QED
    BY <1>1, <1>2, <1>3, <2>1, RunEnds DEF CopyStopped, bounds
<1>4. CASE \E f \in runs[i].todo : bucket' = bucket \cup {Path(f)} /\ Set(i, [runs[i] EXCEPT !.todo = @ \ {f}])
  <2>1. PICK f \in runs[i].todo : bucket' = bucket \cup {Path(f)} /\ Set(i, [runs[i] EXCEPT !.todo = @ \ {f}])
    BY <1>4
  <2>2. PICK new : new = [runs[i] EXCEPT !.todo = @ \ {f}]
    OBVIOUS
  <2>3. new \in Runs /\ f \in Files
    BY <1>1, <2>1, <2>2 DEF Runs
  <2>4. bucket \subseteq bucket' /\ bucket' \subseteq Paths(Files)
    BY <2>1, <2>3, PathType DEF IInv, Types
  <2>5. ~Untouched
    BY <1>1 DEF Untouched, RunOK, On
  <2> QED
    BY <1>1, <1>2, <2>1, <2>2, <2>3, <2>4, <2>5, RunStep DEF CopyStopped, bounds
<1> QED
  BY <1>3, <1>4 DEF CopyStopped

LEMMA GenerateJobFailsOK ==
  ASSUME IInv, NEW i \in Ids, GenerateJobFails(i)
  PROVE  IInv'
<1>1. mishaps' \in 0..MaxMishaps /\ bucket' = bucket /\ bucket' \subseteq Paths(Files)
  BY MishapType DEF GenerateJobFails, IInv, Types
<1> QED
  BY <1>1, RunEnds DEF GenerateJobFails

LEMMA ThroughOK ==
  ASSUME IInv, NEW i \in Ids, Through(i)
  PROVE  IInv'
<1>1. /\ runs[i] \in Runs /\ runs[i].pc = "copying" /\ runs[i].todo = {} /\ Jobs(runs[i].files) = {}
      /\ UNCHANGED <<cache, pending, bucket, rec, current, bounds>>
      /\ mishaps' \in 0..MaxMishaps /\ bucket' \subseteq Paths(Files)
  BY DEF Through, IInv, Types, Runs, bounds
<1>2. CASE cache.exists /\ cache.deleting
  <2>1. object' \in Objects
    BY <1>2, Goes1 DEF Through, IInv, Types
  <2>2. runs' \in [Ids -> Runs]
    BY <1>2, NothingType DEF Through, Off, Set, IInv, Types
  <2>3. Types'
    BY <1>1, <2>1, <2>2 DEF IInv, Types, bounds
  <2>4. ~Untouched
    BY <1>1, <1>2 DEF Untouched, OneAtATime, Busy, On
  <2> QED
    BY <1>1, <2>3, <2>4 DEF IInv, bounds
<1>3. CASE ~(cache.exists /\ cache.deleting) /\ Off(i) /\ UNCHANGED object
  BY <1>1, <1>3, RunEnds DEF bounds
<1>4. CASE Set(i, [runs[i] EXCEPT !.pc = "patch"]) /\ UNCHANGED object
  <2>1. PICK new : new = [runs[i] EXCEPT !.pc = "patch"]
    OBVIOUS
  <2>2. new \in Runs /\ new.pc = "patch" /\ new.base = runs[i].base /\ new.files = runs[i].files
    BY <1>1, <2>1 DEF Runs, RunPlaces
  <2>3. ASSUME Untouched
        PROVE  RunOK(i)'
    <3>1. runs'[i] = new
      BY <1>4, <2>1 DEF Set, IInv, Types
    <3>2. RunOK(i) /\ On(i)
      BY <1>1, <2>3 DEF Untouched, On
    <3> QED
      BY <1>1, <1>4, <2>2, <3>1, <3>2 DEF RunOK, Empty, Done
  <2> QED
    BY <1>1, <1>4, <2>1, <2>2, <2>3, RunStep DEF bounds
<1>5. CASE cache.exists /\ ~cache.deleting /\ cache.version = runs[i].base.version
  BY <1>4, <1>5 DEF Through
<1>6. CASE ~cache.exists \/ cache.version # runs[i].base.version
  <2>1. cache.exists \in BOOLEAN /\ cache.deleting \in BOOLEAN
    BY DEF IInv, Types, Objects
  <2> QED
    BY <1>2, <1>3, <1>6, <2>1 DEF Through
<1>7. cache.exists \in BOOLEAN /\ cache.deleting \in BOOLEAN
  BY DEF IInv, Types, Objects
<1> QED
  BY <1>2, <1>5, <1>6, <1>7

\* What the scheduler writes: a status that is through, or the one that was.
LEMMA PatchFilesOK ==
  ASSUME IInv, NEW i \in Ids, PatchFiles(i)
  PROVE  IInv'
<1> DEFINE ready == Synced(runs[i].base, runs[i].files)
<1>1. /\ object \in Objects /\ runs[i] \in Runs /\ runs[i].files \in Phased /\ runs[i].base.ready \in Ready
      /\ DOMAIN runs[i].files = DOMAIN runs[i].base.files
  BY DEF IInv, Types, Runs, Knowledge
<1>2. /\ runs[i].pc \in {"patch", "late"} /\ runs[i].pc # "off" /\ Off(i)
      /\ UNCHANGED <<cache, pending, bucket, rec, current, edits>>
      /\ mishaps' \in 0..MaxMishaps /\ bucket' \subseteq Paths(Files)
  BY MishapType DEF PatchFiles, IInv, Types
<1>3. ready \in {"success", "failed"} /\ ready \in Ready
  BY DEF Synced, Ready
<1>4. CASE UNCHANGED object
  BY <1>2, <1>4, RunEnds
<1>5. CASE \/ object.exists /\ Patched(runs[i].base, runs[i].files, ready)
           \/ /\ object.exists /\ ready = "failed" /\ runs[i].base.ready = "failed"
              /\ object' = [object EXCEPT !.ready = "failed", !.version = @ + 1]
  <2>1. /\ object' \in Objects
        /\ object'.exists = object.exists /\ object'.deleting = object.deleting /\ object'.spec = object.spec
        /\ runs[i].base.files = object.files /\ runs[i].base.ready = object.ready =>
             /\ object'.files = runs[i].files \/ (object'.files = object.files /\ object.ready = "failed")
             /\ object'.ready = ready
    <3>1. CASE Patched(runs[i].base, runs[i].files, ready)
      BY <1>1, <1>3, <3>1, PatchedType
    <3>2. CASE /\ ready = "failed" /\ runs[i].base.ready = "failed"
               /\ object' = [object EXCEPT !.ready = "failed", !.version = @ + 1]
      <4>1. PICK n : n = [object EXCEPT !.ready = "failed"]
        OBVIOUS
      <4>2. /\ n \in Objects /\ n.ready = "failed" /\ n.exists = object.exists /\ n.deleting = object.deleting
            /\ n.spec = object.spec /\ n.files = object.files
        BY <1>1, <4>1 DEF Objects, Ready
      <4>3. object' = [n EXCEPT !.version = @ + 1]
        BY <1>1, <3>2, <4>1 DEF Objects
      <4> QED
        BY <3>2, <4>2, <4>3, NextVersion
    <3> QED
      BY <1>5, <3>1, <3>2
  <2>2. runs' \in [Ids -> Runs] /\ runs'[i] = NoRun /\ \A j \in Ids : j # i => runs'[j] = runs[j]
    BY <1>2, NothingType DEF Off, Set, IInv, Types
  <2>3. Types'
    BY <1>2, <2>1, <2>2 DEF IInv, Types
  <2>4. ASSUME Untouched
        PROVE  Untouched'
    <3>1. RunOK(i) /\ On(i)
      BY <1>2, <2>4 DEF Untouched, On
    <3>2. ~pending /\ rec.pc = "idle" /\ \A j \in Ids : ~On(j)'
      BY <2>2, <2>4, <3>1 DEF Untouched, OneAtATime, On, NoRun
    <3>3. Done'
      <4>1. /\ runs[i].base.files = object.files /\ runs[i].base.ready = object.ready
            /\ DOMAIN runs[i].files = object.spec /\ Jobs(runs[i].files) = {} /\ (Begun \/ Done)
            /\ object'.ready = ready
        BY <1>1, <1>2, <2>1, <2>4, <3>1 DEF RunOK, Untouched, Begun, Done
      <4>2. object'.files = runs[i].files
        BY <2>1, <3>1, <4>1 DEF RunOK, Begun, Done
      <4>3. \A f \in object.spec : /\ runs[i].files[f] \in {"succeeded", "failed"}
                                   /\ runs[i].files[f] = "succeeded" => Path(f) \in bucket
        BY <1>1, <3>1, <4>1, PhasedType DEF RunOK, Jobs, Phases
      <4>4. ready = "success" <=> \A f \in object.spec : runs[i].files[f] = "succeeded"
        BY <3>1, <4>1 DEF Synced, RunOK, Begun, Done
      <4> QED
        BY <1>2, <1>3, <2>1, <4>1, <4>2, <4>3, <4>4 DEF Done
    <3>4. OneAtATime' /\ FirstStatus' /\ \A j \in Ids : RunOK(j)'
      BY <1>2, <3>2 DEF OneAtATime, Busy, FirstStatus, RunOK
    <3> QED
      BY <2>1, <2>4, <3>3, <3>4 DEF Untouched
  <2> QED
    BY <1>2, <2>3, <2>4 DEF IInv
<1> QED
  BY <1>4, <1>5 DEF PatchFiles

-----------------------------------------------------------------------------
LEMMA Initially ==
  ASSUME Init
  PROVE  IInv
<1>1. PICK S \in Specs :
        object = [exists |-> TRUE, spec |-> S, files |-> NoFiles, ready |-> "none", version |-> 1,
                  labelled |-> FALSE, guarded |-> FALSE, deleting |-> FALSE]
  BY DEF Init
<1>2. object \in Objects
  BY <1>1, FilesAssumption, NoFilesType DEF Objects, Ready
<1>3. runs = [i \in Ids |-> NoRun] /\ rec = NoRec
  BY DEF Init
<1>4. Types
  BY <1>2, <1>3, NothingType, BoundsAssumption DEF Init, Types
<1>5. rec.pc = "idle" /\ \A i \in Ids : ~On(i)
  BY <1>3 DEF NoRec, NoRun, On
<1>6. Untouched
  BY <1>1, <1>5 DEF Init, Untouched, Empty, OneAtATime, FirstStatus, RunOK
<1> QED
  BY <1>4, <1>6 DEF IInv

LEMMA Invariance ==
  ASSUME IInv, [Next]_vars
  PROVE  IInv'
<1>1. CASE Next
  BY <1>1, EditOK, InformedOK, ResyncOK, RestartOK, ReconcileOK, RemoveFileOK, RemovedOK, PatchStatusOK,
     RemoveBucketFilesOK, FinalizeOK, CopyOK, CopyStoppedOK, GenerateJobFailsOK, ThroughOK, PatchFilesOK
     DEF Next, Controller, Scheduler
<1>2. CASE UNCHANGED vars
  BY <1>2 DEF vars, controller, bounds, IInv, Types, Untouched, Empty, Begun, Done, OneAtATime, Busy, On, FirstStatus, RunOK
<1> QED
  BY <1>1, <1>2

\* Types, for all edits; and the first ready status of a version that nobody edits
\* tells of files that are there, whichever scheduler wrote it, however often the
\* controller was restarted and whatever failed.
THEOREM FirstReadyIsComplete == Spec => []Inv
<1>1. Init => IInv
  BY Initially
<1>2. IInv /\ [Next]_vars => IInv'
  BY Invariance
<1>3. IInv => Inv
  <2>1. ASSUME IInv
        PROVE  FirstSync
    BY <2>1 DEF IInv, FirstSync, Untouched, Empty, Begun, Done
  <2> QED
    BY <2>1, TypesAreOK DEF IInv, Inv
<1> QED
  BY <1>1, <1>2, <1>3, PTL DEF Spec

=============================================================================
