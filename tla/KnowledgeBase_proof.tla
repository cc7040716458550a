------------------------- MODULE KnowledgeBase_proof -------------------------
(***************************************************************************)
(* Proofs about KnowledgeBase, for every number of files, every lag of the *)
(* cache and all bounds: type correctness, that a file called Succeeded is *)
(* embedded, that a knowledge base called ready has every file it lists    *)
(* embedded, and, where users ask for files again one request at a time,   *)
(* embedded with what they asked for.                                      *)
(***************************************************************************)
EXTENDS KnowledgeBase, SequenceTheorems, WellFoundedInduction, TLAPS

-----------------------------------------------------------------------------
(* Types *)

\* What the worker has in hand, at each of its calls.
Updating == [pc : {"finalize", "unfinalize"}, snap : Kbs]
Syncing  == [pc : {"sync"}, base : Details, new : Details]
Patching == [pc : {"patch"}, new : Status, stamped : BOOLEAN, again : BOOLEAN]
Handling == {r \in [pc : {"stat", "read"}, file : Files, new : Status] : r.file \in DOMAIN r.new.details}
Recs     == {Idle, [pc |-> "annotation"]} \cup Updating \cup Syncing \cup Patching \cup Handling

Counts ==
  [uploads : 0..MaxUploads, edits : Nat, updates : Nat, faults : Nat, outages : Nat, deletes : Nat, crashes : Nat]

Types ==
  /\ kb \in Kbs \cup {NoKb} /\ view \in Kbs \cup {NoKb} /\ watch \in Seq(Kbs \cup {NoKb})
  /\ oss \in [Files -> [Versions -> ETags]] /\ coll \subseteq Files \X ETags
  /\ deps \in {"ready", "notReady", "missing"}
  /\ rec \in Recs
  /\ {up, queued, ready, removing} \subseteq BOOLEAN
  /\ ~up => rec = Idle /\ ~queued /\ ~ready /\ ~removing /\ watch = <<>>
  /\ used \in Counts

LEMMA TypesAreOK ==
  ASSUME Types
  PROVE  TypeOK
<1>1. \A i \in DOMAIN watch : watch[i] = NoKb \/ watch[i] \in Kbs
  BY ElementOfSeq, LenProperties DEF Types
<1>2. /\ rec.pc \in {"idle", "finalize", "unfinalize", "annotation", "sync", "patch", "stat", "read"}
      /\ rec.pc = "sync" => rec.new \in Details
      /\ rec.pc \in {"patch", "stat", "read"} => rec.new \in Status
  BY DEF Types, Recs, Updating, Syncing, Patching, Handling, Idle
<1> QED
  BY <1>1, <1>2 DEF Types, TypeOK

\* What rec is at a call.
LEMMA RecIs ==
  ASSUME NEW r \in Recs
  PROVE  /\ r.pc \in {"finalize", "unfinalize"} => r \in Updating
         /\ r.pc = "sync" => r \in Syncing
         /\ r.pc = "patch" => r \in Patching
         /\ r.pc \in {"stat", "read"} => r \in Handling
         /\ r.pc # "idle" => r # Idle
BY DEF Recs, Updating, Syncing, Patching, Handling, Idle

LEMMA DetailsType ==
  ASSUME NEW D
  PROVE  D \in Details <=> D \in [DOMAIN D -> Detail] /\ DOMAIN D \subseteq Files
BY DEF Details, PartialFun

LEMMA ListingsType ==
  ASSUME NEW L \in Listings
  PROVE  L \in [DOMAIN L -> Versions] /\ DOMAIN L \subseteq Files
BY DEF Listings, PartialFun

LEMMA NoDetails == Nothing \in Details /\ DOMAIN Nothing = {}
<1>1. DOMAIN Nothing = {} /\ Nothing = [f \in {} |-> 0]
  BY DEF Nothing
<1>2. Nothing \in [{} -> Detail]
  BY <1>1
<1> QED
  BY <1>1, <1>2, DetailsType

LEMMA SyncType ==
  ASSUME NEW L \in Listings, NEW D \in Details
  PROVE  Sync(L, D) \in Details
<1>1. L \in [DOMAIN L -> Versions] /\ DOMAIN L \subseteq Files /\ D \in [DOMAIN D -> Detail]
  BY ListingsType, DetailsType
<1>2. ASSUME NEW f \in DOMAIN L
      PROVE  Sync(L, D)[f] \in Detail
  <2>1. CASE f \notin DOMAIN D
    BY <1>1, <2>1 DEF Sync, Detail, FilePhases
  <2>2. CASE f \in DOMAIN D
    BY <1>1, <2>2 DEF Sync, Detail, FilePhases
  <2> QED
    BY <2>1, <2>2
<1>3. Sync(L, D) \in [DOMAIN L -> Detail] /\ DOMAIN Sync(L, D) = DOMAIN L
  BY <1>2 DEF Sync
<1> QED
  BY <1>1, <1>3, DetailsType

\* Of the files that are left there is a first.
LEMMA First ==
  ASSUME NEW S \in SUBSET Nat, S # {}
  PROVE  \E x \in S : \A y \in S : x <= y
<1> DEFINE R == OpToRel(<, Nat)
<1>1. IsWellFoundedOn(R, Nat)
  BY NatLessThanWellFounded
<1>2. \A x, y \in S : x < y => <<x, y>> \in R
  BY DEF OpToRel
<1> HIDE DEF R
<1>3. PICK x \in S : \A y \in S : <<y, x>> \notin R
  BY <1>1, WFMin
<1>4. ASSUME NEW y \in S
      PROVE  x <= y
  <2>1. ~(y < x) /\ x \in Nat /\ y \in Nat
    BY <1>2, <1>3
  <2> QED
    BY <2>1
<1> QED
  BY <1>4

-----------------------------------------------------------------------------
(* The invariant *)

\* Nobody asks for the failed files again, whose checksum is written before they are
\* embedded, and a file has one version, so that it does not change with its checksum kept.
Calm == Updates \subseteq {"redo"} /\ \A v, w \in Versions : v = w

\* What is said of a file, beside a collection: a file that is still to be done has
\* no checksum, so that it is embedded and not passed over.
GoodFile(f, d, C) ==
  /\ d.phase = "Succeeded" => \E etag \in ETags : etag >= d.sum /\ <<f, etag>> \in C
  /\ d.phase \in {"Pending", "Processing"} => d.sum = NoSum
GoodD(D, C) == \A f \in DOMAIN D : GoodFile(f, D[f], C)

\* An object, stored, cached or on its way, and what the worker is about to write.
GoodK(k, C) == k = NoKb \/ (~k.deleting /\ GoodD(k.status.details, C))
GoodR(r, C, O) ==
  /\ r.pc = "sync" => GoodD(r.new, C)
  /\ r.pc = "patch" => GoodD(r.new.details, C)
  /\ r.pc = "stat" => GoodD(r.new.details, C)
  /\ r.pc = "read" => \A f \in DOMAIN r.new.details : f # r.file => GoodFile(f, r.new.details[f], C)
  /\ r.pc \in {"stat", "read"} => r.new.details[r.file].phase = "Processing"
  /\ r.pc = "read" => r.new.details[r.file].sum <= O[r.file][r.new.details[r.file].version]

Embedding ==
  /\ \A f \in Files, v \in Versions : oss[f][v] <= used.uploads + 1
  /\ Live => /\ ~removing
             /\ GoodK(kb, coll) /\ GoodK(view, coll) /\ \A i \in DOMAIN watch : GoodK(watch[i], coll)
             /\ GoodR(rec, coll, oss)

IInv == Types /\ (Calm => Embedding)

\* What is embedded stays, as long as nobody removes the collection.
LEMMA MoreD ==
  ASSUME NEW C, NEW E, C \subseteq E, NEW D, GoodD(D, C)
  PROVE  GoodD(D, E)
BY DEF GoodD, GoodFile

LEMMA MoreK ==
  ASSUME NEW C, NEW E, C \subseteq E, NEW k, GoodK(k, C)
  PROVE  GoodK(k, E)
BY MoreD DEF GoodK

\* A step of the worker's that writes nothing to the API server.
LEMMA Worker ==
  ASSUME IInv, up, UNCHANGED <<kb, oss, deps, watch, view, up>>, rec' \in Recs,
         {queued', ready', removing'} \subseteq BOOLEAN,
         coll \subseteq coll', coll' \subseteq Files \X ETags, used' \in Counts, used'.uploads = used.uploads,
         Calm /\ Live => GoodR(rec', coll', oss) /\ (removing' => removing)
  PROVE  IInv'
<1>1. Types'
  BY DEF IInv, Types
<1>2. ASSUME Calm
      PROVE  Embedding'
  <2>1. Embedding
    BY <1>2 DEF IInv
  <2>2. \A k : GoodK(k, coll) => GoodK(k, coll')
    BY MoreK
  <2>3. Live' => Live
    BY DEF Live
  <2>4. GoodR(rec', coll', oss) <=> GoodR(rec', coll', oss')
    OBVIOUS
  <2> QED
    BY <1>2, <2>1, <2>2, <2>3, <2>4 DEF Embedding
<1> QED
  BY <1>1, <1>2 DEF IInv

\* A step that writes an object.
LEMMA Writes ==
  ASSUME IInv, NEW k \in Kbs \cup {NoKb}, Store(k), UNCHANGED <<world, view, up, ready, removing>>,
         rec' \in Recs, queued' \in BOOLEAN, used' \in Counts, used'.uploads = used.uploads,
         ~up => rec' = rec /\ queued' = queued,
         k # NoKb /\ ~k.deleting => Live,
         Calm /\ Live /\ k # NoKb /\ ~k.deleting => GoodK(k, coll) /\ GoodR(rec', coll, oss)
  PROVE  IInv'
<1>1. kb' = k /\ UNCHANGED <<oss, coll, deps>>
  BY DEF Store, world
<1>2. watch' = watch \/ watch' = Append(watch, k)
  BY DEF Store
<1>3. watch' \in Seq(Kbs \cup {NoKb})
  BY <1>2, AppendProperties DEF IInv, Types
<1>4. Types'
  BY <1>1, <1>3 DEF IInv, Types, Store
<1>5. ASSUME Calm
      PROVE  Embedding'
  <2>1. Embedding
    BY <1>5 DEF IInv
  <2>2. \A i \in DOMAIN watch' : watch'[i] = k \/ (i \in DOMAIN watch /\ watch'[i] = watch[i])
    <3>1. watch \in Seq(Kbs \cup {NoKb})
      BY DEF IInv, Types
    <3>2. CASE watch' = Append(watch, k)
      BY <3>1, <3>2, LenProperties, AppendProperties
    <3> QED
      BY <1>2, <3>2
  <2>3. CASE Live'
    <3>1. Live /\ k # NoKb /\ ~k.deleting
      BY <1>1, <2>3 DEF Live
    <3> QED
      BY <1>1, <1>5, <2>1, <2>2, <3>1 DEF Embedding
  <2> QED
    BY <1>1, <2>1, <2>3 DEF Embedding
<1> QED
  BY <1>4, <1>5 DEF IInv

-----------------------------------------------------------------------------
(* Reconcile plans the calls *)

LEMMA TakeStep ==
  ASSUME IInv, NEW next \in Recs, Take(next), {ready', removing'} \subseteq BOOLEAN,
         Calm /\ Live => GoodR(next, coll, oss) /\ (removing' => removing)
  PROVE  IInv'
<1>1. /\ up /\ UNCHANGED <<kb, oss, coll, deps, watch, view, up, used>> /\ rec' = next /\ queued' = FALSE
  BY DEF Take, world
<1>2. coll \subseteq coll' /\ coll' \subseteq Files \X ETags /\ used' \in Counts
  BY <1>1 DEF IInv, Types
<1> QED
  BY <1>1, <1>2, Worker

\* What has no details to write is harmless.
LEMMA NothingToWrite ==
  ASSUME NEW r, r.pc \in {"idle", "finalize", "unfinalize", "annotation"}
  PROVE  GoodR(r, coll, oss)
BY DEF GoodR

LEMMA ViewType ==
  ASSUME IInv, view # NoKb
  PROVE  /\ view \in Kbs /\ view.status \in Status /\ view.status.details \in Details /\ view.files \in Listings
         /\ Calm /\ Live => ~view.deleting /\ GoodD(view.status.details, coll)
<1>1. view \in Kbs
  BY DEF IInv, Types
<1>2. view.status \in Status /\ view.status.details \in Details /\ view.files \in Listings
  BY <1>1 DEF Kbs, Status
<1> QED
  BY <1>1, <1>2 DEF IInv, Embedding, GoodK

LEMMA PatchType ==
  ASSUME NEW s \in Status, NEW stamped \in BOOLEAN, NEW again \in BOOLEAN
  PROVE  /\ Patch(s, stamped, again) \in Recs
         /\ GoodD(s.details, coll) => GoodR(Patch(s, stamped, again), coll, oss)
BY DEF Patch, Recs, Patching, GoodR

LEMMA Conditions ==
  ASSUME IInv, NEW s \in Status, NEW cond \in Conds, Calm /\ Live => GoodD(s.details, coll), SetCondition(s, cond)
  PROVE  IInv'
<1> DEFINE n == [s EXCEPT !.cond = cond]
<1>1. n \in Status /\ n.details = s.details
  BY DEF Status
<1>2. Take(Patch(n, TRUE, FALSE)) /\ removing' = removing /\ {ready', removing'} \subseteq BOOLEAN
  BY DEF SetCondition, IInv, Types
<1> HIDE DEF n
<1> QED
  BY <1>1, <1>2, PatchType, TakeStep

LEMMA Unready ==
  ASSUME IInv, UNCHANGED <<ready, removing>>
  PROVE  {ready', removing'} \subseteq BOOLEAN /\ (removing' => removing)
BY DEF IInv, Types

LEMMA ReconcileGoneOK ==
  ASSUME IInv, ReconcileGone
  PROVE  IInv'
<1>1. Idle \in Recs /\ Idle.pc = "idle"
  BY DEF Idle, Recs
<1> QED
  BY <1>1, Unready, NothingToWrite, TakeStep DEF ReconcileGone

LEMMA ReconcileDeleteOK ==
  ASSUME IInv, ReconcileDelete
  PROVE  IInv'
<1> DEFINE next == [pc |-> "unfinalize", snap |-> view]
<1>1. view \in Kbs /\ (Calm => ~Live)
  BY ViewType DEF ReconcileDelete, Deleting, Exists
<1>2. next \in Recs
  BY <1>1 DEF Recs, Updating
<1>3. {ready', removing'} \subseteq BOOLEAN /\ Take(next)
  BY DEF ReconcileDelete, IInv, Types
<1> QED
  BY <1>1, <1>2, <1>3, TakeStep

LEMMA ReconcileFinalizerOK ==
  ASSUME IInv, ReconcileFinalizer
  PROVE  IInv'
<1> DEFINE next == [pc |-> "finalize", snap |-> view]
<1>1. view \in Kbs
  BY ViewType DEF ReconcileFinalizer, Exists
<1>2. next \in Recs /\ next.pc = "finalize"
  BY <1>1 DEF Recs, Updating
<1> QED
  BY <1>2, Unready, NothingToWrite, TakeStep DEF ReconcileFinalizer

LEMMA ReconcileUpdatedOK ==
  ASSUME IInv, ReconcileUpdated
  PROVE  IInv'
<1> DEFINE next == [pc |-> "annotation"]
<1>1. next \in Recs /\ next.pc = "annotation"
  BY DEF Recs
<1> QED
  BY <1>1, Unready, NothingToWrite, TakeStep DEF ReconcileUpdated

LEMMA ReconcileReadyOK ==
  ASSUME IInv, ReconcileReady
  PROVE  IInv'
<1>1. Idle \in Recs /\ Idle.pc = "idle"
  BY DEF Idle, Recs
<1> QED
  BY <1>1, Unready, NothingToWrite, TakeStep DEF ReconcileReady

\* The conditions that leave the details alone, or forget them.
LEMMA ReconcileConditionsOK ==
  ASSUME IInv, ReconcilePending \/ ReconcileGeneration \/ ReconcileRedo \/ ReconcileDeps
  PROVE  IInv'
<1>1. view # NoKb
  BY DEF ReconcilePending, ReconcileGeneration, ReconcileRedo, ReconcileDeps, InSync, NotUpdated, Observed,
         Finalized, Exists
<1>2. /\ view \in Kbs /\ view.status \in Status
      /\ Calm /\ Live => GoodD(view.status.details, coll)
  BY <1>1, ViewType
<1>3. CASE ReconcilePending \/ ReconcileDeps
  BY <1>2, <1>3, Conditions DEF ReconcilePending, ReconcileDeps, Conds
<1>4. CASE ReconcileGeneration
  <2> DEFINE s == [view.status EXCEPT !.observed = view.gen]
  <2>1. s \in Status /\ s.details = view.status.details
    BY <1>2 DEF Status, Kbs
  <2>2. SetCondition(s, "init")
    BY <1>4 DEF ReconcileGeneration
  <2> HIDE DEF s
  <2> QED
    BY <1>2, <2>1, <2>2, Conditions DEF Conds
<1>5. CASE ReconcileRedo
  <2> DEFINE s == [view.status EXCEPT !.details = Nothing]
  <2>1. s \in Status /\ s.details = Nothing
    BY <1>2, NoDetails DEF Status
  <2>2. SetCondition(s, "init")
    BY <1>5 DEF ReconcileRedo
  <2>3. GoodD(s.details, coll)
    BY <2>1, NoDetails DEF GoodD
  <2> HIDE DEF s
  <2> QED
    BY <2>1, <2>2, <2>3, Conditions DEF Conds
<1> QED
  BY <1>3, <1>4, <1>5

\* Only here is the assumption on requests used.
LEMMA ReconcileRetryFailedOK ==
  ASSUME IInv, ReconcileRetryFailed
  PROVE  IInv'
<1>1. /\ view \in Kbs /\ view.status \in Status /\ view.status.details \in Details /\ view.update = "for-failed"
  BY ViewType DEF ReconcileRetryFailed, Observed, Finalized, Exists
<1>2. ~Calm
  BY <1>1 DEF Calm, Kbs
<1> DEFINE D == view.status.details
           retried == [f \in DOMAIN D |-> IF f \in InPhase("Failed") THEN [D[f] EXCEPT !.phase = "Processing"] ELSE D[f]]
           s == [view.status EXCEPT !.details = retried]
<1>3. retried \in Details
  <2>1. D \in [DOMAIN D -> Detail] /\ DOMAIN D \subseteq Files
    BY <1>1, DetailsType
  <2>2. retried \in [DOMAIN D -> Detail] /\ DOMAIN retried = DOMAIN D
    BY <2>1 DEF Detail, FilePhases
  <2> HIDE DEF retried, D
  <2> QED
    BY <2>1, <2>2, DetailsType
<1>4. SetCondition(s, "init")
  BY DEF ReconcileRetryFailed
<1> HIDE DEF retried
<1>5. s \in Status
  BY <1>1, <1>3 DEF Status
<1> HIDE DEF s
<1> QED
  BY <1>2, <1>4, <1>5, Conditions DEF Conds

\* A file keeps its detail with its version: here each has only one.
LEMMA ReconcileSyncOK ==
  ASSUME IInv, ReconcileSync
  PROVE  IInv'
<1> DEFINE D == view.status.details
           new == Sync(view.files, D)
           next == [pc |-> "sync", base |-> D, new |-> new]
<1>1. view # NoKb
  BY DEF ReconcileSync, NotUpdated, Observed, Finalized, Exists
<1>2. D \in Details /\ new \in Details /\ view.files \in Listings
  BY <1>1, ViewType, SyncType
<1>3. ASSUME Calm, Live
      PROVE  GoodD(new, coll)
  <2>1. GoodD(D, coll) /\ D \in [DOMAIN D -> Detail] /\ view.files \in [DOMAIN view.files -> Versions]
    BY <1>1, <1>2, <1>3, ViewType, DetailsType, ListingsType
  <2>2. ASSUME NEW f \in DOMAIN view.files
        PROVE  GoodFile(f, new[f], coll)
    <3>1. CASE f \notin DOMAIN D
      BY <3>1 DEF Sync, GoodFile
    <3>2. CASE f \in DOMAIN D
      <4>1. D[f].version = view.files[f]
        BY <1>3, <2>1, <3>2 DEF Calm, Detail
      <4>2. new[f] = D[f]
        BY <3>2, <4>1 DEF Sync
      <4> QED
        BY <2>1, <3>2, <4>2 DEF GoodD
    <3> QED
      BY <3>1, <3>2
  <2>3. DOMAIN new = DOMAIN view.files
    BY DEF Sync
  <2> QED
    BY <2>2, <2>3 DEF GoodD
<1>4. Take(next)
  BY DEF ReconcileSync
<1> HIDE DEF new, D
<1>5. next \in Recs /\ (GoodD(new, coll) => GoodR(next, coll, oss))
  BY <1>2 DEF Recs, Syncing, GoodR
<1> QED
  BY <1>3, <1>4, <1>5, Unready, TakeStep DEF ReconcileSync

\* A file of the status gets a phase; the others stay.
LEMMA PhaseSet ==
  ASSUME NEW s \in Status, NEW f \in DOMAIN s.details, NEW p \in FilePhases,
         NEW n, n = [s EXCEPT !.details[f].phase = p]
  PROVE  /\ n \in Status /\ DOMAIN n.details = DOMAIN s.details /\ f \in Files
         /\ n.details[f].phase = p /\ n.details[f].sum = s.details[f].sum
         /\ n.details[f].version = s.details[f].version
         /\ \A g \in DOMAIN s.details : g # f => n.details[g] = s.details[g]
<1> DEFINE D == s.details
           d == [D[f] EXCEPT !.phase = p]
           E == [D EXCEPT ![f] = d]
<1>1. D \in Details /\ D \in [DOMAIN D -> Detail] /\ DOMAIN D \subseteq Files
  BY DetailsType DEF Status
<1>2. d \in Detail /\ d.phase = p /\ d.sum = D[f].sum /\ d.version = D[f].version
  BY <1>1 DEF Detail
<1>3. n = [s EXCEPT !.details = E]
  BY <1>1 DEF Status
<1> HIDE DEF d
<1>4. /\ E \in [DOMAIN D -> Detail] /\ DOMAIN E = DOMAIN D /\ E[f] = d
      /\ \A g \in DOMAIN D : g # f => E[g] = D[g]
  BY <1>1, <1>2
<1> HIDE DEF E
<1>5. E \in Details
  BY <1>1, <1>4, DetailsType
<1>6. n \in Status /\ n.details = E
  BY <1>3, <1>5 DEF Status
<1> QED
  BY <1>1, <1>2, <1>4, <1>6

\* The file that is taken is one of those that are left.
LEMMA CurrentIs ==
  ASSUME IInv, view # NoKb, ToDo # {}
  PROVE  Current \in ToDo /\ Current \in DOMAIN view.status.details
<1>1. view.status.details \in [DOMAIN view.status.details -> Detail] /\ DOMAIN view.status.details \subseteq Files
  BY ViewType, DetailsType
<1>2. ToDo \subseteq DOMAIN view.status.details
  BY DEF ToDo, InPhase
<1>3. ToDo \in SUBSET Nat
  BY <1>1, <1>2, FilesAssumption DEF Files
<1>4. \E f \in ToDo : \A g \in ToDo : f <= g
  BY <1>3, First
<1> QED
  BY <1>2, <1>4 DEF Current

LEMMA Embedded ==
  ASSUME IInv, Embeds
  PROVE  view # NoKb
BY DEF Embeds, Works, InSync, NotUpdated, Observed, Finalized, Exists

LEMMA ReconcileStartOK ==
  ASSUME IInv, ReconcileStart
  PROVE  IInv'
<1>1. /\ view # NoKb /\ view.status \in Status
      /\ Calm /\ Live => GoodD(view.status.details, coll)
  BY Embedded, ViewType DEF ReconcileStart
<1>2. PICK f \in DOMAIN view.status.details : f = Current
  BY <1>1, CurrentIs DEF ReconcileStart
<1>3. PICK s : s = [view.status EXCEPT !.details[f].phase = "Processing"]
  OBVIOUS
<1>4. /\ s \in Status /\ DOMAIN s.details = DOMAIN view.status.details
      /\ s.details[f].phase = "Processing" /\ s.details[f].sum = view.status.details[f].sum
      /\ \A g \in DOMAIN view.status.details : g # f => s.details[g] = view.status.details[g]
  BY <1>1, <1>3, PhaseSet DEF FilePhases
<1>5. GoodD(view.status.details, coll) => GoodD(s.details, coll)
  <2>1. view.status.details[f].phase = "Pending"
    BY <1>2 DEF ReconcileStart
  <2> QED
    BY <1>4, <2>1 DEF GoodD, GoodFile
<1>6. Take(Patch(s, FALSE, FALSE)) /\ UNCHANGED <<ready, removing>>
  BY <1>2, <1>3 DEF ReconcileStart
<1> QED
  BY <1>1, <1>4, <1>5, <1>6, PatchType, Unready, TakeStep

LEMMA ReconcileFileOK ==
  ASSUME IInv, ReconcileFile
  PROVE  IInv'
<1>1. /\ view # NoKb /\ view.status \in Status
      /\ Calm /\ Live => GoodD(view.status.details, coll)
  BY Embedded, ViewType DEF ReconcileFile
<1>2. PICK f \in DOMAIN view.status.details : f = Current
  BY <1>1, CurrentIs DEF ReconcileFile
<1>3. f \in Files /\ view.status.details[f].phase = "Processing"
  BY <1>1, <1>2, DetailsType DEF ReconcileFile, Status
<1>4. PICK next : next = [pc |-> "stat", file |-> f, new |-> view.status]
  OBVIOUS
<1>5. next.pc = "stat" /\ next.file = f /\ next.new = view.status /\ next \in Recs
  BY <1>1, <1>3, <1>4 DEF Recs, Handling
<1>6. Calm /\ Live => GoodR(next, coll, oss)
  BY <1>1, <1>3, <1>5 DEF GoodR
<1>7. Take(next) /\ UNCHANGED <<ready, removing>>
  BY <1>2, <1>4 DEF ReconcileFile
<1> QED
  BY <1>5, <1>6, <1>7, Unready, TakeStep

LEMMA ReconcileEndOK ==
  ASSUME IInv, ReconcileEnd
  PROVE  IInv'
<1>1. /\ view # NoKb /\ view.status \in Status
      /\ Calm /\ Live => GoodD(view.status.details, coll)
  BY Embedded, ViewType DEF ReconcileEnd
<1>2. CASE SetCondition(view.status, "ready")
  BY <1>1, <1>2, Conditions DEF Conds
<1>3. CASE ready' = FALSE /\ Take(Patch([view.status EXCEPT !.cond = "error"], TRUE, TRUE)) /\ UNCHANGED removing
  <2>1. PICK s : s = [view.status EXCEPT !.cond = "error"]
    OBVIOUS
  <2>2. s \in Status /\ s.details = view.status.details
    BY <1>1, <2>1 DEF Status, Conds
  <2>3. Take(Patch(s, TRUE, TRUE)) /\ {ready', removing'} \subseteq BOOLEAN /\ removing' = removing
    BY <1>3, <2>1 DEF IInv, Types
  <2> QED
    BY <1>1, <2>2, <2>3, PatchType, TakeStep
<1> QED
  BY <1>2, <1>3 DEF ReconcileEnd

LEMMA ReconcileOK ==
  ASSUME IInv, ReconcileStep
  PROVE  IInv'
BY ReconcileGoneOK, ReconcileDeleteOK, ReconcileFinalizerOK, ReconcileConditionsOK, ReconcileRetryFailedOK,
   ReconcileUpdatedOK, ReconcileSyncOK, ReconcileReadyOK, ReconcileStartOK, ReconcileFileOK, ReconcileEndOK
   DEF ReconcileStep

-----------------------------------------------------------------------------
(* The calls *)

\* A call that ends in another try, or in nothing.
LEMMA Given ==
  ASSUME IInv, up, UNCHANGED <<kb, world, watch, view, up, ready, removing>>, rec' = Idle, queued' \in BOOLEAN,
         used' \in Counts, used'.uploads = used.uploads
  PROVE  IInv'
<1>1. Idle \in Recs /\ Idle.pc = "idle"
  BY DEF Idle, Recs
<1>2. UNCHANGED <<oss, coll, deps>>
  BY DEF world
<1>3. GoodR(rec', coll', oss)
  BY <1>1, NothingToWrite DEF GoodR
<1>4. coll' \subseteq Files \X ETags /\ {queued', ready', removing'} \subseteq BOOLEAN
  BY <1>2 DEF IInv, Types
<1> QED
  BY <1>1, <1>2, <1>3, <1>4, Worker

LEMMA AtWork ==
  ASSUME IInv, rec.pc # "idle"
  PROVE  up /\ rec \in Recs /\ used \in Counts
BY DEF IInv, Types, Idle

\* What fails is counted; uploads are not.
LEMMA FaultCounts ==
  ASSUME used \in Counts, Fault
  PROVE  used' \in Counts /\ used'.uploads = used.uploads
BY DEF Fault, Counts

LEMMA UpdateFinalizerOK ==
  ASSUME IInv, UpdateFinalizer
  PROVE  IInv'
<1>1. up /\ used \in Counts /\ rec \in Updating /\ UNCHANGED <<world, view, up, ready, removing, used>>
  BY AtWork, RecIs DEF UpdateFinalizer
<1>2. CASE kb # rec.snap
  BY <1>1, <1>2, Given DEF UpdateFinalizer, Retry, IInv, Types
<1>3. CASE kb = rec.snap
  <2>1. kb \in Kbs
    BY <1>1, <1>3 DEF Updating
  <2>2. PICK k : Store(k) /\ (k = NoKb \/ k = [kb EXCEPT !.finalizer = TRUE])
    BY <1>3 DEF UpdateFinalizer
  <2>3. k \in Kbs \cup {NoKb} /\ (k # NoKb => k.deleting = kb.deleting /\ k.status = kb.status)
    BY <2>1, <2>2 DEF Kbs
  <2>4. rec' = Idle /\ queued' = queued
    BY <1>3 DEF UpdateFinalizer
  <2>5. Idle \in Recs /\ GoodR(Idle, coll, oss) /\ queued' \in BOOLEAN
    BY <2>4, NothingToWrite DEF Idle, Recs, IInv, Types
  <2>6. kb # NoKb
    BY <2>1 DEF Kbs, NoKb
  <2>7. k # NoKb /\ ~k.deleting => Live
    BY <2>3, <2>6 DEF Live
  <2>8. Calm /\ Live /\ k # NoKb /\ ~k.deleting => GoodK(k, coll)
    BY <2>3, <2>6 DEF IInv, Embedding, GoodK
  <2> QED
    BY <1>1, <2>2, <2>3, <2>4, <2>5, <2>7, <2>8, Writes
<1> QED
  BY <1>2, <1>3

\* Whatever the cache was, what is written are details that were good, or are kept.
LEMMA PatchStatusOK ==
  ASSUME IInv, PatchStatus
  PROVE  IInv'
<1>1. up /\ used \in Counts /\ rec \in Patching /\ UNCHANGED <<world, view, up, ready, removing, used>>
  BY AtWork, RecIs DEF PatchStatus
<1>2. CASE ~Exists \/ kb = NoKb
  BY <1>1, <1>2, Given DEF PatchStatus, Retry
<1>3. CASE Exists /\ kb # NoKb
  <2>1. rec' = Idle /\ queued' = (queued \/ rec.again) /\ queued' \in BOOLEAN
    BY <1>1, <1>3 DEF PatchStatus, Patching, IInv, Types
  <2>2. CASE UNCHANGED <<kb, watch>>
    BY <1>1, <2>1, <2>2, Given
  <2> DEFINE new == rec.new
             old == view.status
             s == [observed |-> IF new.observed = old.observed THEN kb.status.observed ELSE new.observed,
                   cond     |-> IF new.cond = old.cond /\ ~rec.stamped THEN kb.status.cond ELSE new.cond,
                   details  |-> IF new.details = old.details THEN kb.status.details ELSE new.details]
             k == [kb EXCEPT !.status = s]
  <2>3. CASE Store(k)
    <3>1. kb \in Kbs /\ kb.status \in Status /\ new \in Status
      BY <1>1, <1>3 DEF IInv, Types, Kbs, Patching
    <3>2. s \in Status /\ s.details \in {kb.status.details, new.details}
      BY <3>1 DEF Status
    <3> HIDE DEF s
    <3>3. k \in Kbs /\ k.status = s /\ k.deleting = kb.deleting
      BY <3>1, <3>2 DEF Kbs
    <3>4. k # NoKb /\ ~k.deleting => Live
      BY <1>3, <3>3 DEF Live
    <3>5. ASSUME Calm, Live
          PROVE  GoodK(k, coll)
      <4>1. GoodD(kb.status.details, coll) /\ ~kb.deleting
        BY <1>3, <3>5 DEF IInv, Embedding, GoodK
      <4>2. GoodD(new.details, coll)
        BY <1>1, <3>5 DEF IInv, Embedding, GoodR, Patching
      <4> QED
        BY <3>2, <3>3, <4>1, <4>2 DEF GoodK
    <3> HIDE DEF k
    <3>6. Idle \in Recs /\ GoodR(Idle, coll, oss)
      BY NothingToWrite DEF Idle, Recs
    <3> QED
      BY <1>1, <2>1, <2>3, <3>3, <3>4, <3>5, <3>6, Writes
  <2> QED
    BY <1>3, <2>2, <2>3 DEF PatchStatus
<1> QED
  BY <1>2, <1>3 DEF Exists

LEMMA PatchSyncOK ==
  ASSUME IInv, PatchSync
  PROVE  IInv'
<1>1. up /\ used \in Counts /\ rec \in Syncing /\ UNCHANGED <<world, view, up, ready, removing, used>>
  BY AtWork, RecIs DEF PatchSync
<1>2. CASE kb = NoKb
  BY <1>1, <1>2, Given DEF PatchSync, Retry
<1>3. CASE kb # NoKb
  <2>1. kb \in Kbs /\ kb.status \in Status
    BY <1>3 DEF IInv, Types, Kbs
  <2>2. PICK s : s = [kb.status EXCEPT !.details = rec.new]
    OBVIOUS
  <2>3. s \in Status /\ s.details = rec.new
    BY <1>1, <2>1, <2>2 DEF Status, Syncing
  <2>4. PICK k : k = [kb EXCEPT !.status = s]
    OBVIOUS
  <2>5. k \in Kbs /\ k.status = s /\ k.deleting = kb.deleting
    BY <2>1, <2>3, <2>4 DEF Kbs
  <2>6. [kb EXCEPT !.status.details = rec.new] = k
    BY <2>2, <2>4
  <2>7. Store(k) /\ rec' = Idle /\ queued' = queued
    BY <1>3, <2>6 DEF PatchSync
  <2>8. Idle \in Recs /\ GoodR(Idle, coll, oss) /\ queued' \in BOOLEAN
    BY <2>7, NothingToWrite DEF Idle, Recs, IInv, Types
  <2>9. k # NoKb /\ ~k.deleting => Live
    BY <1>3, <2>5 DEF Live
  <2>10. Calm /\ Live => GoodK(k, coll)
    BY <1>1, <1>3, <2>3, <2>5 DEF IInv, Embedding, GoodK, GoodR, Live, Syncing
  <2> QED
    BY <1>1, <2>5, <2>7, <2>8, <2>9, <2>10, Writes
<1> QED
  BY <1>2, <1>3

LEMMA PatchAnnotationOK ==
  ASSUME IInv, PatchAnnotation
  PROVE  IInv'
<1>1. up /\ used \in Counts /\ UNCHANGED <<world, view, up, ready, removing, used>>
  BY AtWork DEF PatchAnnotation
<1>2. CASE kb = NoKb
  BY <1>1, <1>2, Given DEF PatchAnnotation, Retry
<1>3. CASE kb # NoKb
  <2>1. kb \in Kbs
    BY <1>3 DEF IInv, Types
  <2>2. PICK k : k = [kb EXCEPT !.update = "none"]
    OBVIOUS
  <2>3. k \in Kbs /\ k.status = kb.status /\ k.deleting = kb.deleting
    BY <2>1, <2>2 DEF Kbs
  <2>4. Store(k) /\ rec' = Idle /\ queued' = queued
    BY <1>3, <2>2 DEF PatchAnnotation
  <2>5. Idle \in Recs /\ GoodR(Idle, coll, oss) /\ queued' \in BOOLEAN
    BY <2>4, NothingToWrite DEF Idle, Recs, IInv, Types
  <2>6. k # NoKb /\ ~k.deleting => Live
    BY <1>3, <2>3 DEF Live
  <2>7. Calm /\ Live => GoodK(k, coll)
    BY <1>3, <2>3 DEF IInv, Embedding, GoodK
  <2> QED
    BY <1>1, <2>3, <2>4, <2>5, <2>6, <2>7, Writes
<1> QED
  BY <1>2, <1>3

LEMMA CallFailsOK ==
  ASSUME IInv, CallFails
  PROVE  IInv'
<1>1. up /\ used \in Counts
  BY AtWork DEF CallFails
<1> QED
  BY <1>1, FaultCounts, Given DEF CallFails, Retry

-----------------------------------------------------------------------------
(* reconcileFileGroup *)

LEMMA SumSet ==
  ASSUME NEW s \in Status, NEW f \in DOMAIN s.details, NEW etag \in ETags,
         NEW n, n = [s EXCEPT !.details[f].sum = etag]
  PROVE  /\ n \in Status /\ DOMAIN n.details = DOMAIN s.details
         /\ n.details[f].phase = s.details[f].phase /\ n.details[f].sum = etag
         /\ n.details[f].version = s.details[f].version
         /\ \A g \in DOMAIN s.details : g # f => n.details[g] = s.details[g]
<1> DEFINE D == s.details
           d == [D[f] EXCEPT !.sum = etag]
           E == [D EXCEPT ![f] = d]
<1>1. D \in Details /\ D \in [DOMAIN D -> Detail] /\ DOMAIN D \subseteq Files
  BY DetailsType DEF Status
<1>2. d \in Detail /\ d.phase = D[f].phase /\ d.sum = etag /\ d.version = D[f].version
  BY <1>1 DEF Detail
<1>3. n = [s EXCEPT !.details = E]
  BY <1>1 DEF Status
<1> HIDE DEF d
<1>4. /\ E \in [DOMAIN D -> Detail] /\ DOMAIN E = DOMAIN D /\ E[f] = d
      /\ \A g \in DOMAIN D : g # f => E[g] = D[g]
  BY <1>1, <1>2
<1> HIDE DEF E
<1>5. E \in Details
  BY <1>1, <1>4, DetailsType
<1>6. n \in Status /\ n.details = E
  BY <1>3, <1>5 DEF Status
<1> QED
  BY <1>1, <1>2, <1>4, <1>6

\* The file in hand, its version, and what the object store has of it.
LEMMA InHand ==
  ASSUME IInv, rec.pc \in {"stat", "read"}
  PROVE  /\ up /\ used \in Counts /\ rec \in Handling /\ rec.file \in Files /\ rec.new \in Status
         /\ rec.file \in DOMAIN rec.new.details /\ rec.new.details[rec.file] \in Detail
         /\ oss[rec.file][rec.new.details[rec.file].version] \in ETags
<1>1. up /\ used \in Counts /\ rec \in Handling
  BY AtWork, RecIs
<1>2. rec.file \in Files /\ rec.new \in Status /\ rec.file \in DOMAIN rec.new.details
  BY <1>1 DEF Handling
<1>3. rec.new.details[rec.file] \in Detail
  BY <1>2, DetailsType DEF Status
<1>4. rec.new.details[rec.file].version \in Versions
  BY <1>3 DEF Detail
<1> QED
  BY <1>1, <1>2, <1>3, <1>4 DEF IInv, Types

\* The file gets a phase, for which the collection may have got its documents.
LEMMA OutcomeStep ==
  ASSUME IInv, rec.pc \in {"stat", "read"}, NEW p \in {"Processing", "Succeeded", "Failed"},
         rec' = Outcome(p), UNCHANGED <<kb, oss, deps, watch, view, up, queued, ready, removing>>,
         coll' \in {coll, Added}, used' \in Counts, used'.uploads = used.uploads,
         p = "Processing" => rec.pc = "stat",
         p = "Succeeded" /\ Calm /\ Live => rec.pc = "read" /\ coll' = Added
  PROVE  IInv'
<1>1. PICK f \in DOMAIN rec.new.details : f = rec.file
  BY InHand
<1>2. PICK etag \in ETags : etag = oss[f][rec.new.details[f].version]
  BY <1>1, InHand
<1>3. PICK s : s = [rec.new EXCEPT !.details[f].phase = p]
  OBVIOUS
<1>4. /\ s \in Status /\ DOMAIN s.details = DOMAIN rec.new.details /\ f \in Files
      /\ s.details[f].phase = p /\ s.details[f].sum = rec.new.details[f].sum
      /\ \A g \in DOMAIN rec.new.details : g # f => s.details[g] = rec.new.details[g]
  BY <1>3, InHand, PhaseSet DEF FilePhases
<1>5. rec' = Patch(s, FALSE, TRUE)
  BY <1>1, <1>3 DEF Outcome
<1>6. coll' = coll \/ coll' = coll \cup {<<f, etag>>}
  BY <1>1, <1>2 DEF Added
<1>7. coll \subseteq coll' /\ coll' \subseteq Files \X ETags
  BY <1>4, <1>6 DEF IInv, Types
<1>8. ASSUME Calm, Live
      PROVE  GoodD(s.details, coll')
  <2>1. GoodR(rec, coll, oss)
    BY <1>8 DEF IInv, Embedding
  <2>2. ASSUME NEW g \in DOMAIN s.details
        PROVE  GoodFile(g, s.details[g], coll')
    <3>1. CASE g # f
      <4>1. GoodFile(g, rec.new.details[g], coll)
        BY <1>1, <1>4, <2>1, <3>1 DEF GoodR, GoodD
      <4> QED
        BY <1>4, <1>7, <3>1, <4>1 DEF GoodFile
    <3>2. CASE g = f /\ p = "Succeeded"
      <4>1. coll' = coll \cup {<<f, etag>>} /\ rec.pc = "read"
        BY <1>1, <1>2, <1>8, <3>2 DEF Added
      <4>2. rec.new.details[f].sum <= etag /\ etag \in Nat /\ rec.new.details[f].sum \in Nat
        <5>1. rec.new.details[f] \in Detail
          BY <1>1, InHand
        <5>2. etag \in Nat /\ rec.new.details[f].sum \in Nat
          BY <1>2, <5>1 DEF Detail, ETags, NoSum
        <5>3. rec.new.details[f].sum <= etag
          BY <1>1, <1>2, <2>1, <4>1 DEF GoodR
        <5> QED
          BY <5>2, <5>3
      <4> QED
        BY <1>2, <1>4, <3>2, <4>1, <4>2 DEF GoodFile
    <3>3. CASE g = f /\ p = "Processing"
      <4>1. GoodFile(f, rec.new.details[f], coll) /\ rec.new.details[f].phase = "Processing"
        BY <1>1, <2>1, <3>3 DEF GoodR, GoodD
      <4> QED
        BY <1>4, <3>3, <4>1 DEF GoodFile
    <3>4. CASE g = f /\ p = "Failed"
      BY <1>4, <3>4 DEF GoodFile
    <3> QED
      BY <3>1, <3>2, <3>3, <3>4
  <2> QED
    BY <2>2 DEF GoodD
<1>9. rec' \in Recs /\ (GoodD(s.details, coll') => GoodR(rec', coll', oss))
  BY <1>4, <1>5 DEF Patch, Recs, Patching, GoodR
<1>10. {queued', ready', removing'} \subseteq BOOLEAN /\ removing' = removing
  BY DEF IInv, Types
<1>11. up
  BY InHand
<1> QED
  BY <1>7, <1>8, <1>9, <1>10, <1>11, Worker

\* A file without a checksum is read.
LEMMA StatFileOK ==
  ASSUME IInv, StatFile
  PROVE  IInv'
<1>1. PICK f \in DOMAIN rec.new.details : f = rec.file
  BY InHand DEF StatFile
<1>2. PICK etag \in ETags : etag = oss[f][rec.new.details[f].version]
  BY <1>1, InHand DEF StatFile
<1>3. /\ rec.pc = "stat" /\ used' = used /\ coll' = coll
      /\ UNCHANGED <<kb, oss, deps, watch, view, up, queued, ready, removing>>
  BY DEF StatFile, world
<1>4. /\ used' \in Counts /\ coll' \subseteq Files \X ETags /\ removing' = removing /\ up
      /\ {queued', ready', removing'} \subseteq BOOLEAN
  BY <1>3, InHand DEF IInv, Types
<1>5. ASSUME Calm, Live
      PROVE  GoodD(rec.new.details, coll) /\ rec.new.details[f].phase = "Processing" /\ rec.new.details[f].sum = NoSum
  BY <1>1, <1>3, <1>5 DEF IInv, Embedding, GoodR, GoodD, GoodFile
<1>6. CASE rec' = Outcome("Succeeded") /\ ~Changed(etag, rec.new.details[f])
  <2>1. ~(Calm /\ Live)
    BY <1>5, <1>6 DEF Changed, ETags, NoSum
  <2> QED
    BY <1>3, <1>4, <1>6, <2>1, OutcomeStep
<1>7. CASE rec' = [rec EXCEPT !.pc = "read", !.new.details[f].sum = etag]
  <2>1. PICK s : s = [rec.new EXCEPT !.details[f].sum = etag]
    OBVIOUS
  <2>2. /\ s \in Status /\ DOMAIN s.details = DOMAIN rec.new.details
        /\ s.details[f].phase = rec.new.details[f].phase /\ s.details[f].sum = etag
        /\ s.details[f].version = rec.new.details[f].version
        /\ \A g \in DOMAIN rec.new.details : g # f => s.details[g] = rec.new.details[g]
    BY <1>3, <2>1, InHand, SumSet
  <2>3. rec' = [rec EXCEPT !.pc = "read", !.new = s]
    BY <1>7, <2>1
  <2>4. rec \in Handling
    BY <1>3, InHand
  <2>5. rec' \in Handling /\ rec'.pc = "read" /\ rec'.file = f /\ rec'.new = s
    BY <1>1, <2>2, <2>3, <2>4 DEF Handling
  <2>6. ASSUME Calm, Live
        PROVE  GoodR(rec', coll, oss)
    <3>1. \A g \in DOMAIN s.details : g # f => GoodFile(g, s.details[g], coll)
      BY <1>5, <2>2, <2>6 DEF GoodD
    <3>2. s.details[f].sum <= oss[f][s.details[f].version]
      BY <1>2, <2>2 DEF ETags
    <3> QED
      BY <1>5, <2>2, <2>5, <2>6, <3>1, <3>2 DEF GoodR
  <2>7. rec' \in Recs
    BY <2>5 DEF Recs
  <2> QED
    BY <1>3, <1>4, <2>6, <2>7, Worker
<1> QED
  BY <1>1, <1>2, <1>6, <1>7 DEF StatFile

LEMMA StatFailsOK ==
  ASSUME IInv, StatFails
  PROVE  IInv'
<1>1. used' \in Counts /\ used'.uploads = used.uploads
  BY InHand, FaultCounts DEF StatFails
<1>2. PICK p \in {"Processing", "Failed"} : rec' = Outcome(p)
  BY DEF StatFails
<1>3. rec.pc = "stat" /\ coll' = coll /\ UNCHANGED <<kb, oss, deps, watch, view, up, queued, ready, removing>>
  BY DEF StatFails, world
<1> QED
  BY <1>1, <1>2, <1>3, OutcomeStep

\* The documents are those of the checksum, or of a later upload.
LEMMA HandleFileOK ==
  ASSUME IInv, HandleFile
  PROVE  IInv'
<1>1. used' \in Counts /\ used'.uploads = used.uploads /\ rec.pc = "read"
  BY InHand DEF HandleFile
<1> QED
  BY <1>1, OutcomeStep DEF HandleFile

LEMMA HandleFailsOK ==
  ASSUME IInv, HandleFails
  PROVE  IInv'
<1>1. used' \in Counts /\ used'.uploads = used.uploads /\ rec.pc = "read"
  BY InHand, FaultCounts DEF HandleFails
<1> QED
  BY <1>1, OutcomeStep DEF HandleFails

-----------------------------------------------------------------------------
(* The goroutine, the watch, users and restarts *)

\* The collection is removed when the knowledge base is on its way out, or gone.
LEMMA RemoveCollectionOK ==
  ASSUME IInv, RemoveCollection
  PROVE  IInv'
<1>1. /\ removing /\ removing' = FALSE
      /\ UNCHANGED <<kb, oss, deps, watch, view, up, queued, rec, ready>>
      /\ coll' = {} \/ coll' = coll
  BY DEF RemoveCollection
<1>2. used' \in Counts /\ used'.uploads = used.uploads
  BY FaultCounts DEF RemoveCollection, IInv, Types
<1>3. Types'
  BY <1>1, <1>2 DEF IInv, Types
<1>4. Calm => Embedding'
  BY <1>1, <1>2 DEF IInv, Embedding, Live
<1> QED
  BY <1>3, <1>4 DEF IInv

LEMMA DeliverOK ==
  ASSUME IInv, Deliver
  PROVE  IInv'
<1>1. /\ watch \in Seq(Kbs \cup {NoKb}) /\ watch # <<>>
      /\ view' = Head(watch) /\ watch' = Tail(watch) /\ queued' = TRUE
      /\ UNCHANGED <<kb, oss, coll, deps, up, rec, ready, removing, used>>
  BY DEF Deliver, world, IInv, Types
<1>2. /\ view' = watch[1] /\ 1 \in DOMAIN watch /\ view' \in Kbs \cup {NoKb}
      /\ watch' \in Seq(Kbs \cup {NoKb})
      /\ \A i \in DOMAIN watch' : i + 1 \in DOMAIN watch /\ watch'[i] = watch[i + 1]
  <2>1. Len(watch) \in Nat /\ Len(watch) # 0 /\ DOMAIN watch = 1..Len(watch)
    BY <1>1, EmptySeq, LenProperties
  <2>2. /\ Head(watch) \in Kbs \cup {NoKb} /\ Tail(watch) \in Seq(Kbs \cup {NoKb}) /\ Head(watch) = watch[1]
        /\ Len(Tail(watch)) = Len(watch) - 1
        /\ \A i \in 1..Len(Tail(watch)) : Tail(watch)[i] = watch[i + 1]
    BY <1>1, HeadTailProperties
  <2>3. DOMAIN Tail(watch) = 1..(Len(watch) - 1)
    BY <2>2, LenProperties
  <2> QED
    BY <1>1, <2>1, <2>2, <2>3
<1>3. Types'
  BY <1>1, <1>2 DEF IInv, Types
<1>4. Calm => Embedding'
  BY <1>1, <1>2 DEF IInv, Embedding, Live
<1> QED
  BY <1>3, <1>4 DEF IInv

\* A later upload has a later ETag.
LEMMA UploadOK ==
  ASSUME IInv, NEW f \in Files, NEW v \in Versions, Upload(f, v)
  PROVE  IInv'
<1> DEFINE n == used.uploads
           row == [oss[f] EXCEPT ![v] = n + 2]
<1>1. /\ UNCHANGED <<kb, coll, deps, watch, view, up, queued, rec, ready, removing>>
      /\ used.uploads < MaxUploads /\ used' = [used EXCEPT !.uploads = @ + 1] /\ oss' = [oss EXCEPT ![f] = row]
  BY DEF Upload
<1>2. n \in Nat /\ n < MaxUploads /\ MaxUploads \in Nat /\ used' \in Counts /\ used'.uploads = n + 1
  <2>1. n \in 0..MaxUploads /\ MaxUploads \in Nat
    BY LimitsAssumption DEF IInv, Types, Counts
  <2>2. PICK m : m = n + 1
    OBVIOUS
  <2>3. m \in 0..MaxUploads /\ used' = [used EXCEPT !.uploads = m]
    BY <1>1, <2>1, <2>2
  <2>4. used' \in Counts /\ used'.uploads = m
    BY <2>3 DEF IInv, Types, Counts
  <2> QED
    BY <1>1, <2>1, <2>2, <2>4
<1>3. row \in [Versions -> ETags] /\ row[v] = n + 2 /\ \A w \in Versions : w # v => row[w] = oss[f][w]
  BY <1>2 DEF IInv, Types, ETags
<1>4. oss' \in [Files -> [Versions -> ETags]] /\ oss'[f] = row /\ \A g \in Files : g # f => oss'[g] = oss[g]
  BY <1>1, <1>3 DEF IInv, Types
<1>5. Types'
  BY <1>1, <1>2, <1>4 DEF IInv, Types
<1>6. ASSUME Calm
      PROVE  Embedding'
  <2>1. Embedding
    BY <1>6 DEF IInv
  <2>2. \A g \in Files, w \in Versions : oss[g][w] \in Nat /\ oss[g][w] <= n + 1
    BY <2>1 DEF Embedding, IInv, Types, ETags
  <2>3. ASSUME NEW g \in Files, NEW w \in Versions
        PROVE  oss'[g][w] \in Nat /\ oss'[g][w] <= n + 2 /\ oss[g][w] <= oss'[g][w]
    BY <1>2, <1>3, <1>4, <2>2
  <2>4. ASSUME Live
        PROVE  GoodR(rec, coll, oss')
    <3>1. GoodR(rec, coll, oss)
      BY <2>1, <2>4 DEF Embedding
    <3>2. CASE rec.pc # "read"
      BY <3>1, <3>2 DEF GoodR
    <3>3. CASE rec.pc = "read"
      <4>1. rec.file \in Files /\ rec.new.details[rec.file] \in Detail
        BY <3>3, InHand
      <4>2. /\ rec.new.details[rec.file].version \in Versions
            /\ rec.new.details[rec.file].sum \in Nat
        BY <4>1 DEF Detail, ETags, NoSum
      <4>3. rec.new.details[rec.file].sum <= oss[rec.file][rec.new.details[rec.file].version]
        BY <3>1, <3>3 DEF GoodR
      <4>4. rec.new.details[rec.file].sum <= oss'[rec.file][rec.new.details[rec.file].version]
        BY <2>2, <2>3, <4>1, <4>2, <4>3
      <4> QED
        BY <3>1, <3>3, <4>4 DEF GoodR
    <3> QED
      BY <3>2, <3>3
  <2>5. Live' = Live
    BY <1>1 DEF Live
  <2>6. \A g \in Files, w \in Versions : oss'[g][w] <= used'.uploads + 1
    BY <1>2, <2>3
  <2> QED
    BY <1>1, <2>1, <2>4, <2>5, <2>6 DEF Embedding
<1> QED
  BY <1>5, <1>6 DEF IInv

\* What users write: the worker goes on with what it has.
LEMMA UserWrites ==
  ASSUME IInv, NEW k \in Kbs \cup {NoKb}, Store(k), UNCHANGED <<world, view, up, queued, rec, ready, removing>>,
         used' \in Counts, used'.uploads = used.uploads, kb # NoKb,
         k # NoKb => k.status = kb.status /\ (kb.deleting => k.deleting)
  PROVE  IInv'
<1>1. rec' \in Recs /\ queued' \in BOOLEAN
  BY DEF IInv, Types
<1>2. k # NoKb /\ ~k.deleting => Live
  BY DEF Live
<1>3. Calm /\ Live /\ k # NoKb /\ ~k.deleting => GoodK(k, coll) /\ GoodR(rec', coll, oss)
  BY DEF IInv, Embedding, GoodK
<1> QED
  BY <1>1, <1>2, <1>3, Writes

LEMMA EditFilesOK ==
  ASSUME IInv, NEW files \in Listings, EditFiles(files)
  PROVE  IInv'
<1>1. kb # NoKb /\ kb \in Kbs
  BY DEF EditFiles, IInv, Types
<1>2. PICK k : k = [kb EXCEPT !.gen = @ + 1, !.files = files]
  OBVIOUS
<1>3. k \in Kbs /\ k.status = kb.status /\ k.deleting = kb.deleting
  <2>1. PICK g \in Nat : g = kb.gen + 1
    BY <1>1 DEF Kbs
  <2>2. k = [kb EXCEPT !.gen = g, !.files = files]
    BY <1>2, <2>1
  <2> QED
    BY <1>1, <2>2 DEF Kbs
<1>4. used' \in Counts /\ used'.uploads = used.uploads
  BY DEF EditFiles, IInv, Types, Counts
<1> QED
  BY <1>1, <1>2, <1>3, <1>4, UserWrites DEF EditFiles

LEMMA RequestUpdateOK ==
  ASSUME IInv, NEW how \in Updates, RequestUpdate(how)
  PROVE  IInv'
<1>1. kb # NoKb /\ kb \in Kbs
  BY DEF RequestUpdate, IInv, Types
<1>2. PICK k : k = [kb EXCEPT !.update = how]
  OBVIOUS
<1>3. k \in Kbs /\ k.status = kb.status /\ k.deleting = kb.deleting
  BY <1>1, <1>2 DEF Kbs
<1>4. used' \in Counts /\ used'.uploads = used.uploads
  BY DEF RequestUpdate, IInv, Types, Counts
<1> QED
  BY <1>1, <1>2, <1>3, <1>4, UserWrites DEF RequestUpdate

LEMMA DeleteOK ==
  ASSUME IInv, Delete
  PROVE  IInv'
<1>1. kb # NoKb /\ kb \in Kbs
  BY DEF Delete, IInv, Types
<1>2. PICK k : Store(k) /\ (k = NoKb \/ k = [kb EXCEPT !.deleting = TRUE])
  BY DEF Delete
<1>3. k \in Kbs \cup {NoKb} /\ (k # NoKb => k.status = kb.status /\ k.deleting)
  BY <1>1, <1>2 DEF Kbs
<1>4. used' \in Counts /\ used'.uploads = used.uploads
  BY DEF Delete, IInv, Types, Counts
<1> QED
  BY <1>1, <1>2, <1>3, <1>4, UserWrites DEF Delete

LEMMA UserOK ==
  ASSUME IInv, User
  PROVE  IInv'
BY UploadOK, EditFilesOK, RequestUpdateOK, DeleteOK DEF User

LEMMA AroundOK ==
  ASSUME IInv, (\E s \in {"ready", "notReady", "missing"} : DepsChange(s)) \/ Crash \/ Restart
  PROVE  IInv'
<1>1. CASE \E s \in {"ready", "notReady", "missing"} : DepsChange(s)
  <2>1. /\ UNCHANGED <<kb, oss, coll, watch, view, up, rec, ready, removing>>
        /\ deps' \in {"ready", "notReady", "missing"} /\ queued' = (queued \/ (up /\ view # NoKb))
    BY <1>1 DEF DepsChange
  <2>2. used' \in Counts /\ used'.uploads = used.uploads
    BY <1>1 DEF DepsChange, IInv, Types, Counts
  <2>3. Types'
    BY <2>1, <2>2 DEF IInv, Types
  <2>4. Calm => Embedding'
    BY <2>1, <2>2 DEF IInv, Embedding, Live
  <2> QED
    BY <2>3, <2>4 DEF IInv
<1>2. CASE Crash \/ Restart
  <2>1. /\ UNCHANGED <<kb, oss, coll, deps>> /\ rec' = Idle /\ removing' = FALSE /\ ready' = FALSE
        /\ watch' = <<>> /\ view' \in {view, kb} /\ up' \in BOOLEAN
        /\ queued' \in BOOLEAN /\ (~up' => ~queued')
    BY <1>2 DEF Crash, Restart, world, IInv, Types
  <2>2. used' \in Counts /\ used'.uploads = used.uploads
    BY <1>2 DEF Crash, Restart, IInv, Types, Counts
  <2>3. Idle \in Recs /\ GoodR(Idle, coll, oss) /\ <<>> \in Seq(Kbs \cup {NoKb}) /\ DOMAIN <<>> = {}
    BY NothingToWrite, EmptySeq DEF Idle, Recs
  <2>4. Types'
    BY <2>1, <2>2, <2>3 DEF IInv, Types
  <2>5. Calm => Embedding'
    BY <2>1, <2>2, <2>3 DEF IInv, Embedding, Live
  <2> QED
    BY <2>4, <2>5 DEF IInv
<1> QED
  BY <1>1, <1>2

-----------------------------------------------------------------------------
(* Theorems *)

LEMMA Initially ==
  ASSUME Init
  PROVE  IInv
<1>1. PICK files \in Listings : kb = NewKb(files)
  BY DEF Init
<1>2. kb \in Kbs /\ kb.status.details = Nothing
  BY <1>1, NoDetails DEF NewKb, Kbs, Status, Conds
<1>3. Idle \in Recs /\ GoodR(Idle, coll, oss) /\ <<>> \in Seq(Kbs \cup {NoKb}) /\ DOMAIN <<>> = {}
  BY NothingToWrite, EmptySeq DEF Idle, Recs
<1>4. MaxUploads \in Nat
  BY LimitsAssumption
<1>5. used \in Counts /\ used.uploads = 0
  BY <1>4 DEF Init, Counts
<1>6. Types
  <2>1. 1 \in ETags
    BY <1>4 DEF ETags
  <2>2. oss \in [Files -> [Versions -> ETags]]
    BY <2>1 DEF Init
  <2>3. {up, queued, ready, removing} \subseteq BOOLEAN /\ up
    BY DEF Init
  <2> QED
    BY <1>2, <1>3, <1>5, <2>2, <2>3 DEF Init, Types
<1>7. GoodD(Nothing, coll)
  BY NoDetails DEF GoodD
<1>8. Embedding
  <2>1. \A f \in Files, v \in Versions : oss[f][v] <= used.uploads + 1
    BY <1>5 DEF Init
  <2>2. Live => GoodK(kb, coll)
    BY <1>2, <1>7 DEF Live, GoodK
  <2> QED
    BY <1>3, <2>1, <2>2 DEF Init, Embedding
<1> QED
  BY <1>6, <1>8 DEF IInv

LEMMA Invariance ==
  ASSUME IInv, [Next]_vars
  PROVE  IInv'
<1>1. CASE Next
  BY <1>1, ReconcileOK, UpdateFinalizerOK, PatchStatusOK, PatchSyncOK, PatchAnnotationOK, StatFileOK, HandleFileOK,
     StatFailsOK, HandleFailsOK, CallFailsOK, RemoveCollectionOK, DeliverOK, UserOK, AroundOK DEF Next, Call
<1>2. CASE UNCHANGED vars
  BY <1>2 DEF vars, world, IInv, Types, Embedding, Live
<1> QED
  BY <1>1, <1>2

\* The invariant that the theorems follow from, with Embedding as far as Calm holds.
THEOREM Inductive == Spec => []IInv
<1>1. Init => IInv
  BY Initially
<1>2. IInv /\ [Next]_vars => IInv'
  BY Invariance
<1> QED
  BY <1>1, <1>2, PTL DEF Spec

\* Type correctness of the object, its copies and what a reconcile is about to write,
\* for all edits and requests; a controller that is down keeps nothing in memory.
THEOREM TypeCorrect == Spec => []TypeOK
<1>1. IInv => TypeOK
  BY TypesAreOK DEF IInv
<1> QED
  BY <1>1, Inductive, PTL

\* A file called Succeeded is embedded, with what its checksum says or a later upload:
\* whatever cache the controller reads, whichever of its calls fail, and wherever it
\* is restarted.
THEOREM SucceededFilesEmbedded ==
  ASSUME Calm
  PROVE  Spec => []SucceededEmbedded
<1>1. IInv => SucceededEmbedded
  BY DEF IInv, Embedding, SucceededEmbedded, Live, GoodK, GoodD, GoodFile
<1> QED
  BY <1>1, Inductive, PTL

-----------------------------------------------------------------------------
(* Versions of the object, and what is asked for *)

\* The collection has a file, with the content of an ETag or a later one.
Has(f, a) == \E etag \in ETags : etag >= a /\ <<f, etag>> \in coll

\* The versions of the object that are about: stored, cached, and on their way to the
\* cache, in the order in which they were written.
Copies == {kb, view} \cup {watch[i] : i \in DOMAIN watch}
Behind(k, l) ==
  \/ k \in Copies /\ l = kb
  \/ k = view /\ \E i \in DOMAIN watch : l = watch[i]
  \/ \E i, j \in DOMAIN watch : i <= j /\ k = watch[i] /\ l = watch[j]

\* A version and a later one: no generation is observed before every version about has
\* it, and none before there is a condition.
Older(k, l) ==
  /\ k # NoKb /\ l # NoKb
  /\ k.gen <= l.gen /\ (k.gen = l.gen => k.files = l.files)
  /\ k.status.observed <= l.status.observed /\ l.status.observed <= k.gen
  /\ k.status.cond # "none" => l.status.cond # "none"
  /\ l.status.observed > 0 => k.status.cond # "none"
InLine == \A k, l \in Copies : Behind(k, l) => Older(k, l)

\* A status that the worker is to write, now or after some calls. Only setCondition says
\* ready, and what it says ready is embedded.
Fits(r) ==
  r.pc \in {"patch", "stat", "read"} =>
    /\ r.new.cond # "none"
    /\ kb.status.observed <= r.new.observed
    /\ \A k \in Copies : r.new.observed <= k.gen /\ (r.new.observed > 0 => k.status.cond # "none")
    /\ (r.pc = "patch" => ~r.stamped) => r.new.observed <= kb.status.observed /\ r.new.cond # "ready"
    /\ r.new.cond = "ready" /\ r.new.observed = kb.gen => \A f \in DOMAIN kb.files : Has(f, 0)

\* A knowledge base that is called ready has every file it lists embedded.
ReadyHas ==
  kb.status.cond = "ready" /\ kb.status.observed = kb.gen => \A f \in DOMAIN kb.files : Has(f, 0)

Ordered == Live => InLine /\ Fits(rec) /\ ReadyHas

\* The controller has come to the generation of a version.
Seen(k) == k.status.cond # "none" /\ k.status.observed = k.gen

\* A file that details call Succeeded is embedded with what was last asked for.
FreshD(D) == \A f \in DOMAIN D : D[f].phase = "Succeeded" => Has(f, asked[f])
AllNew == \A f \in DOMAIN kb.files : Has(f, asked[f])

\* All versions list the same files.
Same == kb.files # Nothing /\ \A k \in Copies : k.gen = kb.gen

\* Before the first edit and request. Until details are written nothing says Succeeded or
\* ready; from then on no version without details is to be written.
Early ==
  /\ Same /\ \A k \in Copies : k.update = "none"
  /\ rec.pc # "annotation" /\ \A f \in Files : asked[f] = 0
  /\ rec.pc = "sync" => Seen(view) /\ rec.new # Nothing
  /\ kb.status.details = Nothing =>
       /\ \A k \in Copies : k.status.details = Nothing
       /\ kb.status.cond # "ready" /\ rec.pc \notin {"stat", "read"}
       /\ rec.pc = "patch" => rec.new.details = Nothing /\ rec.new.cond # "ready"
       /\ rec.pc = "sync" => \A f \in DOMAIN rec.new : rec.new[f].phase # "Succeeded"
  /\ kb.status.details # Nothing => Seen(view) /\ (rec.pc = "patch" => rec.new.details # Nothing)

\* What was asked for is under way: nothing that is known of the files is older than it.
FreshR(r) ==
  /\ r.pc = "sync" => FreshD(r.new)
  /\ r.pc \in {"patch", "stat"} => FreshD(r.new.details)
  /\ r.pc = "read" => \A f \in DOMAIN r.new.details :
                        f # r.file /\ r.new.details[f].phase = "Succeeded" => Has(f, asked[f])
  /\ r.pc = "patch" => (r.new.cond = "ready" => AllNew)
Fresh ==
  /\ Same /\ \A k \in Copies : FreshD(k.status.details)
  /\ kb.status.cond = "ready" => AllNew
  /\ FreshR(rec)

\* The annotation is still there, and with the details written off everything is forgotten.
\* The annotation goes only when the cache shows both.
Forgot(k) == k.update = "redo" /\ k.status.details = Nothing
Later(k, l) == (k.update = "redo" => l.update = "redo") /\ (Forgot(k) => Forgot(l))
WaitR(r) ==
  /\ r.pc = "annotation" => Forgot(view)
  /\ r.pc = "sync" => r.new # Nothing /\ ~Forgot(kb)
  /\ r.pc \in {"stat", "read"} => ~Forgot(kb)
  /\ r.pc = "patch" => IF r.new.details = Nothing
                       THEN view.update = "redo" /\ r.stamped /\ r.new.cond # "ready" /\ Seen(view)
                       ELSE ~Forgot(kb)
Waiting ==
  /\ Same /\ kb.update = "redo"
  /\ \A k, l \in Copies : Behind(k, l) => Later(k, l)
  /\ \A k \in Copies : k.status.details = Nothing => Seen(view)
  /\ Forgot(kb) => kb.status.cond # "ready" /\ view.update = "redo"
  /\ WaitR(rec)

NoAsk == \A f \in Files : asked[f] = 0
Answered ==
  Live => /\ asked \in [Files -> Nat] /\ \A f \in Files, v \in Versions : asked[f] <= oss[f][v]
          /\ used.updates + used.edits = 0 => Early
          /\ NoAsk \/ Fresh \/ Waiting

\* A request finds the controller at rest and the cache in step, with details to forget and
\* no other request before it, or it is the first and no edit came before.
Quiet ==
  /\ view = kb /\ watch = <<>> /\ rec = Idle
  /\ kb.update = "none" /\ kb.status.details # Nothing
Considerate == (\E how \in Updates : RequestUpdate(how)) => Quiet \/ used.updates + used.edits = 0

-----------------------------------------------------------------------------
(* Versions move along *)

LEMMA MoreHas ==
  ASSUME coll \subseteq coll', NEW f, NEW a, Has(f, a)
  PROVE  Has(f, a)'
BY DEF Has

LEMMA CopyIs ==
  ASSUME Live, InLine, IInv, NEW k \in Copies
  PROVE  /\ k \in Kbs /\ k.status \in Status /\ k.gen \in Nat /\ k.status.observed \in Nat
         /\ k.status.details \in Details /\ Behind(k, kb) /\ kb \in Copies
<1>1. Behind(k, kb) /\ kb \in Copies
  BY DEF Behind, Copies
<1>2. k # NoKb
  BY <1>1 DEF InLine, Older
<1>3. k \in Kbs \cup {NoKb}
  <2>1. \A i \in DOMAIN watch : watch[i] \in Kbs \cup {NoKb}
    BY ElementOfSeq, LenProperties DEF IInv, Types
  <2> QED
    BY <2>1 DEF IInv, Types, Copies
<1> QED
  BY <1>1, <1>2, <1>3 DEF Kbs, Status

\* The cache is behind every version about.
LEMMA ViewIsOlder ==
  ASSUME Live, InLine, IInv, NEW k \in Copies
  PROVE  /\ Older(view, k) /\ view \in Copies /\ view # NoKb
<1>1. view \in Copies /\ Behind(view, kb)
  BY DEF Copies, Behind
<1>2. Older(view, kb) /\ kb \in Copies
  BY <1>1 DEF InLine, Copies
<1>3. CASE k = kb
  BY <1>1, <1>2, <1>3 DEF Older
<1>4. CASE k = view
  <2>1. /\ view.status.observed \in Nat /\ view.gen \in Nat /\ kb.status.observed \in Nat
        /\ view.status.observed <= kb.status.observed /\ kb.status.observed <= view.gen
    BY <1>1, <1>2, CopyIs DEF Older
  <2>2. view.status.observed > 0 => kb.status.observed > 0
    BY <2>1
  <2>3. view.status.observed <= view.gen
    BY <2>1
  <2> QED
    BY <1>1, <1>2, <1>4, <2>1, <2>2, <2>3 DEF Older
<1>5. CASE \E i \in DOMAIN watch : k = watch[i]
  <2>1. Behind(view, k)
    BY <1>5 DEF Behind
  <2> QED
    BY <1>1, <1>2, <2>1 DEF InLine, Older
<1> QED
  BY <1>3, <1>4, <1>5 DEF Copies

\* A version that is written comes after all others.
LEMMA Written ==
  ASSUME IInv, NEW k, Store(k), view' = view
  PROVE  /\ kb' = k /\ Copies' \subseteq Copies \cup {k}
         /\ \A m, l : Behind(m, l)' => Behind(m, l) \/ (l = k /\ m \in Copies \cup {k})
<1>1. kb' = k /\ (watch' = watch \/ watch' = Append(watch, k))
  BY DEF Store
<1>2. \A i \in DOMAIN watch' : \/ i \in DOMAIN watch /\ watch'[i] = watch[i]
                               \/ watch'[i] = k /\ i \notin DOMAIN watch /\ \A j \in DOMAIN watch' : i <= j => watch'[j] = k
  <2>1. watch \in Seq(Kbs \cup {NoKb})
    BY DEF IInv, Types
  <2>2. CASE watch' = Append(watch, k)
    <3>1. /\ DOMAIN watch = 1..Len(watch) /\ Len(watch) \in Nat /\ DOMAIN watch' = 1..(Len(watch) + 1)
          /\ watch'[Len(watch) + 1] = k /\ \A i \in 1..Len(watch) : watch'[i] = watch[i]
      BY <2>1, <2>2, LenProperties, AppendProperties
    <3>2. \A i \in DOMAIN watch' : i \in DOMAIN watch \/ i = Len(watch) + 1
      BY <3>1
    <3>3. \A j \in DOMAIN watch' : Len(watch) + 1 <= j => j = Len(watch) + 1
      BY <3>1
    <3>4. Len(watch) + 1 \notin DOMAIN watch
      BY <3>1
    <3> QED
      BY <3>1, <3>2, <3>3, <3>4
  <2> QED
    BY <1>1, <2>2
<1>3. Copies' \subseteq Copies \cup {k}
  BY <1>1, <1>2 DEF Copies
<1>4. ASSUME NEW m, NEW l, Behind(m, l)'
      PROVE  Behind(m, l) \/ (l = k /\ m \in Copies \cup {k})
  <2>1. CASE m \in Copies' /\ l = kb'
    BY <1>1, <1>3, <2>1
  <2>2. CASE m = view' /\ \E i \in DOMAIN watch' : l = watch'[i]
    BY <1>2, <2>2 DEF Behind, Copies
  <2>3. CASE \E i, j \in DOMAIN watch' : i <= j /\ m = watch'[i] /\ l = watch'[j]
    <3>1. PICK i \in DOMAIN watch', j \in DOMAIN watch' : i <= j /\ m = watch'[i] /\ l = watch'[j]
      BY <2>3
    <3>2. CASE l = k
      <4>1. m \in Copies'
        BY <3>1 DEF Copies
      <4> QED
        BY <1>3, <3>2, <4>1
    <3>3. CASE l # k
      <4>1. j \in DOMAIN watch /\ watch'[j] = watch[j]
        BY <1>2, <3>1, <3>3
      <4>2. i \in DOMAIN watch /\ watch'[i] = watch[i]
        BY <1>2, <3>1, <3>3
      <4> QED
        BY <3>1, <4>1, <4>2 DEF Behind
    <3> QED
      BY <3>2, <3>3
  <2> QED
    BY <1>4, <2>1, <2>2, <2>3 DEF Behind
<1> QED
  BY <1>1, <1>3, <1>4

\* A version that the cache receives, or reads anew, is not new.
LEMMA Moved ==
  ASSUME IInv, kb' = kb,
         \/ UNCHANGED <<view, watch>>
         \/ Deliver
         \/ watch' = <<>> /\ view' \in {view, kb}
  PROVE  /\ Copies' \subseteq Copies /\ \A m, l : Behind(m, l)' => Behind(m, l)
         /\ view' = view \/ Behind(view, view')
<1>1. CASE UNCHANGED <<view, watch>>
  BY <1>1 DEF Copies, Behind
<1>2. CASE watch' = <<>> /\ view' \in {view, kb}
  <2>1. DOMAIN watch' = {}
    BY <1>2
  <2> QED
    BY <1>2, <2>1 DEF Copies, Behind
<1>3. CASE Deliver
  <2>1. /\ view' = watch[1] /\ 1 \in DOMAIN watch
        /\ \A i \in DOMAIN watch' : i \in Nat /\ i + 1 \in DOMAIN watch /\ watch'[i] = watch[i + 1]
    <3>1. /\ watch \in Seq(Kbs \cup {NoKb}) /\ watch # <<>> /\ view' = Head(watch) /\ watch' = Tail(watch)
      BY <1>3 DEF Deliver, IInv, Types
    <3>2. Len(watch) \in Nat /\ Len(watch) # 0 /\ DOMAIN watch = 1..Len(watch)
      BY <3>1, EmptySeq, LenProperties
    <3>3. /\ Tail(watch) \in Seq(Kbs \cup {NoKb}) /\ Head(watch) = watch[1]
          /\ Len(Tail(watch)) = Len(watch) - 1
          /\ \A i \in 1..Len(Tail(watch)) : Tail(watch)[i] = watch[i + 1]
      BY <3>1, HeadTailProperties
    <3>4. DOMAIN Tail(watch) = 1..(Len(watch) - 1)
      BY <3>3, LenProperties
    <3>5. view' = watch[1] /\ 1 \in DOMAIN watch
      <4>1. 1 \in 1..Len(watch)
        BY <3>2
      <4>2. view' = watch[1]
        BY <3>1, <3>3
      <4> QED
        BY <3>2, <4>1, <4>2
    <3>6. ASSUME NEW i \in DOMAIN watch'
          PROVE  i \in Nat /\ i + 1 \in DOMAIN watch /\ watch'[i] = watch[i + 1]
      <4>1. i \in 1..(Len(watch) - 1) /\ i \in 1..Len(Tail(watch))
        BY <3>1, <3>3, <3>4
      <4>2. i \in Nat /\ i + 1 \in DOMAIN watch
        BY <3>2, <4>1
      <4> QED
        BY <3>1, <3>3, <4>1, <4>2
    <3> QED
      BY <3>5, <3>6
  <2>2. Copies' \subseteq Copies
    BY <2>1 DEF Copies
  <2>3. ASSUME NEW m, NEW l, Behind(m, l)'
        PROVE  Behind(m, l)
    <3>1. CASE m \in Copies' /\ l = kb'
      BY <2>2, <3>1 DEF Behind
    <3>2. CASE m = view' /\ \E i \in DOMAIN watch' : l = watch'[i]
      <4>1. PICK i \in DOMAIN watch' : l = watch'[i]
        BY <3>2
      <4>2. 1 <= i + 1 /\ i + 1 \in DOMAIN watch /\ l = watch[i + 1]
        BY <2>1, <4>1
      <4> QED
        BY <2>1, <3>2, <4>2 DEF Behind
    <3>3. CASE \E i, j \in DOMAIN watch' : i <= j /\ m = watch'[i] /\ l = watch'[j]
      <4>1. PICK i \in DOMAIN watch', j \in DOMAIN watch' : i <= j /\ m = watch'[i] /\ l = watch'[j]
        BY <3>3
      <4>2. /\ i + 1 <= j + 1 /\ i + 1 \in DOMAIN watch /\ j + 1 \in DOMAIN watch
            /\ m = watch[i + 1] /\ l = watch[j + 1]
        BY <2>1, <4>1
      <4> QED
        BY <4>2 DEF Behind
    <3> QED
      BY <2>3, <3>1, <3>2, <3>3 DEF Behind
  <2>4. Behind(view, view')
    BY <2>1 DEF Behind
  <2> QED
    BY <2>2, <2>3, <2>4
<1> QED
  BY <1>1, <1>2, <1>3

-----------------------------------------------------------------------------
(* What reconcile plans *)

\* A generation that is new to the controller: the condition alone is written.
PlansCondition(r) ==
  /\ r.pc = "patch" /\ r.stamped /\ ~Seen(view)
  /\ r.new.cond \in {"pending", "init"} /\ r.new.details = view.status.details
  /\ IF view.status.cond = "none" THEN r.new.observed = view.status.observed ELSE r.new.observed = view.gen

\* The annotation: the details go.
PlansForget(r) ==
  /\ r.pc = "patch" /\ r.stamped /\ Seen(view) /\ view.update = "redo"
  /\ r.new.cond = "init" /\ r.new.details = Nothing /\ r.new.observed = view.status.observed

\* The files are dealt with, one after the other; ready is written after the last.
PlansFiles(r) ==
  /\ r.pc \in {"patch", "stat"} /\ Seen(view) /\ view.update = "none"
  /\ r.new.observed = view.status.observed /\ r.new.cond # "none"
  /\ DOMAIN r.new.details = DOMAIN view.files /\ DOMAIN view.status.details = DOMAIN view.files
  /\ \A f \in DOMAIN view.files :
       r.new.details[f].phase = "Succeeded" => view.status.details[f].phase = "Succeeded"
  /\ (r.pc = "patch" => ~r.stamped) => r.new.cond # "ready"
  /\ r.new.cond = "ready" => \A f \in DOMAIN view.files : view.status.details[f].phase = "Succeeded"

Planned(r) ==
  /\ r.pc \in {"idle", "finalize", "unfinalize", "annotation", "sync", "patch", "stat"}
  /\ r.pc = "annotation" => Seen(view) /\ Forgot(view)
  /\ r.pc = "sync" => /\ Seen(view) /\ view.update = "none"
                      /\ r.new = Sync(view.files, view.status.details)
  /\ r.pc \in {"patch", "stat"} => PlansCondition(r) \/ PlansForget(r) \/ PlansFiles(r)

LEMMA ConditionSet ==
  ASSUME NEW s \in Status, NEW cond \in Conds, SetCondition(s, cond)
  PROVE  /\ rec'.pc = "patch" /\ rec'.stamped /\ rec'.new.cond = cond
         /\ rec'.new.details = s.details /\ rec'.new.observed = s.observed
<1>1. rec' = Patch([s EXCEPT !.cond = cond], TRUE, FALSE)
  BY DEF SetCondition, Take
<1> QED
  BY <1>1 DEF Patch, Status

LEMMA SyncedFiles ==
  ASSUME InSync
  PROVE  DOMAIN view.status.details = DOMAIN view.files /\ Seen(view) /\ view.update = "none"
<1>1. view.status.details = Sync(view.files, view.status.details) /\ NotUpdated
  BY DEF InSync
<1>2. DOMAIN Sync(view.files, view.status.details) = DOMAIN view.files
  BY DEF Sync
<1> QED
  BY <1>1, <1>2 DEF NotUpdated, Observed, Seen

LEMMA PlannedBefore ==
  ASSUME IInv, Calm,
         \/ ReconcileGone \/ ReconcileDelete \/ ReconcileFinalizer \/ ReconcilePending \/ ReconcileGeneration
         \/ ReconcileRedo \/ ReconcileRetryFailed \/ ReconcileUpdated \/ ReconcileSync \/ ReconcileReady
  PROVE  Planned(rec')
<1>1. CASE ReconcileGone \/ ReconcileReady
  <2>1. rec'.pc = "idle"
    BY <1>1 DEF ReconcileGone, ReconcileReady, Take, Idle
  <2> QED
    BY <2>1 DEF Planned
<1>2. CASE ReconcileDelete \/ ReconcileFinalizer
  <2>1. rec'.pc \in {"finalize", "unfinalize"}
    BY <1>2 DEF ReconcileDelete, ReconcileFinalizer, Take
  <2> QED
    BY <2>1 DEF Planned
<1>3. CASE ReconcilePending
  <2>1. view.status \in Status /\ view.status.cond = "none"
    BY <1>3, ViewType DEF ReconcilePending, Finalized, Exists
  <2>2. /\ rec'.pc = "patch" /\ rec'.stamped /\ rec'.new.cond = "pending"
        /\ rec'.new.details = view.status.details /\ rec'.new.observed = view.status.observed
    BY <1>3, <2>1, ConditionSet DEF ReconcilePending, Conds
  <2> QED
    BY <2>1, <2>2 DEF Planned, PlansCondition, Seen
<1>4. CASE ReconcileGeneration
  <2>1. view.status \in Status /\ view.gen \in Nat /\ view.status.cond # "none" /\ view.status.observed # view.gen
    BY <1>4, ViewType DEF ReconcileGeneration, Finalized, Exists, Kbs
  <2>2. PICK s : s = [view.status EXCEPT !.observed = view.gen]
    OBVIOUS
  <2>3. s \in Status /\ s.observed = view.gen /\ s.details = view.status.details
    BY <2>1, <2>2 DEF Status
  <2>4. /\ rec'.pc = "patch" /\ rec'.stamped /\ rec'.new.cond = "init"
        /\ rec'.new.details = s.details /\ rec'.new.observed = s.observed
    BY <1>4, <2>2, <2>3, ConditionSet DEF ReconcileGeneration, Conds
  <2> QED
    BY <2>1, <2>3, <2>4 DEF Planned, PlansCondition, Seen
<1>5. CASE ReconcileRedo
  <2>1. view.status \in Status /\ view.update = "redo" /\ Seen(view)
    BY <1>5, ViewType DEF ReconcileRedo, Observed, Finalized, Exists, Seen
  <2>2. PICK s : s = [view.status EXCEPT !.details = Nothing]
    OBVIOUS
  <2>3. s \in Status /\ s.observed = view.status.observed /\ s.details = Nothing
    BY <2>1, <2>2, NoDetails DEF Status
  <2>4. /\ rec'.pc = "patch" /\ rec'.stamped /\ rec'.new.cond = "init"
        /\ rec'.new.details = s.details /\ rec'.new.observed = s.observed
    BY <1>5, <2>2, <2>3, ConditionSet DEF ReconcileRedo, Conds
  <2> QED
    BY <2>1, <2>3, <2>4 DEF Planned, PlansForget
<1>6. CASE ReconcileRetryFailed \/ ReconcileUpdated
  <2>1. Observed /\ view # NoKb
    BY <1>6 DEF ReconcileRetryFailed, ReconcileUpdated, UpdateDone, Observed, Finalized, Exists
  <2>2. view.update # "for-failed"
    BY <2>1, ViewType DEF Kbs, Calm
  <2>3. ReconcileUpdated /\ Seen(view) /\ Forgot(view)
    BY <1>6, <2>1, <2>2 DEF ReconcileRetryFailed, ReconcileUpdated, UpdateDone, Observed, Seen, Forgot
  <2>4. rec'.pc = "annotation"
    BY <2>3 DEF ReconcileUpdated, Take
  <2> QED
    BY <2>3, <2>4 DEF Planned
<1>7. CASE ReconcileSync
  <2>1. Seen(view) /\ view.update = "none"
    BY <1>7 DEF ReconcileSync, NotUpdated, Observed, Seen
  <2>2. rec'.pc = "sync" /\ rec'.new = Sync(view.files, view.status.details)
    BY <1>7 DEF ReconcileSync, Take
  <2> QED
    BY <2>1, <2>2 DEF Planned
<1> QED
  BY <1>1, <1>2, <1>3, <1>4, <1>5, <1>6, <1>7

LEMMA PlannedFiles ==
  ASSUME IInv, ReconcileDeps \/ ReconcileStart \/ ReconcileFile \/ ReconcileEnd
  PROVE  Planned(rec')
<1>1. InSync /\ view # NoKb
  BY DEF ReconcileDeps, ReconcileStart, ReconcileFile, ReconcileEnd, Embeds, Works, InSync, NotUpdated, Observed,
         Finalized, Exists
<1>2. /\ view.status \in Status /\ view.status.details \in [DOMAIN view.status.details -> Detail]
      /\ DOMAIN view.status.details = DOMAIN view.files /\ Seen(view) /\ view.update = "none"
  BY <1>1, ViewType, DetailsType, SyncedFiles
<1>3. view.status.cond # "none"
  BY <1>2 DEF Seen
<1>4. CASE ReconcileDeps
  <2>1. PICK c \in {"pending", "error"} : SetCondition(view.status, c)
    BY <1>4 DEF ReconcileDeps
  <2>2. /\ rec'.pc = "patch" /\ rec'.stamped /\ rec'.new.cond = c
        /\ rec'.new.details = view.status.details /\ rec'.new.observed = view.status.observed
    BY <1>2, <2>1, ConditionSet DEF Conds
  <2>3. rec'.new.cond # "ready" /\ rec'.new.cond # "none"
    BY <2>2
  <2>4. PlansFiles(rec')
    BY <1>2, <2>2, <2>3 DEF PlansFiles
  <2> QED
    BY <2>2, <2>4 DEF Planned
<1>5. CASE ReconcileStart
  <2>1. PICK f \in DOMAIN view.status.details : f = Current
    BY <1>1, <1>5, CurrentIs DEF ReconcileStart
  <2>2. PICK s : s = [view.status EXCEPT !.details[f].phase = "Processing"]
    OBVIOUS
  <2>3. /\ DOMAIN s.details = DOMAIN view.status.details /\ s.details[f].phase = "Processing"
        /\ \A g \in DOMAIN view.status.details : g # f => s.details[g] = view.status.details[g]
    BY <1>2, <2>2, PhaseSet DEF FilePhases
  <2>4. s.observed = view.status.observed /\ s.cond = view.status.cond
    BY <1>2, <2>2 DEF Status
  <2>5. rec' = Patch(s, FALSE, FALSE) /\ s.cond # "ready"
    BY <1>5, <2>1, <2>2, <2>4 DEF ReconcileStart, Take, Embeds
  <2>6. rec'.pc = "patch" /\ rec'.new = s /\ ~rec'.stamped
    BY <2>5 DEF Patch
  <2>7. PlansFiles(rec')
    BY <1>2, <1>3, <2>3, <2>4, <2>5, <2>6 DEF PlansFiles
  <2> QED
    BY <2>6, <2>7 DEF Planned
<1>6. CASE ReconcileFile
  <2>1. rec'.pc = "stat" /\ rec'.new = view.status /\ view.status.cond # "ready"
    BY <1>6 DEF ReconcileFile, Take, Embeds
  <2>2. PlansFiles(rec')
    BY <1>2, <1>3, <2>1 DEF PlansFiles
  <2> QED
    BY <2>1, <2>2 DEF Planned
<1>7. CASE ReconcileEnd
  <2>1. \A f \in DOMAIN view.status.details : view.status.details[f].phase \in {"Succeeded", "Failed"}
    <3>1. \A f \in DOMAIN view.status.details : view.status.details[f].phase \in FilePhases
      BY <1>2 DEF Detail
    <3> QED
      BY <1>7, <3>1 DEF ReconcileEnd, ToDo, InPhase, FilePhases
  <2>2. CASE AllEmbedded
    <3>1. SetCondition(view.status, "ready")
      BY <1>7, <2>2 DEF ReconcileEnd
    <3>2. /\ rec'.pc = "patch" /\ rec'.stamped /\ rec'.new.cond = "ready"
          /\ rec'.new.details = view.status.details /\ rec'.new.observed = view.status.observed
      BY <1>2, <3>1, ConditionSet DEF Conds
    <3>3. \A f \in DOMAIN view.status.details : view.status.details[f].phase = "Succeeded"
      BY <2>1, <2>2 DEF AllEmbedded, InPhase
    <3>4. PlansFiles(rec')
      BY <1>2, <3>2, <3>3 DEF PlansFiles
    <3> QED
      BY <3>2, <3>4 DEF Planned
  <2>3. CASE ~AllEmbedded
    <3>1. PICK s : s = [view.status EXCEPT !.cond = "error"]
      OBVIOUS
    <3>2. s.details = view.status.details /\ s.observed = view.status.observed /\ s.cond = "error"
      BY <1>2, <3>1 DEF Status
    <3>3. rec' = Patch(s, TRUE, TRUE)
      BY <1>7, <2>3, <3>1 DEF ReconcileEnd, Take
    <3>4. rec'.pc = "patch" /\ rec'.new = s /\ rec'.stamped
      BY <3>3 DEF Patch
    <3>5. PlansFiles(rec')
      BY <1>2, <3>2, <3>4 DEF PlansFiles
    <3> QED
      BY <3>4, <3>5 DEF Planned
  <2> QED
    BY <2>2, <2>3
<1> QED
  BY <1>4, <1>5, <1>6, <1>7

LEMMA ReconcilePlans ==
  ASSUME IInv, Calm, ReconcileStep
  PROVE  Planned(rec') /\ UNCHANGED <<kb, oss, coll, deps, watch, view, up, asked, used>>
<1>1. Planned(rec')
  BY PlannedBefore, PlannedFiles DEF ReconcileStep
<1>2. \E next : Take(next)
  BY DEF ReconcileStep, ReconcileGone, ReconcileDelete, ReconcileFinalizer, ReconcilePending, ReconcileGeneration,
         ReconcileRedo, ReconcileRetryFailed, ReconcileUpdated, ReconcileSync, ReconcileDeps, ReconcileReady,
         ReconcileStart, ReconcileFile, ReconcileEnd, SetCondition
<1> QED
  BY <1>1, <1>2 DEF Take, world

-----------------------------------------------------------------------------
(* What each call writes *)

\* The object keeps its generation and files.
Keeps(k) == k.gen = kb.gen /\ k.files = kb.files /\ k.deleting = kb.deleting

LEMMA FinalizerWritten ==
  ASSUME IInv, UpdateFinalizer
  PROVE  /\ rec' = Idle /\ UNCHANGED <<oss, coll, view, asked, used>>
         /\ \/ UNCHANGED <<kb, watch>>
            \/ \E k \in Kbs \cup {NoKb} :
                 /\ Store(k)
                 /\ k = NoKb \/ (k \in Kbs /\ Keeps(k) /\ k.update = kb.update /\ k.status = kb.status)
<1>1. rec' = Idle /\ UNCHANGED <<oss, coll, view, asked, used>>
  BY DEF UpdateFinalizer, Retry, world
<1>2. CASE UNCHANGED <<kb, watch>>
  BY <1>1, <1>2
<1>3. CASE kb = rec.snap
  <2>1. rec \in Updating
    BY RecIs DEF UpdateFinalizer, IInv, Types
  <2>2. kb \in Kbs
    BY <1>3, <2>1 DEF Updating
  <2>3. PICK k : Store(k) /\ (k = NoKb \/ k = [kb EXCEPT !.finalizer = TRUE])
    BY <1>3 DEF UpdateFinalizer
  <2>4. k = NoKb \/ (k \in Kbs /\ Keeps(k) /\ k.update = kb.update /\ k.status = kb.status)
    BY <2>2, <2>3 DEF Kbs, Keeps
  <2> QED
    BY <1>1, <2>3, <2>4
<1> QED
  BY <1>2, <1>3 DEF UpdateFinalizer

LEMMA StatusWritten ==
  ASSUME IInv, Live, PatchStatus
  PROVE  /\ rec' = Idle /\ UNCHANGED <<oss, coll, view, asked, used>>
         /\ \/ UNCHANGED <<kb, watch>>
            \/ \E k \in Kbs :
                 /\ Store(k) /\ Keeps(k) /\ k.update = kb.update
                 /\ k.status.observed = IF rec.new.observed = view.status.observed
                                        THEN kb.status.observed ELSE rec.new.observed
                 /\ k.status.cond = IF rec.new.cond = view.status.cond /\ ~rec.stamped
                                    THEN kb.status.cond ELSE rec.new.cond
                 /\ k.status.details = IF rec.new.details = view.status.details
                                       THEN kb.status.details ELSE rec.new.details
<1>1. rec' = Idle /\ UNCHANGED <<oss, coll, view, asked, used>>
  BY DEF PatchStatus, Retry, world
<1>2. CASE UNCHANGED <<kb, watch>>
  BY <1>1, <1>2
<1> DEFINE new == rec.new
           old == view.status
           s == [observed |-> IF new.observed = old.observed THEN kb.status.observed ELSE new.observed,
                 cond     |-> IF new.cond = old.cond /\ ~rec.stamped THEN kb.status.cond ELSE new.cond,
                 details  |-> IF new.details = old.details THEN kb.status.details ELSE new.details]
           k == [kb EXCEPT !.status = s]
<1>3. CASE Store(k)
  <2>1. kb \in Kbs /\ kb.status \in Status /\ new \in Status
    BY RecIs DEF PatchStatus, Live, IInv, Types, Kbs, Patching
  <2>2. /\ s \in Status
        /\ s.observed = IF new.observed = old.observed THEN kb.status.observed ELSE new.observed
        /\ s.cond = IF new.cond = old.cond /\ ~rec.stamped THEN kb.status.cond ELSE new.cond
        /\ s.details = IF new.details = old.details THEN kb.status.details ELSE new.details
    BY <2>1 DEF Status
  <2> HIDE DEF s
  <2>3. k \in Kbs /\ k.status = s /\ Keeps(k) /\ k.update = kb.update
    BY <2>1, <2>2 DEF Kbs, Keeps
  <2> HIDE DEF k
  <2> QED
    BY <1>1, <1>3, <2>2, <2>3
<1> QED
  BY <1>2, <1>3 DEF PatchStatus, Live

LEMMA SyncWritten ==
  ASSUME IInv, Live, PatchSync
  PROVE  /\ rec' = Idle /\ UNCHANGED <<oss, coll, view, asked, used>>
         /\ \E k \in Kbs :
              /\ Store(k) /\ Keeps(k) /\ k.update = kb.update /\ k.status.details = rec.new
              /\ k.status.observed = kb.status.observed /\ k.status.cond = kb.status.cond
<1>1. rec \in Syncing /\ kb \in Kbs /\ kb.status \in Status
  BY RecIs DEF PatchSync, Live, IInv, Types, Kbs
<1>2. PICK s : s = [kb.status EXCEPT !.details = rec.new]
  OBVIOUS
<1>3. s \in Status /\ s.details = rec.new /\ s.observed = kb.status.observed /\ s.cond = kb.status.cond
  BY <1>1, <1>2 DEF Status, Syncing
<1>4. PICK k : k = [kb EXCEPT !.status = s]
  OBVIOUS
<1>5. k \in Kbs /\ k.status = s /\ Keeps(k) /\ k.update = kb.update
  BY <1>1, <1>3, <1>4 DEF Kbs, Keeps
<1>6. [kb EXCEPT !.status.details = rec.new] = k
  BY <1>2, <1>4
<1>7. Store(k) /\ rec' = Idle /\ UNCHANGED <<oss, coll, view, asked, used>>
  BY <1>6 DEF PatchSync, Live, world
<1> QED
  BY <1>3, <1>5, <1>7

LEMMA AnnotationWritten ==
  ASSUME IInv, Live, PatchAnnotation
  PROVE  /\ rec' = Idle /\ UNCHANGED <<oss, coll, view, asked, used>>
         /\ \E k \in Kbs : Store(k) /\ Keeps(k) /\ k.update = "none" /\ k.status = kb.status
<1>1. kb \in Kbs
  BY DEF Live, IInv, Types
<1>2. PICK k : k = [kb EXCEPT !.update = "none"]
  OBVIOUS
<1>3. k \in Kbs /\ k.status = kb.status /\ Keeps(k) /\ k.update = "none"
  BY <1>1, <1>2 DEF Kbs, Keeps
<1>4. Store(k) /\ rec' = Idle /\ UNCHANGED <<oss, coll, view, asked, used>>
  BY <1>2 DEF PatchAnnotation, Live, world
<1> QED
  BY <1>3, <1>4

LEMMA EditWritten ==
  ASSUME IInv, NEW files \in Listings, EditFiles(files)
  PROVE  /\ UNCHANGED <<oss, coll, view, rec>> /\ asked' = [f \in Files |-> 0]
         /\ used' = [used EXCEPT !.edits = @ + 1] /\ kb # NoKb
         /\ \E k \in Kbs :
              /\ Store(k) /\ k.gen = kb.gen + 1 /\ k.gen > kb.gen /\ k.deleting = kb.deleting /\ k.status = kb.status
<1>1. kb \in Kbs /\ kb # NoKb
  BY DEF EditFiles, IInv, Types
<1>2. PICK k : k = [kb EXCEPT !.gen = @ + 1, !.files = files]
  OBVIOUS
<1>3. PICK g \in Nat : g = kb.gen + 1 /\ g > kb.gen
  BY <1>1 DEF Kbs
<1>4. k = [kb EXCEPT !.gen = g, !.files = files]
  BY <1>2, <1>3
<1>5. k \in Kbs /\ k.gen = g /\ k.deleting = kb.deleting /\ k.status = kb.status
  BY <1>1, <1>4 DEF Kbs
<1>6. Store(k)
  BY <1>2 DEF EditFiles
<1> QED
  BY <1>1, <1>3, <1>5, <1>6 DEF EditFiles, world

LEMMA RequestWritten ==
  ASSUME IInv, Calm, NEW how \in Updates, RequestUpdate(how)
  PROVE  /\ UNCHANGED <<oss, coll, view, rec>> /\ kb # NoKb
         /\ used' = [used EXCEPT !.updates = @ + 1]
         /\ asked' = [f \in Files |-> IF f \in DOMAIN kb.files THEN oss[f][kb.files[f]] ELSE 0]
         /\ \E k \in Kbs : Store(k) /\ Keeps(k) /\ k.update = "redo" /\ k.status = kb.status
<1>1. kb \in Kbs /\ kb # NoKb /\ how = "redo"
  BY DEF RequestUpdate, IInv, Types, Calm
<1>2. PICK k : k = [kb EXCEPT !.update = how]
  OBVIOUS
<1>3. k \in Kbs /\ k.status = kb.status /\ Keeps(k) /\ k.update = "redo"
  BY <1>1, <1>2 DEF Kbs, Keeps
<1>4. Store(k)
  BY <1>2 DEF RequestUpdate
<1> QED
  BY <1>1, <1>3, <1>4 DEF RequestUpdate, world

LEMMA DeleteWritten ==
  ASSUME IInv, Delete
  PROVE  /\ UNCHANGED <<oss, coll, view, rec, asked>> /\ used' = [used EXCEPT !.deletes = @ + 1]
         /\ \E k \in Kbs \cup {NoKb} : Store(k) /\ (k = NoKb \/ k.deleting)
<1>1. kb \in Kbs /\ kb # NoKb
  BY DEF Delete, IInv, Types
<1>2. PICK k : Store(k) /\ (k = NoKb \/ k = [kb EXCEPT !.deleting = TRUE])
  BY DEF Delete
<1>3. k = NoKb \/ (k \in Kbs /\ k.deleting)
  BY <1>1, <1>2 DEF Kbs
<1> QED
  BY <1>2, <1>3 DEF Delete, world

\* A step of the worker at a file.
LEMMA HandledFile ==
  ASSUME IInv, Calm, Live, StatFile \/ StatFails \/ HandleFile \/ HandleFails
  PROVE  /\ UNCHANGED <<kb, oss, watch, view, asked>> /\ coll \subseteq coll'
         /\ used'.updates = used.updates /\ used'.edits = used.edits
         /\ rec.pc \in {"stat", "read"} /\ rec.new \in Status /\ rec.file \in DOMAIN rec.new.details
         /\ rec'.new.observed = rec.new.observed /\ rec'.new.cond = rec.new.cond
         /\ DOMAIN rec'.new.details = DOMAIN rec.new.details
         /\ \A g \in DOMAIN rec.new.details : g # rec.file => rec'.new.details[g] = rec.new.details[g]
         /\ \/ rec.pc = "stat" /\ rec'.pc = "read" /\ rec'.file = rec.file
            \/ /\ rec'.pc = "patch" /\ ~rec'.stamped
               /\ rec'.new.details[rec.file].phase = "Succeeded" =>
                    /\ rec.pc = "read"
                    /\ <<rec.file, oss[rec.file][rec.new.details[rec.file].version]>> \in coll'
<1>1. PICK f \in DOMAIN rec.new.details : f = rec.file
  BY InHand DEF StatFile, StatFails, HandleFile, HandleFails
<1>2. /\ rec.pc \in {"stat", "read"} /\ rec \in Handling /\ rec.new \in Status /\ rec.new.details[f] \in Detail
      /\ UNCHANGED <<kb, oss, watch, view, asked>> /\ used \in Counts
  BY <1>1, InHand DEF StatFile, StatFails, HandleFile, HandleFails, world
<1>3. coll \subseteq coll' /\ used'.updates = used.updates /\ used'.edits = used.edits
  BY <1>2 DEF StatFile, StatFails, HandleFile, HandleFails, world, Added, Fault, Counts
<1>4. ASSUME NEW p \in {"Processing", "Succeeded", "Failed"}, rec' = Outcome(p)
      PROVE  /\ rec'.pc = "patch" /\ ~rec'.stamped /\ rec'.new.details[f].phase = p
             /\ rec'.new.observed = rec.new.observed /\ rec'.new.cond = rec.new.cond
             /\ DOMAIN rec'.new.details = DOMAIN rec.new.details
             /\ \A g \in DOMAIN rec.new.details : g # f => rec'.new.details[g] = rec.new.details[g]
  <2>1. PICK s : s = [rec.new EXCEPT !.details[f].phase = p]
    OBVIOUS
  <2>2. /\ s.details[f].phase = p /\ DOMAIN s.details = DOMAIN rec.new.details
        /\ \A g \in DOMAIN rec.new.details : g # f => s.details[g] = rec.new.details[g]
    BY <1>2, <2>1, PhaseSet DEF FilePhases
  <2>3. s.observed = rec.new.observed /\ s.cond = rec.new.cond
    BY <1>2, <2>1 DEF Status
  <2>4. rec' = Patch(s, FALSE, TRUE)
    BY <1>1, <1>4, <2>1 DEF Outcome
  <2> QED
    BY <2>2, <2>3, <2>4 DEF Patch
<1>5. CASE HandleFile \/ HandleFails \/ StatFails
  <2>1. PICK p \in {"Processing", "Succeeded", "Failed"} :
          rec' = Outcome(p) /\ (p = "Succeeded" => rec.pc = "read" /\ coll' = Added)
    BY <1>5 DEF StatFails, HandleFile, HandleFails
  <2> QED
    BY <1>1, <1>2, <1>3, <1>4, <2>1 DEF Added
<1>6. CASE StatFile
  <2>1. PICK etag \in ETags : etag = oss[f][rec.new.details[f].version]
    BY <1>1, <1>2, InHand
  <2>2. Changed(etag, rec.new.details[f])
    <3>1. rec.new.details[f].phase = "Processing" /\ GoodD(rec.new.details, coll)
      BY <1>1, <1>6 DEF StatFile, IInv, Embedding, GoodR
    <3>2. rec.new.details[f].sum = NoSum
      BY <3>1 DEF GoodD, GoodFile
    <3> QED
      BY <3>2 DEF Changed, ETags, NoSum
  <2>3. PICK s : s = [rec.new EXCEPT !.details[f].sum = etag]
    OBVIOUS
  <2>4. /\ DOMAIN s.details = DOMAIN rec.new.details
        /\ \A g \in DOMAIN rec.new.details : g # f => s.details[g] = rec.new.details[g]
    BY <1>2, <2>3, SumSet
  <2>5. s.observed = rec.new.observed /\ s.cond = rec.new.cond
    BY <1>2, <2>3 DEF Status
  <2>6. rec' = [rec EXCEPT !.pc = "read", !.new = s] /\ rec.pc = "stat"
    BY <1>1, <1>6, <2>1, <2>2, <2>3 DEF StatFile
  <2>7. rec'.pc = "read" /\ rec'.new = s /\ rec'.file = rec.file
    BY <1>2, <2>6 DEF Handling
  <2> QED
    BY <1>1, <1>2, <1>3, <2>4, <2>5, <2>6, <2>7
<1> QED
  BY <1>5, <1>6

\* The steps that write nothing and leave the worker at rest or at what it does.
LEMMA OtherSteps ==
  ASSUME IInv, Calm, Live,
         \/ CallFails \/ RemoveCollection \/ Deliver \/ \E f \in Files, v \in Versions : Upload(f, v)
         \/ \E s \in {"ready", "notReady", "missing"} : DepsChange(s)
         \/ Crash \/ Restart
  PROVE  /\ UNCHANGED <<kb, coll, asked>> /\ rec' \in {rec, Idle}
         /\ used'.updates = used.updates /\ used'.edits = used.edits
         /\ \/ UNCHANGED <<view, watch>>
            \/ Deliver
            \/ watch' = <<>> /\ view' \in {view, kb}
         /\ rec' = Idle \/ view' = view \/ Deliver
         /\ \A f \in Files, v \in Versions : oss[f][v] <= oss'[f][v]
<1>1. used \in Counts /\ (~up => rec = Idle /\ watch = <<>>) /\ ~removing
  BY DEF IInv, Types, Embedding
<1>2. used'.updates = used.updates /\ used'.edits = used.edits
  BY <1>1 DEF CallFails, RemoveCollection, Deliver, Upload, DepsChange, Crash, Restart, Fault, Counts
<1>3. /\ UNCHANGED <<kb, coll, asked>> /\ rec' \in {rec, Idle}
      /\ UNCHANGED <<view, watch>> \/ Deliver \/ (watch' = <<>> /\ view' \in {view, kb})
      /\ rec' = Idle \/ view' = view \/ Deliver
  BY <1>1 DEF CallFails, Retry, RemoveCollection, Deliver, Upload, DepsChange, Crash, Restart, world
<1>4. \A f \in Files, v \in Versions : oss[f][v] \in Nat
  BY DEF IInv, Types, ETags
<1>5. CASE oss' = oss
  BY <1>2, <1>3, <1>4, <1>5
<1>6. CASE \E f \in Files, v \in Versions : Upload(f, v)
  <2>1. PICK g \in Files, w \in Versions : Upload(g, w)
    BY <1>6
  <2>2. oss[g][w] <= used.uploads + 1 /\ used.uploads \in Nat
    BY <1>1 DEF IInv, Embedding, Counts
  <2>3. oss' = [oss EXCEPT ![g][w] = used.uploads + 2]
    BY <2>1 DEF Upload
  <2>4. ASSUME NEW f \in Files, NEW v \in Versions
        PROVE  oss[f][v] <= oss'[f][v]
    <3>1. oss'[f][v] = IF f = g /\ v = w THEN used.uploads + 2 ELSE oss[f][v]
      BY <2>3 DEF IInv, Types
    <3> QED
      BY <1>4, <2>2, <3>1
  <2> QED
    BY <1>2, <1>3, <2>4
<1> QED
  BY <1>5, <1>6 DEF CallFails, RemoveCollection, Deliver, DepsChange, Crash, Restart, world

-----------------------------------------------------------------------------
(* Generations and conditions stay in line *)

LEMMA SucceededHas ==
  ASSUME NEW D, GoodD(D, coll), NEW f \in DOMAIN D, D[f].phase = "Succeeded"
  PROVE  Has(f, 0)
BY DEF GoodD, GoodFile, Has, ETags

LEMMA PlannedFits ==
  ASSUME IInv, Calm, Live, InLine, NEW r, Planned(r)
  PROVE  Fits(r)
<1>1. CASE r.pc \in {"patch", "stat", "read"}
  <2>1. r.pc \in {"patch", "stat"} /\ (PlansCondition(r) \/ PlansForget(r) \/ PlansFiles(r))
    BY <1>1 DEF Planned
  <2>2. /\ \A k \in Copies : Older(view, k) /\ k.gen \in Nat /\ k.status.observed \in Nat
        /\ kb \in Copies /\ view \in Copies
    BY ViewIsOlder, CopyIs DEF Copies
  <2>3. view.status.observed <= view.gen /\ kb.status.observed <= view.gen /\ view.status.observed <= kb.status.observed
    BY <2>2 DEF Older
  <2>4. r.new.observed \in Nat /\ r.new.observed <= view.gen /\ kb.status.observed <= r.new.observed
    BY <2>1, <2>2, <2>3 DEF PlansCondition, PlansForget, PlansFiles, Seen, Older
  <2>5. r.new.observed > 0 => view.status.cond # "none"
    BY <2>1, <2>2 DEF PlansCondition, PlansForget, PlansFiles, Seen, Older
  <2>6. ASSUME NEW k \in Copies
        PROVE  r.new.observed <= k.gen /\ (r.new.observed > 0 => k.status.cond # "none")
    BY <2>2, <2>4, <2>5 DEF Older
  <2>7. r.new.cond # "none"
    BY <2>1 DEF PlansCondition, PlansForget, PlansFiles
  <2>8. ASSUME r.pc = "patch" => ~r.stamped
        PROVE  r.new.observed <= kb.status.observed /\ r.new.cond # "ready"
    BY <2>1, <2>3, <2>8 DEF PlansCondition, PlansForget, PlansFiles
  <2>9. ASSUME r.new.cond = "ready", r.new.observed = kb.gen
        PROVE  \A f \in DOMAIN kb.files : Has(f, 0)
    <3>1. PlansFiles(r)
      BY <2>1, <2>9 DEF PlansCondition, PlansForget
    <3>2. view.gen = kb.gen
      BY <2>9, <3>1 DEF PlansFiles, Seen
    <3>3. view.files = kb.files
      BY <2>2, <3>2 DEF Older
    <3>4. GoodD(view.status.details, coll)
      BY ViewIsOlder, ViewType, <2>2
    <3> QED
      BY <2>9, <3>1, <3>3, <3>4, SucceededHas DEF PlansFiles
  <2> QED
    BY <2>4, <2>6, <2>7, <2>8, <2>9 DEF Fits
<1> QED
  BY <1>1 DEF Fits

\* Nothing is written, and what is embedded stays.
LEMMA OrderedStays ==
  ASSUME Ordered, kb' = kb, Copies' \subseteq Copies, \A k, l : Behind(k, l)' => Behind(k, l),
         Live => coll \subseteq coll' /\ Fits(rec')
  PROVE  Ordered'
<1> SUFFICES ASSUME Live
             PROVE  Ordered'
  BY DEF Ordered, Live
<1>1. \A f : Has(f, 0) => Has(f, 0)'
  BY DEF Has
<1>2. InLine'
  BY DEF Ordered, InLine
<1>3. Fits(rec)'
  BY <1>1 DEF Fits
<1>4. ReadyHas'
  BY <1>1 DEF Ordered, ReadyHas
<1> QED
  BY <1>2, <1>3, <1>4 DEF Ordered

LEMMA OrderedWrites ==
  ASSUME IInv, Ordered, NEW k \in Kbs \cup {NoKb}, Store(k), UNCHANGED <<view, coll>>,
         k # NoKb /\ ~k.deleting =>
           /\ Live /\ k \in Kbs
           /\ kb.gen <= k.gen /\ (k.gen = kb.gen => k.files = kb.files)
           /\ kb.status.observed <= k.status.observed
           /\ \A l \in Copies : k.status.observed <= l.gen /\ (k.status.observed > 0 => l.status.cond # "none")
           /\ k.status.observed > 0 \/ kb.status.cond # "none" => k.status.cond # "none"
           /\ k.status.cond = "ready" /\ k.status.observed = k.gen => \A f \in DOMAIN k.files : Has(f, 0)
           /\ rec' = Idle \/ (rec' = rec /\ k.status = kb.status)
  PROVE  Ordered'
<1>1. /\ kb' = k /\ Copies' \subseteq Copies \cup {k}
      /\ \A m, l : Behind(m, l)' => Behind(m, l) \/ (l = k /\ m \in Copies \cup {k})
  BY Written
<1> SUFFICES ASSUME k # NoKb, ~k.deleting
             PROVE  Ordered'
  BY <1>1 DEF Ordered, Live
<1>2. Live /\ InLine /\ Fits(rec) /\ ReadyHas /\ k \in Kbs /\ k.gen \in Nat /\ k.status.observed \in Nat
  BY DEF Ordered, Kbs, Status
<1>3. /\ kb \in Copies
      /\ \A l \in Copies : Older(l, kb) /\ l # NoKb /\ l.gen \in Nat /\ l.status.observed \in Nat
  <2>1. kb \in Copies
    BY DEF Copies
  <2>2. ASSUME NEW l \in Copies
        PROVE  Behind(l, kb) /\ l.gen \in Nat /\ l.status.observed \in Nat
    BY <1>2, CopyIs
  <2> QED
    BY <1>2, <2>1, <2>2 DEF InLine, Older
<1>4. ASSUME NEW m \in Copies
      PROVE  Older(m, k)
  BY <1>2, <1>3 DEF Older
<1>5. Older(k, k)
  BY <1>2, <1>3 DEF Older
<1>6. InLine'
  <2>1. ASSUME NEW m \in Copies', NEW l \in Copies', Behind(m, l)'
        PROVE  Older(m, l)
    <3>1. m \in Copies \cup {k} /\ (Behind(m, l) \/ l = k)
      BY <1>1, <2>1
    <3>2. CASE l = k
      BY <1>4, <1>5, <3>1, <3>2
    <3>3. CASE l # k /\ Behind(m, l)
      <4>1. m \in Copies /\ l \in Copies
        BY <1>1, <2>1, <3>3 DEF Behind, Copies
      <4> QED
        BY <1>2, <3>3, <4>1 DEF InLine
    <3> QED
      BY <3>1, <3>2, <3>3
  <2> QED
    BY <2>1 DEF InLine
<1>7. \A f : Has(f, 0) <=> Has(f, 0)'
  BY DEF Has
<1>8. ReadyHas'
  BY <1>1, <1>7 DEF ReadyHas
<1>9. Fits(rec)'
  <2>1. CASE rec' = Idle
    BY <2>1 DEF Fits, Idle
  <2>2. CASE rec' = rec /\ k.status = kb.status
    <3>1. CASE rec.pc \in {"patch", "stat", "read"}
      <4>1. rec.new.observed \in Nat
        BY <3>1, RecIs DEF IInv, Types, Patching, Handling, Status
      <4>2. /\ rec.new.cond # "none" /\ k.status.observed <= rec.new.observed
            /\ (rec.pc = "patch" => ~rec.stamped) => rec.new.observed <= k.status.observed /\ rec.new.cond # "ready"
        BY <1>2, <2>2, <3>1 DEF Fits
      <4>3. ASSUME NEW l \in Copies \cup {k}
            PROVE  rec.new.observed <= l.gen /\ (rec.new.observed > 0 => l.status.cond # "none")
        BY <1>2, <1>3, <2>2, <3>1, <4>1 DEF Fits
      <4>4. ASSUME rec.new.cond = "ready", rec.new.observed = k.gen
            PROVE  \A f \in DOMAIN k.files : Has(f, 0)
        <5>1. rec.new.observed <= kb.gen
          BY <1>2, <1>3, <3>1 DEF Fits
        <5>2. k.gen = kb.gen
          BY <1>2, <1>3, <4>1, <4>4, <5>1
        <5> QED
          BY <1>2, <3>1, <4>4, <5>2 DEF Fits
      <4> QED
        BY <1>1, <1>7, <2>2, <4>2, <4>3, <4>4 DEF Fits
    <3> QED
      BY <2>2, <3>1 DEF Fits
  <2> QED
    BY <2>1, <2>2
<1> QED
  BY <1>6, <1>8, <1>9 DEF Ordered

\* Details and the annotation come and go; so do generations.
LEMMA OrderedKeeps ==
  ASSUME IInv, Ordered, NEW k \in Kbs \cup {NoKb}, Store(k), UNCHANGED <<view, coll>>, kb # NoKb,
         k # NoKb /\ ~k.deleting =>
           /\ k \in Kbs /\ k.deleting = kb.deleting /\ k.gen \in Nat /\ (Keeps(k) \/ k.gen > kb.gen)
           /\ k.status.observed = kb.status.observed /\ k.status.cond = kb.status.cond
           /\ rec' = Idle \/ (rec' = rec /\ k.status = kb.status)
  PROVE  Ordered'
<1>1. ASSUME k # NoKb, ~k.deleting
      PROVE  /\ Live /\ k \in Kbs
             /\ kb.gen <= k.gen /\ (k.gen = kb.gen => k.files = kb.files)
             /\ kb.status.observed <= k.status.observed
             /\ \A l \in Copies : k.status.observed <= l.gen /\ (k.status.observed > 0 => l.status.cond # "none")
             /\ k.status.observed > 0 \/ kb.status.cond # "none" => k.status.cond # "none"
             /\ k.status.cond = "ready" /\ k.status.observed = k.gen => \A f \in DOMAIN k.files : Has(f, 0)
  <2>1. Live /\ InLine /\ ReadyHas
    BY <1>1 DEF Ordered, Live
  <2>2. /\ kb \in Copies /\ kb.gen \in Nat /\ kb.status.observed \in Nat
        /\ \A l \in Copies : Older(l, kb)
    BY <2>1, CopyIs DEF InLine, Copies
  <2>3. kb.status.observed <= kb.gen
    BY <2>2 DEF Older
  <2>4. kb.gen <= k.gen /\ (k.gen = kb.gen => k.files = kb.files)
    BY <1>1, <2>2 DEF Keeps
  <2>5. ASSUME k.status.cond = "ready", k.status.observed = k.gen
        PROVE  \A f \in DOMAIN k.files : Has(f, 0)
    <3>1. k.gen = kb.gen
      BY <1>1, <2>2, <2>3, <2>4, <2>5
    <3> QED
      BY <1>1, <2>1, <2>4, <2>5, <3>1 DEF ReadyHas
  <2> QED
    BY <1>1, <2>1, <2>2, <2>4, <2>5 DEF Older
<1> QED
  BY <1>1, OrderedWrites

\* What the merge of patchStatus leaves: the generation that was planned, and ready only
\* when that was planned too or was written already.
LEMMA Merged ==
  ASSUME IInv, Calm, Live, Ordered, rec.pc = "patch", NEW k \in Kbs,
         k.status.observed = IF rec.new.observed = view.status.observed
                             THEN kb.status.observed ELSE rec.new.observed,
         k.status.cond = IF rec.new.cond = view.status.cond /\ ~rec.stamped
                         THEN kb.status.cond ELSE rec.new.cond
  PROVE  /\ k.status.observed = rec.new.observed /\ rec.new.observed \in Nat
         /\ kb.status.observed <= k.status.observed /\ k.status.cond # "none"
         /\ \/ k.status.cond = rec.new.cond
            \/ k.status.cond = kb.status.cond /\ k.status.observed = kb.status.observed /\ ~rec.stamped
         /\ ~rec.stamped => k.status.observed = kb.status.observed /\ rec.new.cond # "ready"
<1>1. InLine /\ Fits(rec) /\ rec.new.observed \in Nat
  BY RecIs DEF Ordered, IInv, Types, Patching, Status
<1>2. /\ Older(view, kb) /\ view.status.observed \in Nat /\ kb.status.observed \in Nat
  BY <1>1, ViewIsOlder, CopyIs DEF Copies
<1>3. /\ kb.status.observed <= rec.new.observed /\ view.status.observed <= kb.status.observed
      /\ ~rec.stamped => rec.new.observed <= kb.status.observed /\ rec.new.cond # "ready"
      /\ rec.new.cond # "none"
  BY <1>1, <1>2 DEF Fits, Older
<1>4. k.status.observed = rec.new.observed
  BY <1>1, <1>2, <1>3
<1>5. k.status.cond # "none"
  BY <1>2, <1>3 DEF Older
<1> QED
  BY <1>1, <1>2, <1>3, <1>4, <1>5

LEMMA OrderedPatch ==
  ASSUME IInv, Calm, Live, Ordered, PatchStatus
  PROVE  Ordered'
<1>1. rec.pc = "patch" /\ rec' = Idle /\ UNCHANGED <<coll, view>>
  BY StatusWritten DEF PatchStatus
<1>2. CASE UNCHANGED <<kb, watch>>
  <2>1. Fits(rec')
    BY <1>1 DEF Fits, Idle
  <2> QED
    BY <1>1, <1>2, <2>1, Moved, OrderedStays
<1>3. CASE \E k \in Kbs :
             /\ Store(k) /\ Keeps(k)
             /\ k.status.observed = IF rec.new.observed = view.status.observed
                                    THEN kb.status.observed ELSE rec.new.observed
             /\ k.status.cond = IF rec.new.cond = view.status.cond /\ ~rec.stamped
                                THEN kb.status.cond ELSE rec.new.cond
  <2>1. PICK k \in Kbs :
             /\ Store(k) /\ Keeps(k)
             /\ k.status.observed = IF rec.new.observed = view.status.observed
                                    THEN kb.status.observed ELSE rec.new.observed
             /\ k.status.cond = IF rec.new.cond = view.status.cond /\ ~rec.stamped
                                THEN kb.status.cond ELSE rec.new.cond
    BY <1>3
  <2>2. /\ k.status.observed = rec.new.observed /\ rec.new.observed \in Nat
        /\ kb.status.observed <= k.status.observed /\ k.status.cond # "none"
        /\ \/ k.status.cond = rec.new.cond
           \/ k.status.cond = kb.status.cond /\ k.status.observed = kb.status.observed /\ ~rec.stamped
    BY <1>1, <2>1, Merged
  <2>3. InLine /\ Fits(rec) /\ ReadyHas
    BY DEF Ordered
  <2>4. kb \in Kbs /\ kb.gen \in Nat
    BY DEF IInv, Types, Live, Kbs
  <2>5. ASSUME k.status.cond = "ready", k.status.observed = k.gen
        PROVE  \A f \in DOMAIN k.files : Has(f, 0)
    <3>1. k.files = kb.files /\ k.gen = kb.gen
      BY <2>1 DEF Keeps
    <3>2. CASE k.status.cond = rec.new.cond
      BY <1>1, <2>2, <2>3, <2>5, <3>1, <3>2 DEF Fits
    <3>3. CASE k.status.cond = kb.status.cond /\ k.status.observed = kb.status.observed
      BY <2>3, <2>5, <3>1, <3>3 DEF ReadyHas
    <3> QED
      BY <2>2, <3>2, <3>3
  <2>6. /\ kb.gen <= k.gen /\ (k.gen = kb.gen => k.files = kb.files)
        /\ \A l \in Copies : k.status.observed <= l.gen /\ (k.status.observed > 0 => l.status.cond # "none")
    BY <1>1, <2>1, <2>2, <2>3, <2>4 DEF Fits, Keeps
  <2> QED
    BY <1>1, <2>1, <2>2, <2>5, <2>6, OrderedWrites
<1> QED
  BY <1>2, <1>3, StatusWritten

LEMMA OrderedReconcile ==
  ASSUME IInv, Calm, Ordered, ReconcileStep
  PROVE  Ordered'
<1>1. Planned(rec') /\ UNCHANGED <<kb, coll, watch, view>>
  BY ReconcilePlans
<1>2. Live => Fits(rec')
  BY <1>1, PlannedFits DEF Ordered
<1> QED
  BY <1>1, <1>2, Moved, OrderedStays

LEMMA OrderedCall ==
  ASSUME IInv, Calm, Live, Ordered, UpdateFinalizer \/ PatchSync \/ PatchAnnotation
  PROVE  Ordered'
<1>1. rec' = Idle /\ UNCHANGED <<coll, view>>
  BY FinalizerWritten, SyncWritten, AnnotationWritten
<1>2. CASE UNCHANGED <<kb, watch>>
  <2>1. Fits(rec')
    BY <1>1 DEF Fits, Idle
  <2> QED
    BY <1>1, <1>2, <2>1, Moved, OrderedStays
<1>3. CASE \E k \in Kbs \cup {NoKb} :
             /\ Store(k)
             /\ k # NoKb => /\ k \in Kbs /\ Keeps(k)
                            /\ k.status.observed = kb.status.observed /\ k.status.cond = kb.status.cond
  <2>1. PICK k \in Kbs \cup {NoKb} :
             /\ Store(k)
             /\ k # NoKb => /\ k \in Kbs /\ Keeps(k)
                            /\ k.status.observed = kb.status.observed /\ k.status.cond = kb.status.cond
    BY <1>3
  <2>2. k # NoKb => k.gen \in Nat /\ k.deleting = kb.deleting
    BY <2>1 DEF Kbs, Keeps
  <2>3. kb # NoKb
    BY DEF Live
  <2> QED
    BY <1>1, <2>1, <2>2, <2>3, OrderedKeeps
<1>4. \/ UNCHANGED <<kb, watch>>
      \/ \E k \in Kbs \cup {NoKb} :
           /\ Store(k)
           /\ k = NoKb \/ /\ k \in Kbs /\ Keeps(k)
                          /\ k.status.observed = kb.status.observed /\ k.status.cond = kb.status.cond
  <2>1. CASE UpdateFinalizer
    BY <2>1, FinalizerWritten
  <2>2. CASE PatchSync
    BY <2>2, SyncWritten
  <2>3. CASE PatchAnnotation
    BY <2>3, AnnotationWritten
  <2> QED
    BY <2>1, <2>2, <2>3
<1> QED
  BY <1>2, <1>3, <1>4

LEMMA OrderedUser ==
  ASSUME IInv, Calm, Live, Ordered,
         \/ \E files \in Listings : EditFiles(files)
         \/ \E how \in Updates : RequestUpdate(how)
         \/ Delete
  PROVE  Ordered'
<1>1. kb # NoKb
  BY DEF Live
<1>2. CASE \E files \in Listings : EditFiles(files)
  <2>1. PICK k \in Kbs : /\ Store(k) /\ k.gen > kb.gen /\ k.deleting = kb.deleting /\ k.status = kb.status
                         /\ UNCHANGED <<coll, view, rec>>
    BY <1>2, EditWritten
  <2>2. k.gen \in Nat
    BY DEF Kbs
  <2> QED
    BY <1>1, <2>1, <2>2, OrderedKeeps
<1>3. CASE \E how \in Updates : RequestUpdate(how)
  <2>1. PICK k \in Kbs : Store(k) /\ Keeps(k) /\ k.status = kb.status /\ UNCHANGED <<coll, view, rec>>
    BY <1>3, RequestWritten
  <2>2. k.gen \in Nat /\ k.deleting = kb.deleting
    BY <2>1 DEF Kbs, Keeps
  <2> QED
    BY <1>1, <2>1, <2>2, OrderedKeeps
<1>4. CASE Delete
  <2>1. PICK k \in Kbs \cup {NoKb} : Store(k) /\ (k = NoKb \/ k.deleting) /\ UNCHANGED <<coll, view, rec>>
    BY <1>4, DeleteWritten
  <2> QED
    BY <1>1, <2>1, OrderedKeeps
<1> QED
  BY <1>2, <1>3, <1>4

LEMMA OrderedFile ==
  ASSUME IInv, Calm, Live, Ordered, StatFile \/ StatFails \/ HandleFile \/ HandleFails
  PROVE  Ordered'
<1>1. /\ UNCHANGED <<kb, watch, view>> /\ coll \subseteq coll' /\ rec.pc \in {"stat", "read"}
      /\ rec'.new.observed = rec.new.observed /\ rec'.new.cond = rec.new.cond
      /\ rec'.pc = "read" \/ (rec'.pc = "patch" /\ ~rec'.stamped)
  BY HandledFile
<1>2. Fits(rec)
  BY DEF Ordered
<1>3. /\ rec'.new.cond # "none" /\ rec'.new.cond # "ready"
      /\ kb.status.observed <= rec'.new.observed /\ rec'.new.observed <= kb.status.observed
      /\ \A k \in Copies : rec'.new.observed <= k.gen /\ (rec'.new.observed > 0 => k.status.cond # "none")
  BY <1>1, <1>2 DEF Fits
<1>4. Fits(rec')
  BY <1>3 DEF Fits
<1> QED
  BY <1>1, <1>4, Moved, OrderedStays

LEMMA OrderedOther ==
  ASSUME IInv, Calm, Live, Ordered,
         \/ CallFails \/ RemoveCollection \/ Deliver \/ \E f \in Files, v \in Versions : Upload(f, v)
         \/ \E s \in {"ready", "notReady", "missing"} : DepsChange(s)
         \/ Crash \/ Restart
  PROVE  Ordered'
<1>1. /\ UNCHANGED <<kb, coll>> /\ rec' \in {rec, Idle}
      /\ UNCHANGED <<view, watch>> \/ Deliver \/ (watch' = <<>> /\ view' \in {view, kb})
  BY OtherSteps
<1>2. Fits(rec')
  BY <1>1 DEF Ordered, Fits, Idle
<1> QED
  BY <1>1, <1>2, Moved, OrderedStays

\* A knowledge base that is on its way out stays so.
LEMMA StaysGone ==
  ASSUME IInv, ~Live, [Next]_vars
  PROVE  ~Live'
<1>1. CASE kb = NoKb
  <2>1. kb' = kb
    <3>1. ReconcileStep => kb' = kb
      BY DEF ReconcileStep, ReconcileGone, ReconcileDelete, ReconcileFinalizer, ReconcilePending,
         ReconcileGeneration, ReconcileRedo, ReconcileRetryFailed, ReconcileUpdated, ReconcileSync, ReconcileDeps,
         ReconcileReady, ReconcileStart, ReconcileFile, ReconcileEnd, SetCondition, Take
    <3>2. UpdateFinalizer => kb' = kb
      <4>1. ASSUME UpdateFinalizer
            PROVE  kb # rec.snap
        BY <1>1, <4>1, RecIs DEF UpdateFinalizer, IInv, Types, Updating, Kbs, NoKb
      <4> QED
        BY <4>1 DEF UpdateFinalizer
    <3>3. PatchStatus \/ PatchSync \/ PatchAnnotation => kb' = kb
      BY <1>1 DEF PatchStatus, PatchSync, PatchAnnotation
    <3>4. User => kb' = kb
      BY <1>1 DEF User, Upload, EditFiles, RequestUpdate, Delete
    <3>5. \/ StatFile \/ HandleFile \/ StatFails \/ HandleFails \/ CallFails \/ RemoveCollection \/ Deliver
          \/ (\E s \in {"ready", "notReady", "missing"} : DepsChange(s)) \/ Crash \/ Restart \/ UNCHANGED vars
          => kb' = kb
      BY DEF StatFile, HandleFile, StatFails, HandleFails, CallFails, RemoveCollection, Deliver, DepsChange, Crash,
         Restart, vars
    <3> QED
      BY <3>1, <3>2, <3>3, <3>4, <3>5 DEF Next, Call
  <2> QED
    BY <1>1, <2>1 DEF Live
<1>2. CASE kb # NoKb /\ kb.deleting
  <2>1. kb \in Kbs
    BY <1>2 DEF IInv, Types
  <2>2. kb' = NoKb \/ kb'.deleting
    <3>1. ReconcileStep => kb' = kb
      BY DEF ReconcileStep, ReconcileGone, ReconcileDelete, ReconcileFinalizer, ReconcilePending,
         ReconcileGeneration, ReconcileRedo, ReconcileRetryFailed, ReconcileUpdated, ReconcileSync, ReconcileDeps,
         ReconcileReady, ReconcileStart, ReconcileFile, ReconcileEnd, SetCondition, Take
    <3>2. UpdateFinalizer => kb' = kb \/ kb' = NoKb \/ kb'.deleting
      BY <1>2, FinalizerWritten DEF Store, Keeps
    <3>3. PatchStatus \/ PatchSync \/ PatchAnnotation => kb' = kb \/ kb'.deleting
      BY <1>2, <2>1 DEF PatchStatus, PatchSync, PatchAnnotation, Store, Kbs
    <3>4. User => kb' = kb \/ kb'.deleting
      BY <1>2, <2>1 DEF User, Upload, EditFiles, RequestUpdate, Delete, Store, Kbs
    <3>5. \/ StatFile \/ HandleFile \/ StatFails \/ HandleFails \/ CallFails \/ RemoveCollection \/ Deliver
          \/ (\E s \in {"ready", "notReady", "missing"} : DepsChange(s)) \/ Crash \/ Restart \/ UNCHANGED vars
          => kb' = kb
      BY DEF StatFile, HandleFile, StatFails, HandleFails, CallFails, RemoveCollection, Deliver, DepsChange, Crash,
         Restart, vars
    <3> QED
      BY <1>2, <3>1, <3>2, <3>3, <3>4, <3>5 DEF Next, Call
  <2> QED
    BY <2>2 DEF Live
<1> QED
  BY <1>1, <1>2 DEF Live

LEMMA OrderedStep ==
  ASSUME IInv, Calm, Ordered, [Next]_vars
  PROVE  Ordered'
<1>1. CASE ~Live
  BY <1>1, StaysGone DEF Ordered
<1>2. CASE UNCHANGED vars
  <2>1. Live => Fits(rec')
    BY <1>2 DEF vars, Ordered
  <2> QED
    BY <1>2, <2>1, Moved, OrderedStays DEF vars, world
<1>3. CASE Live /\ Next
  BY <1>3, OrderedReconcile, OrderedPatch, OrderedCall, OrderedUser, OrderedFile, OrderedOther DEF Next, Call, User
<1> QED
  BY <1>1, <1>2, <1>3

\* At the start there is one version, which the controller has not come to.
LEMMA AtFirst ==
  ASSUME Init
  PROVE  /\ \A k \in Copies : k = kb
         /\ kb.gen = 1 /\ kb.files # Nothing /\ kb.files \in Listings /\ kb.update = "none" /\ kb # NoKb
         /\ kb.status = [observed |-> 0, cond |-> "none", details |-> Nothing]
         /\ rec = Idle
<1>1. PICK files \in Listings \ {Nothing} : kb = NewKb(files)
  BY DEF Init
<1>2. watch = <<>> /\ view = kb /\ rec = Idle
  BY DEF Init
<1>3. DOMAIN watch = {}
  BY <1>2
<1>4. kb # NoKb
  BY <1>1 DEF NewKb, NoKb
<1> QED
  BY <1>1, <1>2, <1>3, <1>4 DEF Copies, NewKb

LEMMA OrderedFirst ==
  ASSUME Init
  PROVE  Ordered
<1>1. Older(kb, kb)
  BY AtFirst DEF Older
<1>2. InLine
  BY <1>1, AtFirst DEF InLine
<1>3. Fits(rec)
  BY AtFirst DEF Fits, Idle
<1>4. ReadyHas
  BY AtFirst DEF ReadyHas
<1> QED
  BY <1>2, <1>3, <1>4 DEF Ordered

\* Embedding holds with Ordered.
THEOREM OrderedInvariant ==
  ASSUME Calm
  PROVE  Spec => [](IInv /\ Ordered)
<1>1. Init => IInv /\ Ordered
  BY Initially, OrderedFirst
<1>2. IInv /\ Ordered /\ [Next]_vars => (IInv /\ Ordered)'
  BY Invariance, OrderedStep
<1> QED
  BY <1>1, <1>2, PTL DEF Spec

\* A knowledge base that is called ready for what users want now has every file they list
\* in the collection, however often they edited the listing and asked for files again
\* before that, and whatever cache the controller wrote that from.
THEOREM ReadyIsEmbedded ==
  ASSUME Calm
  PROVE  Spec => []((\A f \in Files : asked[f] = 0) => UpdateEmbedded)
<1>1. IInv /\ Ordered /\ (\A f \in Files : asked[f] = 0) => UpdateEmbedded
  <2> SUFFICES ASSUME IInv, Ordered, \A f \in Files : asked[f] = 0, Reported, NEW f \in DOMAIN kb.files
               PROVE  \E etag \in ETags : etag >= asked[f] /\ <<f, etag>> \in coll
    BY DEF UpdateEmbedded
  <2>1. Has(f, 0)
    BY DEF Reported, Ordered, ReadyHas
  <2>2. f \in Files
    <3>1. kb.files \in Listings
      BY DEF Reported, Live, IInv, Types, Kbs
    <3> QED
      BY <3>1, ListingsType
  <2> QED
    BY <2>1, <2>2 DEF Has
<1> QED
  BY <1>1, OrderedInvariant, PTL

-----------------------------------------------------------------------------
(* Requests are answered *)

\* Where every version has one generation, the versions after one that is seen are seen.
LEMMA SeenOn ==
  ASSUME IInv, Live, InLine, Same, NEW k \in Copies
  PROVE  k.files = kb.files /\ view.files = kb.files /\ (Seen(view) => Seen(k))
<1>1. /\ Older(view, k) /\ view \in Copies /\ Older(k, kb) /\ Older(view, kb) /\ k.gen = kb.gen /\ view.gen = kb.gen
      /\ k.gen \in Nat /\ k.status.observed \in Nat /\ view.status.observed \in Nat
  BY ViewIsOlder, CopyIs DEF InLine, Same, Copies
<1> QED
  BY <1>1 DEF Older, Seen

LEMMA EmptyListing ==
  ASSUME NEW L, NEW D \in Details, DOMAIN D = DOMAIN L, L \in Listings, L # Nothing
  PROVE  D # Nothing
<1>1. DOMAIN L # {}
  <2>1. L \in [DOMAIN L -> Versions]
    BY ListingsType
  <2>2. ASSUME DOMAIN L = {}
        PROVE  L = Nothing
    <3>1. L = [f \in {} |-> L[f]] /\ Nothing = [f \in {} |-> 0]
      BY <2>1, <2>2 DEF Nothing
    <3> QED
      BY <3>1
  <2> QED
    BY <2>2
<1> QED
  BY <1>1, NoDetails

LEMMA FreshRMore ==
  ASSUME UNCHANGED <<kb, asked>>, coll \subseteq coll', FreshR(rec')
  PROVE  FreshR(rec)'
BY DEF FreshR, FreshD, AllNew, Has

LEMMA FreshStays ==
  ASSUME Fresh, UNCHANGED <<kb, asked>>, coll \subseteq coll', Copies' \subseteq Copies, FreshR(rec)'
  PROVE  Fresh'
<1>1. \A f, a : Has(f, a) => Has(f, a)'
  BY MoreHas
<1>2. \A k \in Copies' : FreshD(k.status.details)'
  BY <1>1 DEF Fresh, FreshD
<1> QED
  BY <1>1, <1>2 DEF Fresh, Same, AllNew

LEMMA FreshPlans ==
  ASSUME IInv, Calm, Live, InLine, Fresh, NEW r, Planned(r)
  PROVE  FreshR(r)
<1> DEFINE D == view.status.details
<1>1. FreshD(D) /\ view.files = kb.files
  BY SeenOn, ViewIsOlder DEF Fresh, Copies
<1>2. ASSUME r.pc = "sync"
      PROVE  FreshD(r.new)
  <2>1. r.new = Sync(view.files, D) /\ DOMAIN r.new = DOMAIN view.files
    BY <1>2 DEF Planned, Sync
  <2>2. view.status.details \in [DOMAIN D -> Detail]
    BY ViewType, ViewIsOlder, DetailsType DEF Copies
  <2>3. ASSUME NEW f \in DOMAIN view.files, r.new[f].phase = "Succeeded"
        PROVE  f \in DOMAIN D /\ D[f].phase = "Succeeded"
    <3>1. CASE f \notin DOMAIN D
      <4>1. r.new[f] = [phase |-> "Pending", sum |-> NoSum, version |-> view.files[f]]
        BY <2>1, <2>3, <3>1 DEF Sync
      <4> QED
        BY <2>3, <4>1
    <3>2. CASE f \in DOMAIN D /\ D[f].version # view.files[f]
      <4>1. r.new[f] = [D[f] EXCEPT !.version = view.files[f], !.phase = "Processing"] /\ D[f] \in Detail
        BY <2>1, <2>2, <3>2 DEF Sync
      <4>2. r.new[f].phase = "Processing"
        BY <4>1 DEF Detail
      <4> QED
        BY <2>3, <4>2
    <3>3. CASE f \in DOMAIN D /\ D[f].version = view.files[f]
      BY <2>1, <2>3, <3>3 DEF Sync
    <3> QED
      BY <3>1, <3>2, <3>3
  <2> QED
    BY <1>1, <2>1, <2>3 DEF FreshD
<1>3. ASSUME r.pc \in {"patch", "stat"}
      PROVE  FreshD(r.new.details) /\ (r.new.cond = "ready" => AllNew)
  <2>1. PlansCondition(r) \/ PlansForget(r) \/ PlansFiles(r)
    BY <1>3 DEF Planned
  <2>2. CASE PlansCondition(r)
    BY <1>1, <2>2 DEF PlansCondition
  <2>3. CASE PlansForget(r)
    BY <2>3, NoDetails DEF PlansForget, FreshD
  <2>4. CASE PlansFiles(r)
    BY <1>1, <2>4 DEF PlansFiles, FreshD, AllNew
  <2> QED
    BY <2>1, <2>2, <2>3, <2>4
<1>4. r.pc # "read"
  BY DEF Planned
<1> QED
  BY <1>2, <1>3, <1>4 DEF FreshR

\* What is embedded now is what was asked for, or later.
LEMMA FreshFile ==
  ASSUME IInv, Calm, Live, Ordered, Fresh, asked \in [Files -> Nat],
         \A f \in Files, v \in Versions : asked[f] <= oss[f][v],
         StatFile \/ StatFails \/ HandleFile \/ HandleFails
  PROVE  FreshR(rec)'
<1> DEFINE D == rec.new.details
           E == rec'.new.details
<1>0. PICK file : file = rec.file
  OBVIOUS
<1>1. /\ UNCHANGED <<kb, asked>> /\ coll \subseteq coll' /\ rec.pc \in {"stat", "read"} /\ file \in DOMAIN D
      /\ rec'.new.cond = rec.new.cond /\ DOMAIN E = DOMAIN D
      /\ \A g \in DOMAIN D : g # file => E[g] = D[g]
      /\ \/ rec.pc = "stat" /\ rec'.pc = "read" /\ rec'.file = file
         \/ /\ rec'.pc = "patch" /\ ~rec'.stamped
            /\ E[file].phase = "Succeeded" => rec.pc = "read" /\ <<file, oss[file][D[file].version]>> \in coll'
  BY <1>0, HandledFile
<1>2. \A f, a : Has(f, a) => Has(f, a)'
  BY <1>1, MoreHas
<1>3. \A f \in DOMAIN D : f # file /\ D[f].phase = "Succeeded" => Has(f, asked[f])
  BY <1>0, <1>1 DEF Fresh, FreshR, FreshD
<1>4. rec'.new.cond # "ready"
  BY <1>1 DEF Ordered, Fits
<1>5. ASSUME rec'.pc = "patch", E[file].phase = "Succeeded"
      PROVE  Has(file, asked[file])'
  <2>1. /\ file \in Files /\ D[file] \in Detail /\ oss[file][D[file].version] \in ETags
    BY <1>0, <1>1, InHand
  <2>2. D[file].version \in Versions
    BY <2>1 DEF Detail
  <2>3. PICK etag \in ETags : etag = oss[file][D[file].version]
    BY <2>1
  <2>4. asked[file] <= etag /\ <<file, etag>> \in coll'
    BY <1>1, <1>5, <2>1, <2>2, <2>3
  <2>5. etag >= asked[file]
    BY <2>1, <2>4 DEF ETags
  <2>6. asked'[file] = asked[file]
    BY <1>1
  <2> QED
    BY <2>4, <2>5, <2>6 DEF Has
<1>6. ASSUME NEW f \in DOMAIN E, f # file, E[f].phase = "Succeeded"
      PROVE  Has(f, asked[f])'
  BY <1>1, <1>2, <1>3, <1>6
<1>7. CASE rec'.pc = "read"
  BY <1>1, <1>6, <1>7 DEF FreshR
<1>8. CASE rec'.pc = "patch"
  BY <1>1, <1>4, <1>5, <1>6, <1>8 DEF FreshR, FreshD
<1> QED
  BY <1>1, <1>7, <1>8

LEMMA FreshWrites ==
  ASSUME IInv, Fresh, NEW k \in Kbs, Store(k), UNCHANGED <<view, coll, asked>>, Keeps(k), rec' = Idle,
         FreshD(k.status.details), k.status.cond = "ready" => AllNew
  PROVE  Fresh'
<1>1. kb' = k /\ Copies' \subseteq Copies \cup {k}
  BY Written
<1>2. \A f, a : Has(f, a) => Has(f, a)'
  BY DEF Has
<1>3. ASSUME NEW l \in Copies'
      PROVE  l.gen = kb.gen /\ FreshD(l.status.details)'
  <2>1. l.gen = kb.gen /\ FreshD(l.status.details)
    BY <1>1, <1>3 DEF Fresh, Same, Keeps
  <2> QED
    BY <1>2, <2>1 DEF FreshD
<1>4. AllNew => AllNew'
  BY <1>1, <1>2 DEF AllNew, Keeps
<1>5. FreshR(rec)'
  BY DEF FreshR, Idle
<1> QED
  BY <1>1, <1>3, <1>4, <1>5 DEF Fresh, Same, Keeps

\* Before anybody asks.
LEMMA EarlyMoves ==
  ASSUME IInv, Live, InLine, Early, UNCHANGED <<kb, asked>>, Copies' \subseteq Copies, rec' \in {rec, Idle}
  PROVE  Early'
<1>1. view' \in Copies
  BY DEF Copies
<1>2. Seen(view) => Seen(view')
  BY <1>1, SeenOn DEF Early
<1>3. Seen(view') <=> Seen(view)'
  BY DEF Seen
<1> QED
  BY <1>2, <1>3 DEF Early, Same, Idle

LEMMA EarlyPlans ==
  ASSUME IInv, Calm, Live, InLine, Early, Planned(rec'), UNCHANGED <<kb, asked, watch, view>>
  PROVE  Early'
<1> DEFINE D == view.status.details
           E == kb.status.details
<1>1. /\ kb.files # Nothing /\ view.files = kb.files /\ view.update = "none" /\ view # NoKb
      /\ D \in Details /\ view.files \in Listings
      /\ E = Nothing => D = Nothing
  <2>1. view \in Copies
    BY DEF Copies
  <2> QED
    BY <2>1, SeenOn, ViewType, ViewIsOlder DEF Early, Same
<1>2. rec'.pc # "annotation"
  BY <1>1 DEF Planned, Forgot
<1>3. ASSUME rec'.pc = "sync"
      PROVE  /\ Seen(view) /\ rec'.new # Nothing
             /\ E = Nothing => \A f \in DOMAIN rec'.new : rec'.new[f].phase # "Succeeded"
  <2>1. Seen(view) /\ rec'.new = Sync(view.files, D)
    BY <1>3 DEF Planned
  <2>2. DOMAIN rec'.new = DOMAIN view.files /\ rec'.new \in Details
    BY <1>1, <2>1, SyncType DEF Sync
  <2>3. rec'.new # Nothing
    BY <1>1, <2>2, EmptyListing
  <2>4. ASSUME E = Nothing, NEW f \in DOMAIN view.files
        PROVE  rec'.new[f].phase # "Succeeded"
    <3>1. f \notin DOMAIN D
      BY <1>1, <2>4, NoDetails
    <3>2. rec'.new[f] = [phase |-> "Pending", sum |-> NoSum, version |-> view.files[f]]
      BY <2>1, <3>1 DEF Sync
    <3> QED
      BY <3>2
  <2> QED
    BY <2>1, <2>2, <2>3, <2>4
<1>4. ASSUME rec'.pc \in {"patch", "stat"}
      PROVE  IF E = Nothing
             THEN rec'.pc = "patch" /\ rec'.new.details = Nothing /\ rec'.new.cond # "ready"
             ELSE rec'.new.details # Nothing
  <2>1. PlansCondition(rec') \/ PlansForget(rec') \/ PlansFiles(rec')
    BY <1>4 DEF Planned
  <2>2. ~PlansForget(rec')
    BY <1>1 DEF PlansForget
  <2>3. CASE PlansCondition(rec')
    <3>1. E = Nothing
      BY <2>3 DEF PlansCondition, Early
    <3> QED
      BY <1>1, <2>3, <3>1 DEF PlansCondition
  <2>4. CASE PlansFiles(rec')
    <3>1. D # Nothing /\ E # Nothing
      BY <1>1, <2>4, EmptyListing DEF PlansFiles
    <3>2. rec'.new.details # Nothing
      BY <1>1, <2>4, <3>1, EmptyListing, NoDetails DEF PlansFiles
    <3> QED
      BY <3>1, <3>2
  <2> QED
    BY <2>1, <2>2, <2>3, <2>4
<1>5. rec'.pc # "read"
  BY DEF Planned
<1>6. Copies' = Copies
  BY DEF Copies
<1>7. Seen(view)' <=> Seen(view)
  BY DEF Seen
<1> QED
  BY <1>2, <1>3, <1>4, <1>5, <1>6, <1>7 DEF Early, Same

LEMMA EarlyFile ==
  ASSUME IInv, Calm, Live, Early, StatFile \/ StatFails \/ HandleFile \/ HandleFails
  PROVE  Early'
<1>1. /\ UNCHANGED <<kb, asked, watch, view>> /\ rec'.pc \in {"read", "patch"} /\ rec.pc \in {"stat", "read"}
      /\ DOMAIN rec'.new.details # {}
  BY HandledFile
<1>2. rec'.new.details # Nothing /\ kb.status.details # Nothing
  BY <1>1, NoDetails DEF Early
<1>3. Copies' = Copies
  BY <1>1 DEF Copies
<1>4. Seen(view)' <=> Seen(view)
  BY <1>1 DEF Seen
<1> QED
  BY <1>1, <1>2, <1>3, <1>4 DEF Early, Same

LEMMA EarlyWrites ==
  ASSUME IInv, Early, NEW k \in Kbs, Store(k), UNCHANGED <<view, asked>>, Keeps(k), k.update = "none", rec' = Idle,
         IF k.status.details = Nothing THEN kb.status.details = Nothing /\ k.status.cond # "ready" ELSE Seen(view)
  PROVE  Early'
<1>1. kb' = k /\ Copies' \subseteq Copies \cup {k}
  BY Written
<1>2. Seen(view)' <=> Seen(view)
  BY DEF Seen
<1>3. \A l \in Copies' : l.gen = kb.gen /\ l.update = "none"
  BY <1>1 DEF Early, Same, Keeps
<1>4. k.status.details = Nothing => \A l \in Copies' : l.status.details = Nothing
  BY <1>1 DEF Early
<1> QED
  BY <1>1, <1>2, <1>3, <1>4 DEF Early, Same, Keeps, Idle

\* While the annotation waits.
LEMMA WaitingMoves ==
  ASSUME IInv, Live, InLine, Waiting, kb' = kb, Copies' \subseteq Copies, rec' \in {rec, Idle},
         \A k, l : Behind(k, l)' => Behind(k, l), view' = view \/ Behind(view, view')
  PROVE  Waiting'
<1>1. view' \in Copies /\ view \in Copies
  BY DEF Copies
<1>2. Seen(view) => Seen(view')
  BY <1>1, SeenOn DEF Waiting
<1>3. Later(view, view')
  BY <1>1 DEF Waiting, Later
<1>4. (view.update = "redo" => view'.update = "redo") /\ (Forgot(view) => Forgot(view'))
  BY <1>3 DEF Later
<1>5. (Seen(view') <=> Seen(view)') /\ (Forgot(view') <=> Forgot(view)') /\ (Forgot(kb') <=> Forgot(kb)')
  BY DEF Seen, Forgot
<1>6. WaitR(rec)'
  BY <1>2, <1>4, <1>5 DEF Waiting, WaitR, Idle
<1>7. \A k, l \in Copies' : Behind(k, l)' => Later(k, l)
  BY DEF Waiting
<1> QED
  BY <1>2, <1>4, <1>5, <1>6, <1>7 DEF Waiting, Same

LEMMA WaitingPlans ==
  ASSUME IInv, Calm, Live, InLine, Waiting, NEW r, Planned(r)
  PROVE  WaitR(r)
<1> DEFINE D == view.status.details
<1>1. /\ view.files # Nothing /\ view.files = kb.files /\ view # NoKb /\ view \in Copies
      /\ D \in Details /\ view.files \in Listings
      /\ D = Nothing => Seen(view)
      /\ Forgot(kb) => view.update = "redo" /\ kb.status.details = Nothing /\ Seen(view)
  <2>1. view \in Copies /\ kb \in Copies
    BY DEF Copies
  <2> QED
    BY <2>1, SeenOn, ViewType, ViewIsOlder DEF Waiting, Same, Forgot
<1>2. ASSUME r.pc = "sync"
      PROVE  r.new # Nothing /\ ~Forgot(kb)
  <2>1. view.update = "none" /\ r.new = Sync(view.files, D)
    BY <1>2 DEF Planned
  <2>2. DOMAIN r.new = DOMAIN view.files /\ r.new \in Details
    BY <1>1, <2>1, SyncType DEF Sync
  <2> QED
    BY <1>1, <2>1, <2>2, EmptyListing
<1>3. ASSUME r.pc \in {"patch", "stat"}
      PROVE  \/ /\ r.pc = "patch" /\ r.new.details = Nothing
                /\ view.update = "redo" /\ r.stamped /\ r.new.cond # "ready" /\ Seen(view)
             \/ r.new.details # Nothing /\ ~Forgot(kb)
  <2>1. CASE PlansCondition(r)
    BY <1>1, <2>1 DEF PlansCondition
  <2>2. CASE PlansForget(r)
    BY <2>2 DEF PlansForget
  <2>3. CASE PlansFiles(r)
    <3>1. D # Nothing /\ view.update = "none"
      BY <1>1, <2>3, EmptyListing DEF PlansFiles
    <3>2. r.new.details # Nothing
      BY <1>1, <2>3, <3>1, EmptyListing, NoDetails DEF PlansFiles
    <3> QED
      BY <1>1, <3>1, <3>2
  <2> QED
    BY <1>3, <2>1, <2>2, <2>3 DEF Planned
<1>4. r.pc # "read"
  BY DEF Planned
<1> QED
  BY <1>2, <1>3, <1>4 DEF WaitR, Planned

LEMMA WaitingRec ==
  ASSUME Waiting, UNCHANGED <<kb, watch, view>>, WaitR(rec')
  PROVE  Waiting'
<1>1. Copies' = Copies /\ \A k, l : Behind(k, l)' => Behind(k, l)
  BY DEF Copies, Behind
<1>2. (Seen(view)' <=> Seen(view)) /\ (Forgot(view)' <=> Forgot(view)) /\ (Forgot(kb)' <=> Forgot(kb))
  BY DEF Seen, Forgot
<1>3. WaitR(rec)'
  BY <1>2 DEF WaitR
<1> QED
  BY <1>1, <1>2, <1>3 DEF Waiting, Same

LEMMA WaitingFile ==
  ASSUME IInv, Calm, Live, Waiting, StatFile \/ StatFails \/ HandleFile \/ HandleFails
  PROVE  Waiting'
<1>1. /\ UNCHANGED <<kb, watch, view>> /\ rec'.pc \in {"read", "patch"} /\ rec.pc \in {"stat", "read"}
      /\ DOMAIN rec'.new.details # {}
  BY HandledFile
<1>2. rec'.new.details # Nothing /\ ~Forgot(kb)
  BY <1>1, NoDetails DEF Waiting, WaitR
<1>3. WaitR(rec')
  BY <1>1, <1>2 DEF WaitR
<1> QED
  BY <1>1, <1>3, WaitingRec

LEMMA WaitingWrites ==
  ASSUME IInv, Waiting, NEW k \in Kbs, Store(k), view' = view, Keeps(k), k.update = "redo", rec' = Idle,
         Forgot(kb) => Forgot(k),
         k.status.details = Nothing => Seen(view) /\ k.status.cond # "ready" /\ view.update = "redo"
  PROVE  Waiting'
<1>1. /\ kb' = k /\ Copies' \subseteq Copies \cup {k}
      /\ \A m, l : Behind(m, l)' => Behind(m, l) \/ (l = k /\ m \in Copies \cup {k})
  BY Written
<1>2. Seen(view)' <=> Seen(view)
  BY DEF Seen
<1>3. \A m \in Copies \cup {k} : Later(m, k)
  <2>1. ASSUME NEW m \in Copies
        PROVE  Later(m, k)
    <3>1. Behind(m, kb) /\ kb \in Copies
      BY DEF Behind, Copies
    <3> QED
      BY <3>1 DEF Waiting, Later
  <2> QED
    BY <2>1 DEF Later
<1>4. ASSUME NEW m \in Copies', NEW l \in Copies', Behind(m, l)'
      PROVE  Later(m, l)
  <2>1. CASE l = k
    BY <1>1, <1>3, <1>4, <2>1
  <2>2. CASE l # k
    <3>1. m \in Copies /\ l \in Copies /\ Behind(m, l)
      BY <1>1, <1>4, <2>2 DEF Behind, Copies
    <3> QED
      BY <3>1 DEF Waiting
  <2> QED
    BY <2>1, <2>2
<1>5. \A m \in Copies' : m.gen = kb.gen /\ (m.status.details = Nothing => Seen(view))
  BY <1>1 DEF Waiting, Same, Keeps
<1>6. Forgot(k) <=> Forgot(kb)'
  BY <1>1 DEF Forgot
<1>7. WaitR(rec)'
  BY DEF WaitR, Idle
<1> QED
  BY <1>1, <1>2, <1>4, <1>5, <1>6, <1>7 DEF Waiting, Same, Keeps, Forgot

\* The annotation goes when every version about has been made to forget.
LEMMA WaitingEnds ==
  ASSUME IInv, Waiting, rec.pc = "annotation", NEW k \in Kbs, Store(k), UNCHANGED <<view, coll, asked>>, Keeps(k),
         k.status = kb.status, rec' = Idle
  PROVE  Fresh'
<1>1. kb' = k /\ Copies' \subseteq Copies \cup {k}
  BY Written
<1>2. Forgot(view)
  BY DEF Waiting, WaitR
<1>3. ASSUME NEW l \in Copies
      PROVE  l.status.details = Nothing
  <2>1. Behind(view, l) \/ l = view
    BY DEF Behind, Copies
  <2>2. view \in Copies
    BY DEF Copies
  <2>3. Forgot(l)
    BY <1>2, <2>1, <2>2 DEF Waiting, Later
  <2> QED
    BY <2>3 DEF Forgot
<1>4. kb \in Copies /\ Behind(view, kb) /\ view \in Copies
  BY DEF Behind, Copies
<1>5. Forgot(kb) /\ k.status.cond # "ready"
  BY <1>2, <1>4 DEF Waiting, Later
<1>6. ASSUME NEW l \in Copies'
      PROVE  l.gen = kb.gen /\ FreshD(l.status.details)'
  <2>1. l.gen = kb.gen /\ l.status.details = Nothing
    BY <1>1, <1>3, <1>4, <1>6 DEF Waiting, Same, Keeps
  <2> QED
    BY <2>1, NoDetails DEF FreshD
<1>7. FreshR(rec)'
  BY DEF FreshR, Idle
<1> QED
  BY <1>1, <1>5, <1>6, <1>7 DEF Fresh, Waiting, Same, Keeps

\* Steps of nobody's who edits or asks.
LEMMA AnsweredStays ==
  ASSUME IInv, Live, Answered, asked' = asked, used'.updates = used.updates, used'.edits = used.edits,
         \A f \in Files, v \in Versions : oss[f][v] <= oss'[f][v], oss' \in [Files -> [Versions -> ETags]],
         Early => Early', Fresh => Fresh', Waiting => Waiting' \/ Fresh'
  PROVE  Answered'
<1>1. ASSUME NEW f \in Files, NEW v \in Versions
      PROVE  asked'[f] <= oss'[f][v]
  <2>1. asked[f] \in Nat /\ oss[f][v] \in Nat /\ oss'[f][v] \in Nat
    BY DEF Answered, IInv, Types, ETags
  <2>2. asked[f] <= oss[f][v] /\ oss[f][v] <= oss'[f][v]
    BY DEF Answered
  <2> QED
    BY <2>1, <2>2
<1>2. NoAsk => NoAsk'
  BY DEF NoAsk
<1> QED
  BY <1>1, <1>2 DEF Answered

LEMMA SameStore ==
  ASSUME IInv, oss' = oss
  PROVE  /\ \A f \in Files, v \in Versions : oss[f][v] <= oss'[f][v]
         /\ oss' \in [Files -> [Versions -> ETags]]
<1>1. \A f \in Files, v \in Versions : oss[f][v] \in Nat
  BY DEF IInv, Types, ETags
<1> QED
  BY <1>1 DEF IInv, Types

LEMMA AnsweredReconcile ==
  ASSUME IInv, Calm, Live, Ordered, Answered, ReconcileStep
  PROVE  Answered'
<1>1. Planned(rec') /\ UNCHANGED <<kb, oss, coll, watch, view, asked, used>> /\ InLine
  BY ReconcilePlans DEF Ordered
<1>2. Early => Early'
  BY <1>1, EarlyPlans
<1>3. ASSUME Fresh
      PROVE  Fresh'
  <2>1. FreshR(rec')
    BY <1>1, <1>3, FreshPlans
  <2>2. Copies' \subseteq Copies
    BY <1>1 DEF Copies
  <2> QED
    BY <1>1, <1>3, <2>1, <2>2, FreshRMore, FreshStays
<1>4. ASSUME Waiting
      PROVE  Waiting'
  <2>1. WaitR(rec')
    BY <1>1, <1>4, WaitingPlans
  <2> QED
    BY <1>1, <1>4, <2>1, WaitingRec
<1> QED
  BY <1>1, <1>2, <1>3, <1>4, SameStore, AnsweredStays

LEMMA AnsweredFile ==
  ASSUME IInv, Calm, Live, Ordered, Answered, StatFile \/ StatFails \/ HandleFile \/ HandleFails
  PROVE  Answered'
<1>1. /\ UNCHANGED <<kb, oss, watch, view, asked>> /\ coll \subseteq coll'
      /\ used'.updates = used.updates /\ used'.edits = used.edits
  BY HandledFile
<1>2. ASSUME Fresh
      PROVE  Fresh'
  <2>1. FreshR(rec)'
    BY <1>2, FreshFile DEF Answered
  <2>2. Copies' \subseteq Copies
    BY <1>1 DEF Copies
  <2> QED
    BY <1>1, <1>2, <2>1, <2>2, FreshStays
<1> QED
  BY <1>1, <1>2, EarlyFile, WaitingFile, SameStore, AnsweredStays

\* The object stays as it is, and the worker rests or goes on.
LEMMA AnsweredMoves ==
  ASSUME IInv, Calm, Live, Ordered, Answered, UNCHANGED <<kb, asked, coll>>, rec' \in {rec, Idle},
         used'.updates = used.updates, used'.edits = used.edits,
         \A f \in Files, v \in Versions : oss[f][v] <= oss'[f][v], oss' \in [Files -> [Versions -> ETags]],
         \/ UNCHANGED <<view, watch>>
         \/ Deliver
         \/ watch' = <<>> /\ view' \in {view, kb}
  PROVE  Answered'
<1>1. /\ Copies' \subseteq Copies /\ (\A m, l : Behind(m, l)' => Behind(m, l))
      /\ view' = view \/ Behind(view, view')
  BY Moved
<1>2. InLine
  BY DEF Ordered
<1>3. ASSUME Fresh
      PROVE  Fresh'
  <2>1. FreshR(rec')
    BY <1>3 DEF Fresh, FreshR, Idle
  <2>2. FreshR(rec)'
    BY <2>1, FreshRMore
  <2> QED
    BY <1>1, <1>3, <2>2, FreshStays
<1>4. Early => Early'
  BY <1>1, <1>2, EarlyMoves
<1>5. Waiting => Waiting'
  BY <1>1, <1>2, WaitingMoves
<1> QED
  BY <1>3, <1>4, <1>5, AnsweredStays

LEMMA AnsweredOther ==
  ASSUME IInv, Calm, Live, Ordered, Answered, IInv',
         \/ CallFails \/ RemoveCollection \/ Deliver \/ \E f \in Files, v \in Versions : Upload(f, v)
         \/ \E s \in {"ready", "notReady", "missing"} : DepsChange(s)
         \/ Crash \/ Restart
  PROVE  Answered'
<1>1. oss' \in [Files -> [Versions -> ETags]]
  BY DEF IInv, Types
<1> QED
  BY <1>1, OtherSteps, AnsweredMoves

\* The status that is written from the cache.
LEMMA AnsweredPatch ==
  ASSUME IInv, Calm, Live, Ordered, Answered, PatchStatus
  PROVE  Answered'
<1>1. /\ rec' = Idle /\ UNCHANGED <<oss, coll, view, asked, used>> /\ rec.pc = "patch"
  BY StatusWritten DEF PatchStatus
<1>2. CASE UNCHANGED <<kb, watch>>
  BY <1>1, <1>2, SameStore, AnsweredMoves
<1> DEFINE new == rec.new
<1>3. CASE \E k \in Kbs :
             /\ Store(k) /\ Keeps(k) /\ k.update = kb.update
             /\ k.status.observed = IF new.observed = view.status.observed
                                    THEN kb.status.observed ELSE new.observed
             /\ k.status.cond = IF new.cond = view.status.cond /\ ~rec.stamped
                                THEN kb.status.cond ELSE new.cond
             /\ k.status.details = IF new.details = view.status.details
                                   THEN kb.status.details ELSE new.details
  <2>1. PICK k \in Kbs :
             /\ Store(k) /\ Keeps(k) /\ k.update = kb.update
             /\ k.status.observed = IF new.observed = view.status.observed
                                    THEN kb.status.observed ELSE new.observed
             /\ k.status.cond = IF new.cond = view.status.cond /\ ~rec.stamped
                                THEN kb.status.cond ELSE new.cond
             /\ k.status.details = IF new.details = view.status.details
                                   THEN kb.status.details ELSE new.details
    BY <1>3
  <2>2. /\ k.status.cond \in {new.cond, kb.status.cond} /\ k.status.details \in {new.details, kb.status.details}
        /\ rec.stamped => k.status.cond = new.cond
        /\ kb \in Copies /\ view \in Copies
    BY <2>1 DEF Copies
  <2>3. ASSUME Early
        PROVE  Early'
    <3>1. k.update = "none"
      BY <2>1, <2>2, <2>3 DEF Early
    <3>2. IF k.status.details = Nothing THEN kb.status.details = Nothing /\ k.status.cond # "ready" ELSE Seen(view)
      <4>1. CASE kb.status.details = Nothing
        BY <1>1, <2>2, <2>3, <4>1 DEF Early
      <4>2. CASE kb.status.details # Nothing
        BY <1>1, <2>2, <2>3, <4>2 DEF Early
      <4> QED
        BY <4>1, <4>2
    <3> QED
      BY <1>1, <2>1, <2>3, <3>1, <3>2, EarlyWrites
  <2>4. ASSUME Fresh
        PROVE  Fresh'
    <3>1. FreshD(k.status.details) /\ (k.status.cond = "ready" => AllNew)
      BY <1>1, <2>2, <2>4 DEF Fresh, FreshR
    <3> QED
      BY <1>1, <2>1, <2>4, <3>1, FreshWrites
  <2>5. ASSUME Waiting
        PROVE  Waiting'
    <3>1. k.update = "redo" /\ kb.update = "redo"
      BY <2>1, <2>5 DEF Waiting
    <3>2. IF new.details = Nothing
          THEN view.update = "redo" /\ rec.stamped /\ new.cond # "ready" /\ Seen(view)
          ELSE ~Forgot(kb)
      BY <1>1, <2>5 DEF Waiting, WaitR
    <3>3. Forgot(kb) => Forgot(k)
      BY <2>2, <3>1, <3>2 DEF Forgot
    <3>4. k.status.details = Nothing => Seen(view) /\ k.status.cond # "ready" /\ view.update = "redo"
      BY <2>2, <3>1, <3>2 DEF Forgot
    <3> QED
      BY <1>1, <2>1, <2>5, <3>1, <3>3, <3>4, WaitingWrites
  <2> QED
    BY <1>1, <2>3, <2>4, <2>5, SameStore, AnsweredStays
<1> QED
  BY <1>2, <1>3, StatusWritten

LEMMA AnsweredSync ==
  ASSUME IInv, Calm, Live, Ordered, Answered, PatchSync
  PROVE  Answered'
<1>1. rec.pc = "sync" /\ rec' = Idle /\ UNCHANGED <<oss, coll, view, asked, used>>
  BY SyncWritten DEF PatchSync
<1>2. PICK k \in Kbs :
        /\ Store(k) /\ Keeps(k) /\ k.update = kb.update /\ k.status.details = rec.new
        /\ k.status.cond = kb.status.cond
  BY SyncWritten
<1>3. kb \in Copies
  BY DEF Copies
<1>4. ASSUME Early
      PROVE  Early'
  <2>1. k.update = "none" /\ k.status.details # Nothing /\ Seen(view)
    BY <1>1, <1>2, <1>3, <1>4 DEF Early
  <2> QED
    BY <1>1, <1>2, <1>4, <2>1, EarlyWrites
<1>5. ASSUME Fresh
      PROVE  Fresh'
  <2>1. FreshD(k.status.details) /\ (k.status.cond = "ready" => AllNew)
    BY <1>1, <1>2, <1>5 DEF Fresh, FreshR
  <2> QED
    BY <1>1, <1>2, <1>5, <2>1, FreshWrites
<1>6. ASSUME Waiting
      PROVE  Waiting'
  <2>1. k.update = "redo" /\ k.status.details # Nothing /\ ~Forgot(kb)
    BY <1>1, <1>2, <1>6 DEF Waiting, WaitR
  <2> QED
    BY <1>1, <1>2, <1>6, <2>1, WaitingWrites
<1> QED
  BY <1>1, <1>4, <1>5, <1>6, SameStore, AnsweredStays

LEMMA AnsweredAnnotation ==
  ASSUME IInv, Calm, Live, Ordered, Answered, PatchAnnotation
  PROVE  Answered'
<1>1. rec.pc = "annotation" /\ rec' = Idle /\ UNCHANGED <<oss, coll, view, asked, used>>
  BY AnnotationWritten DEF PatchAnnotation
<1>2. PICK k \in Kbs : Store(k) /\ Keeps(k) /\ k.update = "none" /\ k.status = kb.status
  BY AnnotationWritten
<1>3. ~Early
  BY <1>1 DEF Early
<1>4. ASSUME Fresh
      PROVE  Fresh'
  <2>1. FreshD(k.status.details) /\ (k.status.cond = "ready" => AllNew)
    BY <1>2, <1>4 DEF Fresh, Copies
  <2> QED
    BY <1>1, <1>2, <1>4, <2>1, FreshWrites
<1>5. Waiting => Fresh'
  BY <1>1, <1>2, WaitingEnds
<1> QED
  BY <1>1, <1>3, <1>4, <1>5, SameStore, AnsweredStays

LEMMA AnsweredFinalizer ==
  ASSUME IInv, Calm, Live, Ordered, Answered, UpdateFinalizer
  PROVE  Answered'
<1>1. rec' = Idle /\ UNCHANGED <<oss, coll, view, asked, used>>
  BY FinalizerWritten
<1>2. CASE UNCHANGED <<kb, watch>>
  BY <1>1, <1>2, SameStore, AnsweredMoves
<1>3. CASE Store(NoKb)
  BY <1>3 DEF Store, Answered, Live
<1>4. CASE \E k \in Kbs : Store(k) /\ Keeps(k) /\ k.update = kb.update /\ k.status = kb.status
  <2>1. PICK k \in Kbs : Store(k) /\ Keeps(k) /\ k.update = kb.update /\ k.status = kb.status
    BY <1>4
  <2>2. kb \in Copies /\ Behind(kb, kb)
    BY DEF Copies, Behind
  <2>3. ASSUME Early
        PROVE  Early'
    <3>1. /\ k.update = "none"
          /\ IF k.status.details = Nothing THEN kb.status.details = Nothing /\ k.status.cond # "ready" ELSE Seen(view)
      BY <2>1, <2>2, <2>3 DEF Early
    <3> QED
      BY <1>1, <2>1, <2>3, <3>1, EarlyWrites
  <2>4. ASSUME Fresh
        PROVE  Fresh'
    <3>1. FreshD(k.status.details) /\ (k.status.cond = "ready" => AllNew)
      BY <2>1, <2>2, <2>4 DEF Fresh
    <3> QED
      BY <1>1, <2>1, <2>4, <3>1, FreshWrites
  <2>5. ASSUME Waiting
        PROVE  Waiting'
    <3>1. k.update = "redo" /\ kb.update = "redo"
      BY <2>1, <2>5 DEF Waiting
    <3>2. Forgot(kb) => Forgot(k)
      BY <2>1 DEF Forgot
    <3>3. k.status.details = Nothing => Seen(view) /\ k.status.cond # "ready" /\ view.update = "redo"
      BY <2>1, <2>2, <2>5, <3>1 DEF Waiting, Forgot
    <3> QED
      BY <1>1, <2>1, <2>5, <3>1, <3>2, <3>3, WaitingWrites
  <2> QED
    BY <1>1, <2>3, <2>4, <2>5, SameStore, AnsweredStays
<1> QED
  BY <1>2, <1>3, <1>4, FinalizerWritten

\* An edit withdraws what was asked for.
LEMMA AnsweredEdit ==
  ASSUME IInv, NEW files \in Listings, EditFiles(files)
  PROVE  Answered'
<1>1. oss' = oss /\ asked' = [f \in Files |-> 0] /\ used' = [used EXCEPT !.edits = @ + 1]
  BY EditWritten
<1>2. used'.updates + used'.edits # 0
  <2>1. used.updates \in Nat /\ used.edits \in Nat /\ used \in Counts
    BY DEF IInv, Types, Counts
  <2>2. used'.edits = used.edits + 1 /\ used'.updates = used.updates
    BY <1>1, <2>1 DEF Counts
  <2> QED
    BY <2>1, <2>2
<1>3. NoAsk'
  BY <1>1 DEF NoAsk
<1>4. asked' \in [Files -> Nat]
  BY <1>1
<1>5. \A f \in Files, v \in Versions : asked'[f] <= oss'[f][v]
  BY <1>1 DEF IInv, Types, ETags
<1> QED
  BY <1>2, <1>3, <1>4, <1>5 DEF Answered

\* Only here does it matter when a request comes.
LEMMA AnsweredRequest ==
  ASSUME IInv, Calm, Live, Ordered, Answered, NEW how \in Updates, RequestUpdate(how),
         Quiet \/ used.updates + used.edits = 0
  PROVE  Answered'
<1>1. /\ UNCHANGED <<oss, coll, view, rec>> /\ used' = [used EXCEPT !.updates = @ + 1]
      /\ asked' = [f \in Files |-> IF f \in DOMAIN kb.files THEN oss[f][kb.files[f]] ELSE 0]
  BY RequestWritten
<1>2. PICK k \in Kbs : Store(k) /\ Keeps(k) /\ k.update = "redo" /\ k.status = kb.status
  BY RequestWritten
<1>3. /\ kb' = k /\ Copies' \subseteq Copies \cup {k}
      /\ \A m, l : Behind(m, l)' => Behind(m, l) \/ (l = k /\ m \in Copies \cup {k})
  BY <1>1, <1>2, Written
<1>4. used'.updates + used'.edits # 0
  <2>1. used.updates \in Nat /\ used.edits \in Nat /\ used \in Counts
    BY DEF IInv, Types, Counts
  <2>2. used'.edits = used.edits /\ used'.updates = used.updates + 1
    BY <1>1, <2>1 DEF Counts
  <2> QED
    BY <2>1, <2>2
<1>5. kb.files \in [DOMAIN kb.files -> Versions] /\ DOMAIN kb.files \subseteq Files
  <2>1. kb.files \in Listings
    BY DEF IInv, Types, Live, Kbs
  <2> QED
    BY <2>1, ListingsType
<1>6. ASSUME NEW f \in Files
      PROVE  asked'[f] \in Nat /\ \A v \in Versions : asked'[f] <= oss'[f][v]
  <2>1. \A v \in Versions : oss[f][v] \in ETags
    BY DEF IInv, Types
  <2>2. CASE f \in DOMAIN kb.files
    <3>1. kb.files[f] \in Versions /\ \A v \in Versions : v = kb.files[f]
      BY <1>5, <2>2 DEF Calm
    <3>2. asked'[f] = oss[f][kb.files[f]]
      BY <1>1, <2>2
    <3> QED
      BY <1>1, <2>1, <3>1, <3>2 DEF ETags
  <2>3. CASE f \notin DOMAIN kb.files
    <3>1. asked'[f] = 0
      BY <1>1, <2>3
    <3> QED
      BY <1>1, <2>1, <3>1 DEF ETags
  <2> QED
    BY <2>2, <2>3
<1>7. asked' \in [Files -> Nat]
  BY <1>1, <1>6
<1>8. kb \in Copies /\ view \in Copies
  BY DEF Copies
<1>9. Seen(view)' <=> Seen(view)
  BY <1>1 DEF Seen
<1>10. ASSUME \A l \in Copies : l.gen = kb.gen /\ l.update = "none", kb.files # Nothing, k.status.details # Nothing,
              \A l \in Copies : l.status.details = Nothing => Seen(view),
              rec.pc # "annotation", rec.pc = "sync" => rec.new # Nothing,
              rec.pc = "patch" => rec.new.details # Nothing
       PROVE  Waiting'
  <2>1. ~Forgot(kb)'
    BY <1>3, <1>10 DEF Forgot
  <2>2. ASSUME NEW m \in Copies', NEW l \in Copies', Behind(m, l)'
        PROVE  Later(m, l)
    <3>1. CASE m = k
      <4>1. l = k \/ (m \in Copies /\ m.update = "none")
        BY <1>3, <1>10, <2>2, <3>1 DEF Behind, Copies
      <4> QED
        BY <1>2, <3>1, <4>1 DEF Later
    <3>2. CASE m # k
      <4>1. m.update = "none"
        BY <1>3, <1>10, <2>2, <3>2
      <4> QED
        BY <4>1 DEF Later, Forgot
    <3> QED
      BY <3>1, <3>2
  <2>3. WaitR(rec)'
    BY <1>1, <1>10, <2>1 DEF WaitR
  <2>4. Same' /\ \A l \in Copies' : l.status.details = Nothing => Seen(view)
    BY <1>2, <1>3, <1>10 DEF Same, Keeps
  <2> QED
    BY <1>2, <1>3, <1>9, <2>1, <2>2, <2>3, <2>4 DEF Waiting
<1>11. CASE Early /\ kb.status.details = Nothing
  <2>1. ASSUME NEW l \in Copies'
        PROVE  l.gen = kb.gen /\ FreshD(l.status.details)'
    <3>1. l.gen = kb.gen /\ l.status.details = Nothing
      BY <1>2, <1>3, <1>8, <1>11, <2>1 DEF Early, Same, Keeps
    <3> QED
      BY <3>1, NoDetails DEF FreshD
  <2>2. FreshR(rec)'
    BY <1>1, <1>11, NoDetails DEF Early, FreshR, FreshD
  <2>3. k.status.cond # "ready" /\ kb.files # Nothing
    BY <1>2, <1>11 DEF Early, Same
  <2>4. Fresh'
    BY <1>2, <1>3, <2>1, <2>2, <2>3 DEF Fresh, Same, Keeps
  <2> QED
    BY <1>4, <1>6, <1>7, <2>4 DEF Answered
<1>12. CASE Early /\ kb.status.details # Nothing
  <2>1. Waiting'
    BY <1>2, <1>8, <1>10, <1>12 DEF Early, Same
  <2> QED
    BY <1>4, <1>6, <1>7, <2>1 DEF Answered
<1>13. CASE Quiet /\ kb.files # Nothing
  <2>1. \A l \in Copies : l = kb
    <3>1. DOMAIN watch = {}
      BY <1>13 DEF Quiet
    <3> QED
      BY <1>13, <3>1 DEF Quiet, Copies
  <2>2. Waiting'
    BY <1>2, <1>10, <1>13, <2>1 DEF Quiet, Idle
  <2> QED
    BY <1>4, <1>6, <1>7, <2>2 DEF Answered
<1>14. CASE kb.files = Nothing
  <2>1. DOMAIN kb.files = {}
    BY <1>14, NoDetails
  <2>2. NoAsk'
    BY <1>1, <2>1 DEF NoAsk
  <2> QED
    BY <1>4, <1>6, <1>7, <2>2 DEF Answered
<1> QED
  BY <1>11, <1>12, <1>13, <1>14 DEF Answered

LEMMA AnsweredStep ==
  ASSUME IInv, IInv', Calm, Ordered, Answered, [Next]_vars, Considerate
  PROVE  Answered'
<1>1. CASE ~Live
  BY <1>1, StaysGone DEF Answered
<1>2. CASE Live /\ UNCHANGED vars
  BY <1>2, SameStore, AnsweredMoves DEF vars, world
<1>3. CASE Live /\ Delete
  <2>1. PICK k : Store(k) /\ (k = NoKb \/ k.deleting)
    BY <1>3, DeleteWritten
  <2> QED
    BY <2>1 DEF Store, Answered, Live
<1>4. CASE Live /\ \E how \in Updates : RequestUpdate(how)
  BY <1>4, AnsweredRequest DEF Considerate
<1>5. CASE Live /\ Next /\ ~Delete /\ ~(\E how \in Updates : RequestUpdate(how))
  BY <1>5, AnsweredReconcile, AnsweredFile, AnsweredOther, AnsweredPatch, AnsweredSync, AnsweredAnnotation,
     AnsweredFinalizer, AnsweredEdit DEF Next, Call, User
<1> QED
  BY <1>1, <1>2, <1>3, <1>4, <1>5

LEMMA CountsGrow ==
  ASSUME used \in Counts
  PROVE  /\ [Next]_vars => used.updates <= used'.updates /\ used.edits <= used'.edits
         /\ \A how \in Updates : RequestUpdate(how) => used'.updates = used.updates + 1 /\ used' # used
<1>1. used.updates \in Nat /\ used.edits \in Nat
  BY DEF Counts
<1> DEFINE Grow == used.updates <= used'.updates /\ used.edits <= used'.edits
<1>2. used' = used => Grow
  BY <1>1
<1>3. Fault => Grow
  BY <1>1 DEF Fault, Counts
<1>4. User => Grow
  <2>1. \/ used' = [used EXCEPT !.uploads = @ + 1] \/ used' = [used EXCEPT !.edits = @ + 1]
        \/ used' = [used EXCEPT !.updates = @ + 1] \/ used' = [used EXCEPT !.deletes = @ + 1]
        => Grow
    BY <1>1 DEF Counts
  <2> QED
    BY <2>1 DEF User, Upload, EditFiles, RequestUpdate, Delete
<1>5. (\E s \in {"ready", "notReady", "missing"} : DepsChange(s)) \/ Crash => Grow
  BY <1>1 DEF DepsChange, Crash, Counts
<1>6. ReconcileStep => used' = used
  BY DEF ReconcileStep, ReconcileGone, ReconcileDelete, ReconcileFinalizer, ReconcilePending,
     ReconcileGeneration, ReconcileRedo, ReconcileRetryFailed, ReconcileUpdated, ReconcileSync, ReconcileDeps,
     ReconcileReady, ReconcileStart, ReconcileFile, ReconcileEnd, SetCondition, Take
<1>7. Call \/ Deliver \/ Restart \/ UNCHANGED vars => used' = used
  BY DEF Call, UpdateFinalizer, PatchStatus, PatchSync, PatchAnnotation, StatFile, HandleFile, Deliver, Restart, vars
<1>8. StatFails \/ HandleFails \/ CallFails \/ RemoveCollection => Fault \/ used' = used
  BY DEF StatFails, HandleFails, CallFails, RemoveCollection
<1>9. [Next]_vars => Grow
  BY <1>2, <1>3, <1>4, <1>5, <1>6, <1>7, <1>8 DEF Next
<1>10. ASSUME NEW how \in Updates, RequestUpdate(how)
       PROVE  used'.updates = used.updates + 1
  BY <1>10 DEF RequestUpdate, Counts
<1>11. used.updates + 1 # used.updates
  BY <1>1
<1> QED
  BY <1>9, <1>10, <1>11

LEMMA AnsweredFirst ==
  ASSUME Init
  PROVE  Answered
<1>1. asked = [f \in Files |-> 0] /\ oss = [f \in Files |-> [v \in Versions |-> 1]]
  BY DEF Init
<1>2. asked \in [Files -> Nat] /\ NoAsk
  BY <1>1 DEF NoAsk
<1>3. \A f \in Files, v \in Versions : asked[f] <= oss[f][v]
  BY <1>1
<1>4. Early
  BY <1>1, AtFirst DEF Early, Same, Idle
<1> QED
  BY <1>2, <1>3, <1>4 DEF Answered

\* Once the annotation is gone again, what it asked for is embedded when ready is said.
LEMMA AnsweredIs ==
  ASSUME IInv, Ordered, Answered
  PROVE  UpdateEmbedded
<1> SUFFICES ASSUME Reported, NEW f \in DOMAIN kb.files
             PROVE  \E etag \in ETags : etag >= asked[f] /\ <<f, etag>> \in coll
  BY DEF UpdateEmbedded
<1>1. Live /\ kb.status.cond = "ready" /\ kb.status.observed = kb.gen /\ kb.update = "none"
  BY DEF Reported
<1>2. f \in Files
  <2>1. kb.files \in Listings
    BY <1>1 DEF Live, IInv, Types, Kbs
  <2> QED
    BY <2>1, ListingsType
<1>3. CASE NoAsk
  BY <1>1, <1>2, <1>3 DEF NoAsk, Ordered, ReadyHas, Has
<1>4. CASE Fresh
  BY <1>1, <1>4 DEF Fresh, AllNew, Has
<1>5. ~Waiting
  BY <1>1 DEF Waiting
<1> QED
  BY <1>1, <1>3, <1>4, <1>5 DEF Answered

\* The file groups are asked for again when the controller is at rest, the cache is in
\* step and there are details to forget, or for the first time before any edit: then a
\* knowledge base that is called ready has every file with the content it had at the last
\* request, or a later one. Without the hypothesis a stale reconcile can take the
\* annotation for an earlier one and drop it.
THEOREM RequestsEmbedded ==
  ASSUME Calm
  PROVE  Spec /\ [][Considerate]_vars => []UpdateEmbedded
<1>1. Init => Answered
  BY AnsweredFirst
<1>2. IInv /\ Ordered /\ Answered /\ [Next]_vars /\ [Considerate]_vars => (IInv /\ Ordered /\ Answered)'
  <2> SUFFICES ASSUME IInv, Ordered, Answered, [Next]_vars, [Considerate]_vars
               PROVE  (IInv /\ Ordered /\ Answered)'
    OBVIOUS
  <2>0. used \in Counts
    BY DEF IInv, Types
  <2>1. CASE Considerate
    BY <2>1, Invariance, OrderedStep, AnsweredStep
  <2>2. CASE UNCHANGED vars
    <3>1. ASSUME UNCHANGED vars, NEW how \in Updates
          PROVE  ~RequestUpdate(how)
      <4>1. used' = used
        BY <3>1 DEF vars
      <4> QED
        BY <2>0, <4>1, CountsGrow
    <3>2. Considerate
      BY <2>2, <3>1 DEF Considerate
    <3> QED
      BY <3>2, Invariance, OrderedStep, AnsweredStep
  <2> QED
    BY <2>1, <2>2
<1>3. IInv /\ Ordered /\ Answered => UpdateEmbedded
  BY AnsweredIs
<1>4. Init => IInv /\ Ordered
  BY Initially, OrderedFirst
<1> QED
  BY <1>1, <1>2, <1>3, <1>4, PTL DEF Spec

\* So the first request is answered, whenever it comes and whatever cache the controller
\* has then, when nobody has edited the listing.
THEOREM FirstRequestEmbedded ==
  ASSUME Calm
  PROVE  Spec => [](used.updates <= 1 /\ used.edits = 0 => UpdateEmbedded)
<1> DEFINE Inv == IInv /\ Ordered /\ (used.updates <= 1 /\ used.edits = 0 => Answered)
<1>1. Init => Inv
  BY Initially, OrderedFirst, AnsweredFirst
<1>2. Inv /\ [Next]_vars => Inv'
  <2> SUFFICES ASSUME IInv, Ordered, used.updates <= 1 /\ used.edits = 0 => Answered, [Next]_vars
               PROVE  IInv' /\ Ordered' /\ (used'.updates <= 1 /\ used'.edits = 0 => Answered')
    OBVIOUS
  <2>1. IInv' /\ Ordered'
    BY Invariance, OrderedStep
  <2>2. ASSUME used'.updates <= 1, used'.edits = 0
        PROVE  used.updates <= 1 /\ used.edits = 0 /\ Considerate
    <3>1. used.updates \in Nat /\ used.edits \in Nat /\ used \in Counts
      BY DEF IInv, Types, Counts
    <3>2. used.updates <= used'.updates /\ used.edits <= used'.edits
      BY <3>1, CountsGrow
    <3>3. (\E how \in Updates : RequestUpdate(how)) => used'.updates = used.updates + 1
      BY <3>1, CountsGrow
    <3>4. used'.updates \in Nat
      BY <2>1 DEF IInv, Types, Counts
    <3> QED
      BY <2>2, <3>1, <3>2, <3>3, <3>4 DEF Considerate
  <2> QED
    BY <2>1, <2>2, AnsweredStep
<1>3. Inv => (used.updates <= 1 /\ used.edits = 0 => UpdateEmbedded)
  BY AnsweredIs
<1> QED
  BY <1>1, <1>2, <1>3, PTL DEF Spec

=============================================================================
