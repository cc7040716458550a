------------------------- MODULE RagEvaluation_proof -------------------------
(***************************************************************************)
(* Proofs about RagEvaluation, for every number of job phases, every set   *)
(* of specs and every bound: type correctness under all edits; when users  *)
(* make no edit that DeleteJobsAndPvc or WhenPVCDeleted answers, the order *)
(* of the phases, of the jobs and of the volume; as long as users have     *)
(* edited nothing, that every phase left behind has had its job run; and,  *)
(* when they edit evaluations that have ended, that a volume never holds   *)
(* results of two specs.                                                   *)
(***************************************************************************)
EXTENDS RagEvaluation, TLAPS

(* Types of what the actions build. *)

LEMMA NotifyType ==
  ASSUME NEW S, NEW w \in Seq(S), NEW x \in S
  PROVE  Notify(w, x) \in Seq(S)
  BY DEF Notify

LEMMA HeadTailType ==
  ASSUME NEW S, NEW w \in Seq(S), w # <<>>
  PROVE  Head(w) \in S /\ Tail(w) \in Seq(S)
  OBVIOUS

LEMMA PhaseTypes ==
  /\ Unset \in Phases /\ InitPvc \in Phases /\ Complete \in Phases
  /\ JobPhases \subseteq Phases
  /\ \A p \in 1..(NJobs + 1) : p + 1 \in Phases
  /\ 1..(NJobs + 1) \ {InitPvc} = JobPhases
  BY NJobsAssumption DEF Unset, InitPvc, Complete, JobPhases, Phases

LEMMA PatchType ==
  ASSUME NEW r \in Rags, NEW b \in Rags, NEW ph \in Phases, NEW cd \in Conds
  PROVE  PatchStatus(r, b, ph, cd) \in Rags
  BY DEF PatchStatus, Rags

LEMMA StoreRagType ==
  ASSUME TypeOK, NEW r \in Rags, StoreRag(r)
  PROVE  rag' \in Rags /\ ragWatch' \in Seq(Rags)
  BY NotifyType DEF TypeOK, StoreRag

LEMMA StorePvcType ==
  ASSUME TypeOK, NEW s \in Pvcs, StorePvc(s)
  PROVE  pvc' \in Pvcs /\ pvcWatch' \in Seq(Pvcs)
  BY NotifyType DEF TypeOK, StorePvc

LEMMA StoreJobType ==
  ASSUME TypeOK, NEW p \in JobPhases, NEW j \in Jobs \cup {NoJob}, StoreJob(p, j)
  PROVE  /\ jobs' \in [JobPhases -> Jobs \cup {NoJob}]
         /\ jobWatch' \in Seq(JobPhases \X (Jobs \cup {NoJob}))
  <1>1. <<p, j>> \in JobPhases \X (Jobs \cup {NoJob})
    OBVIOUS
  <1>2. jobWatch' \in Seq(JobPhases \X (Jobs \cup {NoJob}))
    BY <1>1, NotifyType DEF TypeOK, StoreJob
  <1>. QED BY <1>2 DEF TypeOK, StoreJob

LEMMA JobEdits ==
  ASSUME NEW j \in Jobs \cup {NoJob}, j # NoJob
  PROVE  /\ j \in Jobs
         /\ \A c \in JobConds : [j EXCEPT !.cond = c] \in Jobs
         /\ \A b \in BOOLEAN : [j EXCEPT !.suspend = b] \in Jobs
         /\ [j EXCEPT !.deleting = TRUE] \in Jobs
  BY DEF Jobs

LEMMA FaultType ==
  ASSUME TypeOK, Fault \/ UNCHANGED used
  PROVE  used' \in [edits: Nat, faults: Nat, failures: Nat, crashes: Nat]
  BY DEF TypeOK, Fault

(* Jobs are typed by the specs they were made for, NoJob is not: a job's    *)
(* condition can be set because a pod's job is there.                      *)
PodsHaveJobs == \A p \in pods : jobs[p] # NoJob
TypeInv == TypeOK /\ PodsHaveJobs

\* What the API server stores is a job, never the absence of one.
LEMMA JobNotNone ==
  /\ NoJob \notin Jobs
  /\ \A j \in Jobs \cup {NoJob} : j # NoJob =>
       /\ \A c : [j EXCEPT !.cond = c] # NoJob
       /\ \A b : [j EXCEPT !.suspend = b] # NoJob
       /\ \A b : [j EXCEPT !.deleting = b] # NoJob
  <1>1. \A j \in Jobs : j.ver # Never
    <2>1. \A v \in Specs : v # Never
      <3>1. \A a \in Apps, d \in Datasets, m \in Metrics : <<a, d, m>> # <<>>
        OBVIOUS
      <3>. QED BY <3>1 DEF Never, Specs
    <2>. QED BY <2>1 DEF Jobs
  <1>2. NoJob.ver = Never
    BY DEF NoJob
  <1>3. ASSUME NEW j \in Jobs
        PROVE  /\ \A c : [j EXCEPT !.cond = c] # NoJob
               /\ \A b : [j EXCEPT !.suspend = b] # NoJob
               /\ \A b : [j EXCEPT !.deleting = b] # NoJob
    <2>1. /\ \A c : [j EXCEPT !.cond = c].ver = j.ver
          /\ \A b : [j EXCEPT !.suspend = b].ver = j.ver
          /\ \A b : [j EXCEPT !.deleting = b].ver = j.ver
      BY DEF Jobs
    <2>. QED BY <1>1, <1>2, <2>1
  <1>. QED BY <1>1, <1>2, <1>3

LEMMA TypeInvariant == Spec => []TypeInv
<1>1. Init => TypeInv
  <2>. SUFFICES ASSUME Init PROVE TypeInv
    OBVIOUS
  <2>1. rag \in Rags
    BY PhaseTypes DEF Init, Rags, Conds
  <2>2. jobs \in [JobPhases -> Jobs \cup {NoJob}] /\ ran \in [JobPhases -> Specs \cup {Never}]
    BY DEF Init
  <2>. QED BY <2>1, <2>2 DEF Init, TypeInv, PodsHaveJobs, TypeOK, Pvcs, RecStates
<1>2. TypeInv /\ [Next]_vars => TypeOK'
  <2>. SUFFICES ASSUME TypeOK, PodsHaveJobs, [Next]_vars PROVE TypeOK'
    BY DEF TypeInv
  <2>. USE DEF cluster, watches, views
  <2>1. ASSUME NEW next \in RecStates, Take(next) PROVE TypeOK'
    BY <2>1 DEF TypeOK, Take
  <2>2. CASE ReconcileLabel
    <3>1. [pc |-> "label", snap |-> ragView] \in RecStates
      BY DEF TypeOK, RecStates
    <3>. QED BY <2>1, <2>2, <3>1 DEF ReconcileLabel
  <2>3. CASE ReconcileUnset
    <3>1. [pc |-> "patch", snap |-> ragView, phase |-> InitPvc, cond |-> "needPvc"] \in RecStates
      BY PhaseTypes DEF TypeOK, RecStates, Conds
    <3>. QED BY <2>1, <2>3, <3>1 DEF ReconcileUnset
  <2>4. CASE ReconcileAdvance
    <3>1. ragView.phase + 1 \in Phases
      BY <2>4, PhaseTypes DEF ReconcileAdvance, Advances
    <3>2. [pc |-> "patch", snap |-> ragView, phase |-> ragView.phase + 1,
           cond |-> Opened(ragView.phase + 1)] \in RecStates
      BY <3>1 DEF TypeOK, RecStates, Conds, Opened
    <3>. QED BY <2>1, <2>4, <3>2 DEF ReconcileAdvance
  <2>5. CASE ReconcilePvc
    <3>1. [pc |-> "pvc", snap |-> ragView] \in RecStates
      BY DEF TypeOK, RecStates
    <3>. QED BY <2>1, <2>5, <3>1 DEF ReconcilePvc
  <2>6. CASE ReconcileJob
    <3>1. ragView.phase \in JobPhases
      BY <2>6, PhaseTypes DEF ReconcileJob, Works
    <3>2. [pc |-> "job", snap |-> ragView] \in RecStates
      BY <3>1 DEF TypeOK, RecStates
    <3>. QED BY <2>1, <2>6, <3>2 DEF ReconcileJob
  <2>7. CASE ReconcileComplete
    BY <2>1, <2>7 DEF ReconcileComplete, RecStates
  <2>8. CASE UpdateLabel
    <3>1. ASSUME rag = rec.snap PROVE [rag EXCEPT !.label = rag.app] \in Rags
      BY DEF TypeOK, Rags
    <3>2. rag' \in Rags /\ ragWatch' \in Seq(Rags)
      BY <2>8, <3>1, StoreRagType DEF UpdateLabel, TypeOK
    <3>. QED BY <2>8, <3>2 DEF UpdateLabel, Retry, TypeOK, RecStates
  <2>9. CASE PatchRag
    <3>1. rec.snap \in Rags /\ rec.phase \in Phases /\ rec.cond \in Conds
      BY <2>9 DEF PatchRag, TypeOK, RecStates, Idle
    <3>2. rag' \in Rags /\ ragWatch' \in Seq(Rags)
      BY <2>9, <3>1, PatchType, StoreRagType DEF PatchRag, TypeOK
    <3>. QED BY <2>9, <3>2 DEF PatchRag, TypeOK, RecStates
  <2>10. CASE CreatePvc
    <3>1. rec' \in RecStates
      <4>1. rec.snap \in Rags
        BY <2>10 DEF CreatePvc, TypeOK, RecStates, Idle
      <4>. QED BY <2>10, <4>1, PhaseTypes DEF CreatePvc, Plan, RecStates, Conds
    <3>2. pvc' \in Pvcs /\ pvcWatch' \in Seq(Pvcs)
      BY <2>10, StorePvcType DEF CreatePvc, TypeOK, Pvcs
    <3>3. used' \in [edits: Nat, faults: Nat, failures: Nat, crashes: Nat]
      BY <2>10, FaultType DEF CreatePvc
    <3>. QED BY <2>10, <3>1, <3>2, <3>3 DEF CreatePvc, TypeOK
  <2>11. CASE FoundPvc
    <3>1. rec' \in RecStates
      <4>1. rec.snap \in Rags
        BY <2>11 DEF FoundPvc, TypeOK, RecStates, Idle
      <4>. QED BY <2>11, <4>1, PhaseTypes DEF FoundPvc, Plan, Retry, RecStates, Conds
    <3>. QED BY <2>11, <3>1 DEF FoundPvc, Retry, TypeOK
  <2>12. ASSUME rec.pc = "job"
         PROVE  rec.snap \in Rags /\ rec.snap.phase \in JobPhases /\ rec.snap.phase \in Phases
    BY <2>12, PhaseTypes DEF TypeOK, RecStates, Idle
  <2>13. CASE CreateJob
    <3>1. rec.pc = "job"
      BY <2>13 DEF CreateJob
    <3>2. [ver |-> SpecOf(rec.snap), suspend |-> rec.snap.suspend,
           cond |-> "none", deleting |-> FALSE] \in Jobs
      BY <3>1, <2>12 DEF Jobs, Rags, Specs, SpecOf
    <3>3. /\ jobs' \in [JobPhases -> Jobs \cup {NoJob}]
          /\ jobWatch' \in Seq(JobPhases \X (Jobs \cup {NoJob}))
      BY <2>13, <3>1, <3>2, <2>12, StoreJobType DEF CreateJob, TypeOK, PhaseJobName
    <3>4. rec' \in RecStates
      BY <2>13, <3>1, <2>12 DEF CreateJob, Plan, RecStates, Conds
    <3>5. used' \in [edits: Nat, faults: Nat, failures: Nat, crashes: Nat]
      BY <2>13, FaultType DEF CreateJob
    <3>. QED BY <2>13, <3>3, <3>4, <3>5 DEF CreateJob, TypeOK
  <2>14. CASE SuspendJob
    <3>1. rec.pc = "job"
      BY <2>14 DEF SuspendJob
    <3>2. rec.snap.suspend \in BOOLEAN
      BY <3>1, <2>12 DEF Rags
    <3>3. jobView[rec.snap.phase] \in Jobs \cup {NoJob}
      BY <3>1, <2>12 DEF TypeOK
    <3>4. jobView[rec.snap.phase] # NoJob =>
            [jobView[rec.snap.phase] EXCEPT !.suspend = rec.snap.suspend] \in Jobs
      BY <3>2, <3>3, JobEdits
    <3>5. /\ jobs' \in [JobPhases -> Jobs \cup {NoJob}]
          /\ jobWatch' \in Seq(JobPhases \X (Jobs \cup {NoJob}))
      BY <2>14, <3>1, <3>4, <2>12, StoreJobType DEF SuspendJob, TypeOK, PhaseJobName
    <3>. QED BY <2>14, <3>5 DEF SuspendJob, Retry, TypeOK, RecStates
  <2>15. CASE FoundJob
    BY <2>15 DEF FoundJob, NotDone, Retry, TypeOK, RecStates
  <2>16. CASE ReconcileFails
    <3>1. used' \in [edits: Nat, faults: Nat, failures: Nat, crashes: Nat]
      BY <2>16, FaultType DEF ReconcileFails
    <3>. QED BY <2>16, <3>1 DEF ReconcileFails, Retry, TypeOK, RecStates
  <2>17. CASE DeliverRag
    <3>1. Head(ragWatch) \in Rags /\ Tail(ragWatch) \in Seq(Rags)
      BY <2>17, HeadTailType DEF DeliverRag, TypeOK
    <3>2. ragView' \in Rags /\ ragWatch' \in Seq(Rags) /\ queued' \in BOOLEAN
      BY <2>17, <3>1 DEF DeliverRag, TypeOK
    <3>3. resetter' = resetter \/ resetter' = [pc |-> "list", snap |-> Head(ragWatch)]
      BY <2>17 DEF DeliverRag
    <3>4. [pc |-> "list", snap |-> Head(ragWatch)] \in [pc: {"list", "patch"}, snap: Rags]
      BY <3>1
    <3>. QED BY <2>17, <3>2, <3>3, <3>4 DEF DeliverRag, TypeOK
  <2>18. CASE ListJobs
    <3>1. resetter.snap \in Rags
      BY <2>18 DEF ListJobs, TypeOK, Idle
    <3>. QED BY <2>18, <3>1 DEF ListJobs, TypeOK
  <2>19. ASSUME NEW p \in JobPhases, DeleteJob(p) PROVE TypeOK'
    <3>1. jobs[p] # NoJob => [jobs[p] EXCEPT !.deleting = TRUE] \in Jobs
      BY JobEdits DEF TypeOK
    <3>2. /\ jobs' \in [JobPhases -> Jobs \cup {NoJob}]
          /\ jobWatch' \in Seq(JobPhases \X (Jobs \cup {NoJob}))
      BY <2>19, <3>1, StoreJobType DEF DeleteJob, TypeOK
    <3>3. resetter \in [pc: {"jobs"}, snap: Rags, todo: SUBSET JobPhases]
      BY <2>19 DEF DeleteJob, TypeOK, Idle
    <3>4. resetter' \in [pc: {"jobs"}, snap: Rags, todo: SUBSET JobPhases]
      BY <2>19, <3>3 DEF DeleteJob
    <3>. QED BY <2>19, <3>2, <3>4 DEF DeleteJob, TypeOK
  <2>20. CASE DeletePvc
    <3>1. resetter.snap \in Rags
      BY <2>20 DEF DeletePvc, TypeOK, Idle
    <3>2. pvc' \in Pvcs /\ pvcWatch' \in Seq(Pvcs)
      BY <2>20, StorePvcType DEF DeletePvc, TypeOK, Pvcs
    <3>. QED BY <2>20, <3>1, <3>2 DEF DeletePvc, TypeOK
  <2>21. CASE ResetStatus
    <3>1. resetter.snap \in Rags
      BY <2>21 DEF ResetStatus, TypeOK, Idle
    <3>2. rag' \in Rags /\ ragWatch' \in Seq(Rags)
      BY <2>21, <3>1, PhaseTypes, PatchType, StoreRagType DEF ResetStatus, TypeOK, Conds
    <3>. QED BY <2>21, <3>2 DEF ResetStatus, TypeOK
  <2>22. CASE ResetFails
    <3>1. used' \in [edits: Nat, faults: Nat, failures: Nat, crashes: Nat]
      BY <2>22, FaultType DEF ResetFails
    <3>. QED BY <2>22, <3>1 DEF ResetFails, TypeOK
  <2>23. CASE DeliverJob
    <3>1. /\ Head(jobWatch) \in JobPhases \X (Jobs \cup {NoJob})
          /\ jobWatch' \in Seq(JobPhases \X (Jobs \cup {NoJob}))
      BY <2>23, HeadTailType DEF DeliverJob, TypeOK
    <3>2. PICK p \in JobPhases, j \in Jobs \cup {NoJob} :
                p = Head(jobWatch)[1] /\ j = Head(jobWatch)[2]
      BY <3>1
    <3>3. /\ jobView' = [jobView EXCEPT ![p] = j]
          /\ jobH' = IF /\ j # NoJob /\ jobView[p] # NoJob
                        /\ j.cond # jobView[p].cond /\ j.cond # "none"
                     THEN [pc |-> "patch", snap |-> ragView, cond |-> j.cond]
                     ELSE Idle
      BY <2>23, <3>2 DEF DeliverJob
    <3>4. jobView' \in [JobPhases -> Jobs \cup {NoJob}]
      BY <3>3 DEF TypeOK
    <3>5. j # NoJob /\ j.cond # "none" => j.cond \in JobConds
      BY DEF Jobs
    <3>6. jobH' \in {Idle} \cup [pc: {"patch"}, snap: Rags, cond: JobConds]
      BY <3>3, <3>5 DEF TypeOK
    <3>. QED BY <2>23, <3>1, <3>4, <3>6 DEF DeliverJob, TypeOK
  <2>24. CASE WhenJobChanged
    <3>1. jobH.snap \in Rags /\ jobH.snap.phase \in Phases /\ jobH.cond \in Conds
      BY <2>24 DEF WhenJobChanged, TypeOK, Rags, Conds
    <3>2. rag' \in Rags /\ ragWatch' \in Seq(Rags)
      BY <2>24, <3>1, PatchType, StoreRagType DEF WhenJobChanged, TypeOK
    <3>3. used' \in [edits: Nat, faults: Nat, failures: Nat, crashes: Nat]
      BY <2>24, FaultType DEF WhenJobChanged
    <3>. QED BY <2>24, <3>2, <3>3 DEF WhenJobChanged, TypeOK
  <2>25. CASE DeliverPvc
    <3>1. Head(pvcWatch) \in Pvcs /\ Tail(pvcWatch) \in Seq(Pvcs)
      BY <2>25, HeadTailType DEF DeliverPvc, TypeOK
    <3>. QED BY <2>25, <3>1 DEF DeliverPvc, TypeOK
  <2>26. CASE WhenPVCDeleted
    <3>1. pvcH.snap \in Rags
      BY <2>26 DEF WhenPVCDeleted, TypeOK
    <3>2. rag' \in Rags /\ ragWatch' \in Seq(Rags)
      BY <2>26, <3>1, PhaseTypes, PatchType, StoreRagType DEF WhenPVCDeleted, TypeOK, Conds
    <3>3. used' \in [edits: Nat, faults: Nat, failures: Nat, crashes: Nat]
      BY <2>26, FaultType DEF WhenPVCDeleted
    <3>. QED BY <2>26, <3>2, <3>3 DEF WhenPVCDeleted, TypeOK
  <2>27. ASSUME NEW p \in JobPhases, PodStarts(p) PROVE TypeOK'
    BY <2>27 DEF PodStarts, TypeOK
  <2>28. ASSUME NEW p \in JobPhases, jobs[p] # NoJob,
                NEW c \in JobConds, JobCondition(p, c),
                pods' \in SUBSET JobPhases,
                ran' \in [JobPhases -> Specs \cup {Never}],
                used' \in [edits: Nat, faults: Nat, failures: Nat, crashes: Nat]
         PROVE  TypeOK'
    <3>1. [jobs[p] EXCEPT !.cond = c] \in Jobs
      BY <2>28, JobEdits DEF TypeOK
    <3>2. /\ jobs' \in [JobPhases -> Jobs \cup {NoJob}]
          /\ jobWatch' \in Seq(JobPhases \X (Jobs \cup {NoJob}))
      BY <2>28, <3>1, StoreJobType DEF JobCondition
    <3>. QED BY <2>28, <3>2 DEF JobCondition, TypeOK
  <2>29. ASSUME NEW p \in JobPhases, JobCompletes(p) PROVE TypeOK'
    <3>1. jobs[p] # NoJob /\ jobs[p] \in Jobs
      BY <2>29 DEF JobCompletes, JobEnds, PodsHaveJobs, TypeOK
    <3>2. ran' \in [JobPhases -> Specs \cup {Never}]
      BY <2>29, <3>1 DEF JobCompletes, TypeOK, Jobs
    <3>. QED BY <2>28, <2>29, <3>1, <3>2 DEF JobCompletes, JobEnds, TypeOK, JobConds
  <2>30. ASSUME NEW p \in JobPhases, JobFails(p) PROVE TypeOK'
    <3>1. jobs[p] # NoJob
      BY <2>30 DEF JobFails, JobEnds, PodsHaveJobs
    <3>2. used' \in [edits: Nat, faults: Nat, failures: Nat, crashes: Nat]
      BY <2>30 DEF JobFails, TypeOK
    <3>. QED BY <2>28, <2>30, <3>1, <3>2 DEF JobFails, JobEnds, TypeOK, JobConds
  <2>31. ASSUME NEW p \in JobPhases, JobSuspends(p) \/ JobResumes(p) PROVE TypeOK'
    BY <2>28, <2>31 DEF JobSuspends, JobResumes, Unfinished, TypeOK, JobConds
  <2>32. ASSUME NEW p \in JobPhases, JobCollected(p) PROVE TypeOK'
    <3>1. /\ jobs' \in [JobPhases -> Jobs \cup {NoJob}]
          /\ jobWatch' \in Seq(JobPhases \X (Jobs \cup {NoJob}))
      BY <2>32, StoreJobType DEF JobCollected
    <3>. QED BY <2>32, <3>1 DEF JobCollected, TypeOK
  <2>33. CASE PvcCollected
    <3>1. pvc' \in Pvcs /\ pvcWatch' \in Seq(Pvcs)
      BY <2>33, StorePvcType DEF PvcCollected, Pvcs
    <3>. QED BY <2>33, <3>1 DEF PvcCollected, TypeOK
  <2>34. ASSUME NEW r \in Rags, Edit(r) PROVE TypeOK'
    <3>1. rag' \in Rags /\ ragWatch' \in Seq(Rags)
      BY <2>34, StoreRagType DEF Edit
    <3>2. used' \in [edits: Nat, faults: Nat, failures: Nat, crashes: Nat]
      BY <2>34 DEF Edit, TypeOK
    <3>. QED BY <2>34, <3>1, <3>2 DEF Edit, TypeOK
  <2>35. CASE EditInputs
    <3>1. PICK a \in Apps, d \in Datasets : Edit([rag EXCEPT !.app = a, !.datasets = d])
      BY <2>35 DEF EditInputs
    <3>2. [rag EXCEPT !.app = a, !.datasets = d] \in Rags
      BY DEF TypeOK, Rags
    <3>. QED BY <2>34, <3>1, <3>2
  <2>36. CASE EditMetrics
    <3>1. PICK m \in Metrics : Edit([rag EXCEPT !.metrics = m])
      BY <2>36 DEF EditMetrics
    <3>2. [rag EXCEPT !.metrics = m] \in Rags
      BY DEF TypeOK, Rags
    <3>. QED BY <2>34, <3>1, <3>2
  <2>37. CASE EditSuspend
    <3>1. [rag EXCEPT !.suspend = ~rag.suspend] \in Rags
      BY DEF TypeOK, Rags
    <3>. QED BY <2>34, <2>37, <3>1 DEF EditSuspend
  <2>38. CASE RemovePvc
    <3>1. pvc' \in Pvcs /\ pvcWatch' \in Seq(Pvcs)
      BY <2>38, StorePvcType DEF RemovePvc, Pvcs
    <3>2. used' \in [edits: Nat, faults: Nat, failures: Nat, crashes: Nat]
      BY <2>38 DEF RemovePvc, TypeOK
    <3>. QED BY <2>38, <3>1, <3>2 DEF RemovePvc, TypeOK
  <2>39. CASE Crash
    <3>1. used' \in [edits: Nat, faults: Nat, failures: Nat, crashes: Nat]
      BY <2>39 DEF Crash, TypeOK
    <3>2. ragWatch' \in Seq(Rags) /\ pvcWatch' \in Seq(Pvcs)
      BY <2>39 DEF Crash
    <3>3. jobWatch' \in Seq(JobPhases \X (Jobs \cup {NoJob}))
      BY <2>39 DEF Crash
    <3>4. rec' \in RecStates
      BY <2>39 DEF Crash, RecStates
    <3>. QED BY <2>39, <3>1, <3>2, <3>3, <3>4 DEF Crash, TypeOK
  <2>40. CASE Restart
    BY <2>40 DEF Restart, TypeOK
  <2>41. CASE UNCHANGED vars
    BY <2>41 DEF vars, TypeOK
  <2>. QED
    BY <2>2, <2>3, <2>4, <2>5, <2>6, <2>7, <2>8, <2>9, <2>10, <2>11, <2>13, <2>14, <2>15,
       <2>16, <2>17, <2>18, <2>19, <2>20, <2>21, <2>22, <2>23, <2>24, <2>25, <2>26, <2>27,
       <2>29, <2>30, <2>31, <2>32, <2>33, <2>35, <2>36, <2>37, <2>38, <2>39, <2>40, <2>41
    DEF Next, ReconcileStep, ResetStep, Watchers, Cluster, User
<1>3. TypeInv /\ [Next]_vars => PodsHaveJobs'
  <2>. SUFFICES ASSUME TypeOK, PodsHaveJobs, [Next]_vars PROVE PodsHaveJobs'
    BY DEF TypeInv
  <2>. USE DEF cluster, watches, views
  <2>1. ASSUME NEW p \in JobPhases, NEW j, StoreJob(p, j), j # NoJob,
               pods' \subseteq pods
        PROVE  PodsHaveJobs'
    BY <2>1 DEF StoreJob, PodsHaveJobs, TypeOK
  <2>2. ASSUME UNCHANGED jobs, pods' \subseteq pods \cup {q \in JobPhases : jobs[q] # NoJob}
        PROVE  PodsHaveJobs'
    BY <2>2 DEF PodsHaveJobs
  <2>3. ASSUME NEW p \in JobPhases, NEW c, JobCondition(p, c), jobs[p] # NoJob,
               pods' \subseteq pods
        PROVE  PodsHaveJobs'
    <3>1. [jobs[p] EXCEPT !.cond = c] # NoJob
      BY <2>3, JobNotNone DEF TypeOK
    <3>. QED BY <2>1, <2>3, <3>1 DEF JobCondition
  <2>4. CASE ReconcileStep
    <3>1. CASE CreateJob
      <4>1. rec.pc = "job"
        BY <3>1 DEF CreateJob
      <4>2. rec.snap \in Rags /\ rec.snap.phase \in JobPhases
        BY <4>1 DEF TypeOK, RecStates, Idle
      <4>3. [ver |-> SpecOf(rec.snap), suspend |-> rec.snap.suspend,
             cond |-> "none", deleting |-> FALSE] # NoJob
        BY <4>2 DEF NoJob, Never, SpecOf
      <4>. QED BY <2>1, <2>2, <3>1, <4>2, <4>3 DEF CreateJob, PhaseJobName
    <3>2. CASE SuspendJob
      <4>1. rec.pc = "job"
        BY <3>2 DEF SuspendJob
      <4>2. rec.snap \in Rags /\ rec.snap.phase \in JobPhases
        BY <4>1 DEF TypeOK, RecStates, Idle
      <4>3. jobView[rec.snap.phase] # NoJob =>
              [jobView[rec.snap.phase] EXCEPT !.suspend = rec.snap.suspend] # NoJob
        BY <4>2, JobNotNone DEF TypeOK
      <4>. QED BY <2>1, <2>2, <3>2, <4>2, <4>3 DEF SuspendJob, PhaseJobName
    <3>3. ASSUME NEW next, Take(next) PROVE PodsHaveJobs'
      BY <2>2, <3>3 DEF Take
    <3>. QED
      BY <2>2, <2>4, <3>1, <3>2, <3>3
      DEF ReconcileStep, ReconcileLabel, ReconcileUnset, ReconcileAdvance, ReconcilePvc,
          ReconcileJob, ReconcileComplete, UpdateLabel, PatchRag, CreatePvc, FoundPvc, FoundJob
  <2>5. CASE ReconcileFails
    BY <2>2, <2>5 DEF ReconcileFails
  <2>6. CASE Watchers
    <3>1. ASSUME NEW p \in JobPhases, DeleteJob(p) PROVE PodsHaveJobs'
      <4>1. jobs[p] # NoJob => [jobs[p] EXCEPT !.deleting = TRUE] # NoJob
        BY JobNotNone DEF TypeOK
      <4>. QED BY <2>1, <2>2, <3>1, <4>1 DEF DeleteJob
    <3>. QED
      BY <2>2, <2>6, <3>1
      DEF Watchers, ResetStep, DeliverRag, ListJobs, DeletePvc, ResetStatus, ResetFails,
          DeliverJob, WhenJobChanged, DeliverPvc, WhenPVCDeleted
  <2>7. CASE Cluster
    <3>1. ASSUME NEW p \in JobPhases, PodStarts(p) PROVE PodsHaveJobs'
      BY <2>2, <3>1 DEF PodStarts, Unfinished
    <3>2. ASSUME NEW p \in JobPhases, JobCompletes(p) \/ JobFails(p) PROVE PodsHaveJobs'
      BY <2>3, <3>2 DEF JobCompletes, JobFails, JobEnds, PodsHaveJobs
    <3>3. ASSUME NEW p \in JobPhases, JobSuspends(p) \/ JobResumes(p) PROVE PodsHaveJobs'
      BY <2>3, <3>3 DEF JobSuspends, JobResumes, Unfinished
    <3>4. ASSUME NEW p \in JobPhases, JobCollected(p) PROVE PodsHaveJobs'
      BY <3>4 DEF JobCollected, StoreJob, PodsHaveJobs, TypeOK
    <3>5. CASE PvcCollected
      BY <2>2, <3>5 DEF PvcCollected
    <3>. QED BY <2>7, <3>1, <3>2, <3>3, <3>4, <3>5 DEF Cluster
  <2>8. CASE User \/ Crash \/ Restart \/ UNCHANGED vars
    BY <2>2, <2>8
    DEF User, EditInputs, EditMetrics, EditSuspend, Edit, RemovePvc, Crash, Restart, vars
  <2>. QED BY <2>4, <2>5, <2>6, <2>7, <2>8 DEF Next
<1>. QED BY <1>1, <1>2, <1>3, PTL DEF Spec, TypeInv

\* Every variable of the RAG controller, of its watches and of the cluster
\* keeps its type, whatever the interleaving, the edits and the failures.
THEOREM TypeCorrect == Spec => []TypeOK
  BY TypeInvariant, PTL DEF TypeInv

-----------------------------------------------------------------------------
(***************************************************************************)
(* The inductive invariant behind the order of the phases. A reconcile     *)
(* patches a phase it computed from a cached RAG, so the stored phase must *)
(* be tied to the cached ones: the cache is at most one phase behind, the  *)
(* versions in the watch lie between the two and never go back.            *)
(***************************************************************************)

\* Nothing resets the evaluation: nobody removes the claim or the inputs.
NoReset ==
  /\ resetter = Idle /\ pvcH = Idle
  /\ pvc # "deleting" /\ pvcView # "deleting"
  /\ \A i \in DOMAIN pvcWatch : pvcWatch[i] = "present"

SameInputs ==
  /\ ~RAGSpecChanged(rag, ragView)
  /\ \A i \in DOMAIN ragWatch : ~RAGSpecChanged(ragWatch[i], ragView)

\* The cache and the watch trail the stored phase, by one phase at most.
PhasesSorted ==
  /\ ragView.phase <= rag.phase /\ rag.phase <= ragView.phase + 1
  /\ \A i \in DOMAIN ragWatch :
       ragView.phase <= ragWatch[i].phase /\ ragWatch[i].phase <= rag.phase
  /\ \A i, j \in DOMAIN ragWatch : i < j => ragWatch[i].phase <= ragWatch[j].phase
  /\ ~up => ragWatch = <<>>

\* So does the copy that a reconcile works on, until its patch is sent.
RecInPhase ==
  /\ rec # Idle =>
       /\ rec.snap.phase <= ragView.phase
       /\ rec.snap.phase <= rag.phase /\ rag.phase <= rec.snap.phase + 1
  /\ rec.pc = "pvc" => rec.snap.phase = InitPvc
  /\ rec.pc = "patch" => rec.phase \in {rec.snap.phase, rec.snap.phase + 1}

\* Past init_pvc, or with a condition that lets the evaluation past it.
PastInit(phase, cond) == phase > InitPvc \/ cond \in CompleteTrue

\* While the claim is not there, nothing under way takes the evaluation past
\* init_pvc and nothing tells the controller of a claim or a job.
VolumeFirst == pvc # "present" =>
  /\ ~PastInit(rag.phase, rag.cond) /\ ~PastInit(ragView.phase, ragView.cond)
  /\ \A i \in DOMAIN ragWatch : ~PastInit(ragWatch[i].phase, ragWatch[i].cond)
  /\ rec.pc # "job"
  /\ rec.pc = "patch" => ~PastInit(rec.phase, rec.cond)
  /\ jobWatch = <<>> /\ jobH = Idle
  /\ pvcView # "present" /\ pvcWatch = <<>>

OrderInv ==
  NoReset /\ SameInputs /\ PhasesSorted /\ RecInPhase /\ JobsInOrder /\ VolumeFirst

(* What a patch and a notification change. *)

LEMMA PatchFields ==
  ASSUME NEW r \in Rags, NEW b \in Rags, NEW ph \in Phases, NEW cd \in Conds
  PROVE  LET n == PatchStatus(r, b, ph, cd) IN
         /\ n.phase = IF ph = b.phase THEN r.phase ELSE ph
         /\ n.cond = r.cond \/ n.cond = cd
         /\ ~RAGSpecChanged(n, r)
  BY DEF PatchStatus, Rags, RAGSpecChanged

LEMMA NotifyEntries ==
  ASSUME NEW S, NEW w \in Seq(S), NEW x \in S, NEW i \in DOMAIN Notify(w, x)
  PROVE  \/ i \in DOMAIN w /\ Notify(w, x)[i] = w[i]
         \/ i = Len(w) + 1 /\ Notify(w, x)[i] = x
  BY DEF Notify

LEMMA TailEntries ==
  ASSUME NEW S, NEW w \in Seq(S), w # <<>>
  PROVE  /\ 1 \in DOMAIN w /\ Head(w) = w[1]
         /\ \A i \in DOMAIN Tail(w) :
              i \in Nat /\ i + 1 \in DOMAIN w /\ Tail(w)[i] = w[i + 1] /\ 1 < i + 1
  OBVIOUS

\* A stored RAG that moves the phase at most one step past the cache keeps the
\* watch sorted.
LEMMA StoreRagOrder ==
  ASSUME TypeOK, SameInputs, PhasesSorted, NEW r \in Rags, StoreRag(r), UNCHANGED <<ragView, up>>,
         ~RAGSpecChanged(r, rag),
         r.phase \in {rag.phase, rag.phase + 1}, r.phase <= ragView.phase + 1
  PROVE  SameInputs' /\ PhasesSorted'
  <1>1. rag' = r /\ (ragWatch' = ragWatch \/ ragWatch' = Notify(ragWatch, r))
    BY DEF StoreRag
  <1>2. \A i \in DOMAIN ragWatch' : \/ i \in DOMAIN ragWatch /\ ragWatch'[i] = ragWatch[i]
                                    \/ i = Len(ragWatch) + 1 /\ ragWatch'[i] = r
    BY <1>1, NotifyEntries DEF TypeOK
  <1>3. \A i \in DOMAIN ragWatch : i \in Nat /\ i <= Len(ragWatch) /\ ragWatch[i] \in Rags
    BY DEF TypeOK
  <1>4. \A x \in Rags : x.phase \in Nat
    BY NJobsAssumption DEF Rags, Phases
  <1>5. rag \in Rags /\ ragView \in Rags /\ Len(ragWatch) \in Nat
    BY DEF TypeOK
  <1>6. SameInputs'
    BY <1>1, <1>2 DEF SameInputs, RAGSpecChanged
  <1>7. PhasesSorted'
    <2>1. ~up => ragWatch' = <<>>
      BY <1>1 DEF PhasesSorted, Notify
    <2>. QED BY <1>1, <1>2, <1>3, <1>4, <1>5, <2>1 DEF PhasesSorted
  <1>. QED BY <1>6, <1>7

LEMMA StoreRagVolume ==
  ASSUME TypeOK, VolumeFirst, NEW r \in Rags, StoreRag(r), pvc # "present",
         ~PastInit(r.phase, r.cond)
  PROVE  /\ ~PastInit(rag'.phase, rag'.cond)
         /\ \A i \in DOMAIN ragWatch' : ~PastInit(ragWatch'[i].phase, ragWatch'[i].cond)
  <1>1. rag' = r /\ (ragWatch' = ragWatch \/ ragWatch' = Notify(ragWatch, r))
    BY DEF StoreRag
  <1>2. \A i \in DOMAIN ragWatch' : \/ i \in DOMAIN ragWatch /\ ragWatch'[i] = ragWatch[i]
                                    \/ ragWatch'[i] = r
    BY <1>1, NotifyEntries DEF TypeOK
  <1>. QED BY <1>1, <1>2 DEF VolumeFirst

(* Each step keeps the invariant. *)

\* No step takes the phase back, or past the next one.
PhaseKept == rag'.phase \in {rag.phase, rag.phase + 1}

\* Steps that leave the RAG and its watch alone.
LEMMA NoRagStep ==
  ASSUME OrderInv, TypeOK, UNCHANGED <<rag, ragWatch, ragView, up>>
  PROVE  SameInputs' /\ PhasesSorted' /\ PhaseKept
  BY DEF OrderInv, SameInputs, PhasesSorted, PhaseKept

\* Reconcile reads the cache and plans.
LEMMA TakeOrder ==
  ASSUME OrderInv, TypeOK, NEW next, Take(next),
         next = Idle \/ next.snap = ragView,
         next.pc = "pvc" => ragView.phase = InitPvc,
         next.pc = "job" => ragView.phase \in JobPhases,
         next.pc = "patch" => /\ next.phase \in {ragView.phase, ragView.phase + 1}
                              /\ PastInit(next.phase, next.cond) =>
                                   PastInit(ragView.phase, ragView.cond)
  PROVE  OrderInv' /\ PhaseKept
  <1>. USE DEF Take, cluster, watches, views
  <1>1. SameInputs' /\ PhasesSorted' /\ PhaseKept
    BY NoRagStep
  <1>2. NoReset' /\ JobsInOrder'
    BY DEF OrderInv, NoReset, JobsInOrder
  <1>3. ragView.phase \in Nat
    BY NJobsAssumption DEF TypeOK, Rags, Phases
  <1>4. RecInPhase'
    BY <1>3 DEF OrderInv, PhasesSorted, RecInPhase
  <1>5. ASSUME next.pc = "job" PROVE PastInit(ragView.phase, ragView.cond)
    BY <1>5 DEF PastInit, JobPhases, InitPvc
  <1>6. VolumeFirst'
    BY <1>5 DEF OrderInv, VolumeFirst
  <1>. QED BY <1>1, <1>2, <1>4, <1>6 DEF OrderInv

LEMMA ReconcileOrder ==
  ASSUME OrderInv, TypeOK,
         \/ ReconcileLabel \/ ReconcileUnset \/ ReconcileAdvance \/ ReconcilePvc
         \/ ReconcileJob \/ ReconcileComplete
  PROVE  OrderInv' /\ PhaseKept
  <1>1. ragView.phase \in Nat
    BY NJobsAssumption DEF TypeOK, Rags, Phases
  <1>2. CASE ReconcileLabel
    BY <1>2, TakeOrder DEF ReconcileLabel
  <1>3. CASE ReconcileUnset
    <2>1. ~PastInit(InitPvc, "needPvc") /\ InitPvc = ragView.phase + 1
      BY <1>3 DEF PastInit, InitPvc, CompleteTrue, ReconcileUnset, Unset
    <2>. QED BY <1>3, <2>1, TakeOrder DEF ReconcileUnset
  <1>4. CASE ReconcileAdvance
    <2>1. PastInit(ragView.phase, ragView.cond)
      BY <1>4 DEF ReconcileAdvance, Advances, PastInit
    <2>. QED BY <1>4, <2>1, TakeOrder DEF ReconcileAdvance
  <1>5. CASE ReconcilePvc
    BY <1>5, TakeOrder DEF ReconcilePvc
  <1>6. CASE ReconcileJob
    <2>1. ragView.phase \in JobPhases
      BY <1>6, PhaseTypes DEF ReconcileJob, Works
    <2>. QED BY <1>6, <2>1, TakeOrder DEF ReconcileJob
  <1>7. CASE ReconcileComplete
    BY <1>7, TakeOrder DEF ReconcileComplete, Idle
  <1>. QED BY <1>2, <1>3, <1>4, <1>5, <1>6, <1>7

\* The RAG is stored again: by the reconcile, by WhenJobChanged, by a user.
LEMMA StoreOrder ==
  ASSUME OrderInv, TypeOK, NEW r \in Rags, StoreRag(r),
         UNCHANGED <<pvc, pvcView, pvcWatch, jobs, jobWatch, ragView, up, resetter, pvcH>>,
         ~RAGSpecChanged(r, rag),
         r.phase \in {rag.phase, rag.phase + 1}, r.phase <= ragView.phase + 1,
         (rec' = rec /\ r.phase = rag.phase) \/ rec' = Idle,
         pvc # "present" => ~PastInit(r.phase, r.cond),
         jobH' \in {jobH, Idle}
  PROVE  OrderInv' /\ PhaseKept
  <1>1. SameInputs' /\ PhasesSorted'
    BY StoreRagOrder DEF OrderInv
  <1>2. rag' = r /\ PhaseKept
    BY DEF StoreRag, PhaseKept
  <1>3. rag.phase \in Nat
    BY NJobsAssumption DEF TypeOK, Rags, Phases
  <1>4. NoReset'
    BY DEF OrderInv, NoReset
  <1>5. RecInPhase'
    BY <1>2 DEF OrderInv, RecInPhase, Idle
  <1>6. JobsInOrder'
    <2>1. \A p \in JobPhases : p \in Nat
      BY NJobsAssumption DEF JobPhases
    <2>. QED BY <1>2, <1>3, <2>1 DEF OrderInv, JobsInOrder
  <1>7. VolumeFirst'
    <2>. SUFFICES ASSUME pvc # "present" PROVE VolumeFirst'
      BY DEF VolumeFirst
    <2>1. /\ ~PastInit(rag'.phase, rag'.cond)
          /\ \A i \in DOMAIN ragWatch' : ~PastInit(ragWatch'[i].phase, ragWatch'[i].cond)
      BY StoreRagVolume DEF OrderInv
    <2>. QED BY <2>1 DEF OrderInv, VolumeFirst, Idle
  <1>. QED BY <1>1, <1>2, <1>4, <1>5, <1>6, <1>7 DEF OrderInv

LEMMA RagStoredOrder ==
  ASSUME OrderInv, TypeOK,
         \/ UpdateLabel \/ PatchRag \/ WhenJobChanged \/ EditMetrics \/ EditSuspend
  PROVE  OrderInv' /\ PhaseKept
  <1>. USE DEF cluster, watches, views
  <1>0. /\ rag \in Rags /\ rag.phase \in Nat /\ ragView.phase \in Nat
        /\ rag.phase <= ragView.phase + 1
        /\ pvc # "present" => ~PastInit(rag.phase, rag.cond)
    BY NJobsAssumption DEF TypeOK, Rags, Phases, OrderInv, PhasesSorted, VolumeFirst
  <1>1. CASE UpdateLabel
    <2>1. CASE rag = rec.snap /\ StoreRag([rag EXCEPT !.label = rag.app]) /\ rec' = Idle
      <3>1. /\ [rag EXCEPT !.label = rag.app] \in Rags
            /\ [rag EXCEPT !.label = rag.app].phase = rag.phase
            /\ [rag EXCEPT !.label = rag.app].cond = rag.cond
            /\ ~RAGSpecChanged([rag EXCEPT !.label = rag.app], rag)
        BY DEF TypeOK, Rags, RAGSpecChanged
      <3>. QED BY <1>0, <1>1, <2>1, <3>1, StoreOrder DEF UpdateLabel
    <2>2. CASE rag # rec.snap /\ Retry /\ UNCHANGED <<rag, ragWatch>>
      <3>1. UNCHANGED <<rag, pvc, jobs, ragWatch, pvcWatch, jobWatch, ragView, pvcView,
                        up, resetter, jobH, pvcH>> /\ rec' = Idle
        BY <1>1, <2>2 DEF UpdateLabel, Retry
      <3>. QED BY <3>1, NoRagStep
           DEF OrderInv, NoReset, JobsInOrder, RecInPhase, VolumeFirst, Idle
    <2>. QED BY <1>1, <2>1, <2>2 DEF UpdateLabel
  <1>2. CASE PatchRag
    <2>1. /\ rec.snap \in Rags /\ rec.phase \in Phases /\ rec.cond \in Conds
          /\ rec.pc = "patch" /\ rec # Idle
      BY <1>2 DEF PatchRag, TypeOK, RecStates, Idle
    <2>2. rec.snap.phase \in Nat
      BY <2>1, NJobsAssumption DEF Rags, Phases
    <2>. DEFINE r == PatchStatus(rag, rec.snap, rec.phase, rec.cond)
    <2>3. /\ r \in Rags /\ ~RAGSpecChanged(r, rag)
          /\ r.phase = IF rec.phase = rec.snap.phase THEN rag.phase ELSE rec.phase
          /\ r.cond = rag.cond \/ r.cond = rec.cond
      <3>1. r \in Rags
        BY <1>0, <2>1, PatchType
      <3>. QED BY <1>0, <2>1, <3>1, PatchFields
    <2>4. r.phase \in {rag.phase, rag.phase + 1} /\ r.phase <= ragView.phase + 1
      BY <1>0, <2>1, <2>2, <2>3 DEF OrderInv, RecInPhase
    <2>5. pvc # "present" => ~PastInit(r.phase, r.cond)
      BY <1>0, <2>1, <2>3 DEF OrderInv, VolumeFirst, PastInit
    <2>. HIDE DEF r
    <2>6. StoreRag(r)
      BY <1>2 DEF PatchRag, r
    <2>. QED BY <1>2, <2>3, <2>4, <2>5, <2>6, StoreOrder DEF PatchRag
  <1>3. CASE WhenJobChanged
    <2>1. /\ jobH.snap \in Rags /\ jobH.snap.phase \in Phases /\ jobH.cond \in Conds
          /\ pvc = "present"
      BY <1>3 DEF WhenJobChanged, TypeOK, Rags, Conds, OrderInv, VolumeFirst
    <2>. DEFINE r == PatchStatus(rag, jobH.snap, jobH.snap.phase, jobH.cond)
    <2>2. r \in Rags /\ ~RAGSpecChanged(r, rag) /\ r.phase = rag.phase
      BY <1>0, <2>1, PatchType, PatchFields
    <2>. HIDE DEF r
    <2>3. CASE StoreRag(r)
      BY <1>0, <1>3, <2>1, <2>2, <2>3, StoreOrder DEF WhenJobChanged
    <2>4. CASE UNCHANGED <<rag, ragWatch>>
      <3>1. UNCHANGED <<rag, pvc, jobs, ragWatch, pvcWatch, jobWatch, ragView, pvcView,
                        up, resetter, rec, pvcH>>
        BY <1>3, <2>4 DEF WhenJobChanged
      <3>. QED BY <2>1, <3>1, NoRagStep
           DEF OrderInv, NoReset, JobsInOrder, RecInPhase, VolumeFirst
    <2>. QED BY <1>3, <2>3, <2>4 DEF WhenJobChanged, r
  <1>4. ASSUME NEW r \in Rags, Edit(r), ~RAGSpecChanged(r, rag),
               r.phase = rag.phase, r.cond = rag.cond
        PROVE  OrderInv' /\ PhaseKept
    BY <1>0, <1>4, StoreOrder DEF Edit
  <1>5. CASE EditMetrics
    <2>1. PICK m \in Metrics : Edit([rag EXCEPT !.metrics = m])
      BY <1>5 DEF EditMetrics
    <2>. DEFINE r == [rag EXCEPT !.metrics = m]
    <2>2. r \in Rags /\ ~RAGSpecChanged(r, rag) /\ r.phase = rag.phase /\ r.cond = rag.cond
      BY <1>0 DEF Rags, RAGSpecChanged
    <2>. QED BY <1>4, <2>1, <2>2
  <1>6. CASE EditSuspend
    <2>. DEFINE r == [rag EXCEPT !.suspend = ~rag.suspend]
    <2>2. r \in Rags /\ ~RAGSpecChanged(r, rag) /\ r.phase = rag.phase /\ r.cond = rag.cond
      BY <1>0 DEF Rags, RAGSpecChanged
    <2>. QED BY <1>4, <1>6, <2>2 DEF EditSuspend
  <1>. QED BY <1>1, <1>2, <1>3, <1>5, <1>6

\* The calls of a reconcile other than on the RAG.
LEMMA CallOrder ==
  ASSUME OrderInv, TypeOK,
         CreatePvc \/ FoundPvc \/ CreateJob \/ SuspendJob \/ FoundJob \/ ReconcileFails
  PROVE  OrderInv' /\ PhaseKept
  <1>. USE DEF cluster, watches, views
  <1>0. UNCHANGED <<rag, ragWatch, ragView, up, resetter, jobH, pvcH, pvcView>>
    BY DEF CreatePvc, FoundPvc, CreateJob, SuspendJob, FoundJob, ReconcileFails
  <1>1. SameInputs' /\ PhasesSorted' /\ PhaseKept
    BY <1>0, NoRagStep
  <1>2. rec.pc = "job" => /\ rec.snap \in Rags /\ rec.snap.phase \in JobPhases
                          /\ rec.snap.phase \in Nat /\ pvc = "present"
    BY PhaseTypes, NJobsAssumption DEF TypeOK, RecStates, Idle, JobPhases, OrderInv, VolumeFirst
  <1>3. rec # Idle
    BY DEF CreatePvc, FoundPvc, CreateJob, SuspendJob, FoundJob, ReconcileFails, Idle
  <1>4. rec' = Idle \/ \E c : rec' = Plan(rec.snap.phase, c)
    BY <1>3 DEF CreatePvc, FoundPvc, CreateJob, SuspendJob, FoundJob, ReconcileFails, Retry,
       NotDone, PhaseJobName, OrderInv, RecInPhase
  <1>5. RecInPhase'
    BY <1>0, <1>3, <1>4 DEF OrderInv, RecInPhase, Plan, Idle
  <1>6. NoReset'
    <2>1. CASE UNCHANGED <<pvc, pvcWatch>>
      BY <1>0, <2>1 DEF OrderInv, NoReset
    <2>2. CASE StorePvc("present")
      <3>1. pvc' = "present" /\ pvcWatch' = Notify(pvcWatch, "present")
        BY <2>2 DEF StorePvc
      <3>2. \A i \in DOMAIN pvcWatch' : pvcWatch'[i] = "present"
        BY <3>1, NotifyEntries DEF TypeOK, Pvcs, OrderInv, NoReset
      <3>. QED BY <1>0, <3>1, <3>2 DEF OrderInv, NoReset
    <2>. QED
      BY <2>1, <2>2
      DEF CreatePvc, FoundPvc, CreateJob, SuspendJob, FoundJob, ReconcileFails, Retry
  <1>7. JobsInOrder'
    <2>1. ASSUME NEW j, StoreJob(rec.snap.phase, j), rec.pc = "job" PROVE JobsInOrder'
      BY <1>0, <1>2, <1>3, <2>1 DEF OrderInv, RecInPhase, JobsInOrder, StoreJob, TypeOK
    <2>2. CASE UNCHANGED jobs
      BY <1>0, <2>2 DEF OrderInv, JobsInOrder
    <2>. QED
      BY <2>1, <2>2
      DEF CreatePvc, FoundPvc, CreateJob, SuspendJob, FoundJob, ReconcileFails, PhaseJobName
  <1>8. VolumeFirst'
    <2>. SUFFICES ASSUME pvc' # "present" PROVE VolumeFirst'
      BY DEF VolumeFirst
    <2>1. pvc # "present" /\ UNCHANGED <<pvc, pvcWatch>> /\ rec.pc # "job"
      BY <1>2, <1>6 DEF CreatePvc, FoundPvc, CreateJob, SuspendJob, FoundJob, ReconcileFails,
         StorePvc
    <2>2. UNCHANGED jobWatch
      BY <2>1 DEF CreatePvc, FoundPvc, CreateJob, SuspendJob, FoundJob, ReconcileFails
    <2>3. rec' = Idle \/ rec' = Plan(InitPvc, "pvcFailed")
      BY <2>1 DEF CreatePvc, FoundPvc, CreateJob, SuspendJob, FoundJob, ReconcileFails,
         Retry, StorePvc, OrderInv, VolumeFirst
    <2>4. ~PastInit(InitPvc, "pvcFailed")
      BY DEF PastInit, InitPvc, CompleteTrue
    <2>. QED BY <1>0, <2>1, <2>2, <2>3, <2>4 DEF OrderInv, VolumeFirst, Plan, Idle
  <1>. QED BY <1>1, <1>5, <1>6, <1>7, <1>8 DEF OrderInv

\* The informers store what their watches bring.
LEMMA DeliverOrder ==
  ASSUME OrderInv, TypeOK, DeliverRag \/ DeliverJob \/ DeliverPvc
  PROVE  OrderInv' /\ PhaseKept
  <1>. USE DEF cluster, watches, views
  <1>1. CASE DeliverRag
    <2>. DEFINE h == Head(ragWatch)
    <2>1. /\ ragWatch # <<>> /\ ragView' = h /\ ragWatch' = Tail(ragWatch)
          /\ UNCHANGED <<rag, pvc, jobs, pvcWatch, jobWatch, pvcView, up, rec, jobH, pvcH>>
      BY <1>1 DEF DeliverRag
    <2>2. /\ 1 \in DOMAIN ragWatch /\ h = ragWatch[1]
          /\ \A i \in DOMAIN ragWatch' :
               i \in Nat /\ i + 1 \in DOMAIN ragWatch /\ ragWatch'[i] = ragWatch[i + 1] /\ 1 < i + 1
      BY <2>1, TailEntries DEF TypeOK
    <2>3. /\ \A i \in DOMAIN ragWatch : ragWatch[i] \in Rags /\ ragWatch[i].phase \in Nat
          /\ rag.phase \in Nat /\ ragView.phase \in Nat
      <3>1. \A x \in Rags : x.phase \in Nat
        BY NJobsAssumption DEF Rags, Phases
      <3>. QED BY <3>1 DEF TypeOK
    <2>4. SameInputs'
      BY <2>1, <2>2 DEF OrderInv, SameInputs, RAGSpecChanged
    <2>5. PhasesSorted'
      <3>1. h.phase <= rag.phase /\ rag.phase <= h.phase + 1
        BY <2>2, <2>3 DEF OrderInv, PhasesSorted
      <3>2. \A i \in DOMAIN ragWatch' :
              h.phase <= ragWatch'[i].phase /\ ragWatch'[i].phase <= rag.phase
        BY <2>2, <2>3 DEF OrderInv, PhasesSorted
      <3>3. \A i, j \in DOMAIN ragWatch' : i < j => ragWatch'[i].phase <= ragWatch'[j].phase
        BY <2>2, <2>3 DEF OrderInv, PhasesSorted
      <3>. QED BY <2>1, <3>1, <3>2, <3>3 DEF OrderInv, PhasesSorted
    <2>6. NoReset'
      <3>1. ~RAGSpecChanged(h, ragView)
        BY <2>2 DEF OrderInv, SameInputs
      <3>2. UNCHANGED resetter
        BY <1>1, <3>1 DEF DeliverRag
      <3>. QED BY <2>1, <3>2 DEF OrderInv, NoReset
    <2>7. RecInPhase'
      <3>1. ragView.phase <= h.phase
        BY <2>2 DEF OrderInv, PhasesSorted
      <3>2. rec # Idle => rec.snap.phase \in Nat
        BY NJobsAssumption DEF TypeOK, RecStates, Rags, Phases
      <3>. QED BY <2>1, <2>2, <2>3, <3>1, <3>2 DEF OrderInv, RecInPhase
    <2>8. JobsInOrder' /\ PhaseKept
      BY <2>1 DEF OrderInv, JobsInOrder, PhaseKept
    <2>9. VolumeFirst'
      BY <2>1, <2>2 DEF OrderInv, VolumeFirst
    <2>. QED BY <2>4, <2>5, <2>6, <2>7, <2>8, <2>9 DEF OrderInv
  <1>2. CASE DeliverJob
    <2>1. UNCHANGED <<rag, ragWatch, ragView, pvc, jobs, pvcWatch, pvcView, up, rec, resetter,
                     pvcH>>
      BY <1>2 DEF DeliverJob
    <2>2. pvc = "present"
      BY <1>2 DEF DeliverJob, OrderInv, VolumeFirst
    <2>. QED BY <2>1, <2>2, NoRagStep
         DEF OrderInv, NoReset, RecInPhase, JobsInOrder, VolumeFirst
  <1>3. CASE DeliverPvc
    <2>1. /\ UNCHANGED <<rag, ragWatch, ragView, pvc, jobs, jobWatch, up, rec, resetter, jobH>>
          /\ pvcWatch # <<>> /\ pvcWatch' = Tail(pvcWatch) /\ pvcView' = Head(pvcWatch)
      BY <1>3 DEF DeliverPvc
    <2>2. /\ Head(pvcWatch) = "present"
          /\ \A i \in DOMAIN pvcWatch' : pvcWatch'[i] = "present"
      BY <2>1, TailEntries DEF TypeOK, OrderInv, NoReset
    <2>3. pvc = "present" /\ pvcH' = Idle
      BY <1>3, <2>2 DEF DeliverPvc, OrderInv, VolumeFirst
    <2>. QED BY <2>1, <2>2, <2>3, NoRagStep
         DEF OrderInv, NoReset, RecInPhase, JobsInOrder, VolumeFirst
  <1>. QED BY <1>1, <1>2, <1>3

\* The cluster works on the jobs it was given.
LEMMA ClusterOrder ==
  ASSUME OrderInv, TypeInv, Cluster
  PROVE  OrderInv' /\ PhaseKept
  <1>. USE DEF cluster, watches, views
  <1>1. ASSUME UNCHANGED <<rag, ragWatch, ragView, pvc, pvcWatch, pvcView, up, rec, resetter,
                           jobH, pvcH>>,
               \A p \in JobPhases : jobs'[p] # NoJob => jobs[p] # NoJob,
               UNCHANGED jobWatch \/ \E p \in JobPhases : jobs[p] # NoJob
        PROVE  OrderInv' /\ PhaseKept
    <2>1. JobsInOrder'
      BY <1>1 DEF OrderInv, JobsInOrder
    <2>2. UNCHANGED jobWatch \/ pvc = "present"
      <3>1. rag.phase \in Nat
        BY NJobsAssumption DEF TypeInv, TypeOK, Rags, Phases
      <3>2. ASSUME NEW p \in JobPhases, jobs[p] # NoJob PROVE rag.phase > InitPvc
        BY <3>1, <3>2, NJobsAssumption DEF OrderInv, JobsInOrder, JobPhases, InitPvc
      <3>. QED BY <1>1, <3>2 DEF OrderInv, VolumeFirst, PastInit
    <2>. QED BY <1>1, <2>1, <2>2, NoRagStep
         DEF TypeInv, OrderInv, NoReset, RecInPhase, VolumeFirst
  <1>2. ASSUME NEW p \in JobPhases, PodStarts(p) PROVE OrderInv' /\ PhaseKept
    BY <1>1, <1>2 DEF PodStarts
  <1>3. ASSUME NEW p \in JobPhases, NEW c, JobCondition(p, c), jobs[p] # NoJob
        PROVE  OrderInv' /\ PhaseKept
    <2>1. \A q \in JobPhases : jobs'[q] # NoJob => jobs[q] # NoJob
      BY <1>3 DEF JobCondition, StoreJob, TypeInv, TypeOK
    <2>. QED BY <1>1, <1>3, <2>1 DEF JobCondition
  <1>4. ASSUME NEW p \in JobPhases, JobCompletes(p) \/ JobFails(p)
        PROVE  OrderInv' /\ PhaseKept
    BY <1>3, <1>4 DEF JobCompletes, JobFails, JobEnds, TypeInv, PodsHaveJobs
  <1>5. ASSUME NEW p \in JobPhases, JobSuspends(p) \/ JobResumes(p)
        PROVE  OrderInv' /\ PhaseKept
    BY <1>3, <1>5 DEF JobSuspends, JobResumes, Unfinished
  <1>6. ASSUME NEW p \in JobPhases, JobCollected(p) PROVE OrderInv' /\ PhaseKept
    <2>1. jobs[p] # NoJob
      BY <1>6 DEF JobCollected, NoJob
    <2>2. \A q \in JobPhases : jobs'[q] # NoJob => jobs[q] # NoJob
      BY <1>6 DEF JobCollected, StoreJob, TypeInv, TypeOK
    <2>. QED BY <1>1, <1>6, <2>1, <2>2 DEF JobCollected
  <1>7. ~PvcCollected
    BY DEF PvcCollected, OrderInv, NoReset
  <1>. QED BY <1>2, <1>4, <1>5, <1>6, <1>7 DEF Cluster

\* The controller stops, losing what it was doing, and starts again.
LEMMA RestartOrder ==
  ASSUME OrderInv, TypeOK, Crash \/ Restart
  PROVE  OrderInv' /\ PhaseKept
  <1>. USE DEF cluster, watches, views
  <1>1. CASE Crash
    <2>1. /\ UNCHANGED <<rag, pvc, jobs, ragView, pvcView>>
          /\ ragWatch' = <<>> /\ pvcWatch' = <<>> /\ jobWatch' = <<>>
          /\ rec' = Idle /\ resetter' = Idle /\ jobH' = Idle /\ pvcH' = Idle
      BY <1>1 DEF Crash
    <2>. QED BY <2>1 DEF OrderInv, NoReset, SameInputs, PhasesSorted, RecInPhase, JobsInOrder,
                         VolumeFirst, PhaseKept, Idle
  <1>2. CASE Restart
    <2>1. /\ ragWatch = <<>> /\ ragView' = rag /\ pvcView' = pvc
          /\ UNCHANGED <<rag, pvc, jobs, ragWatch, pvcWatch, jobWatch, rec, resetter, jobH, pvcH>>
      BY <1>2 DEF Restart, OrderInv, PhasesSorted
    <2>2. rag.phase \in Nat
      BY NJobsAssumption DEF TypeOK, Rags, Phases
    <2>3. SameInputs' /\ PhasesSorted' /\ PhaseKept
      BY <2>1, <2>2 DEF SameInputs, PhasesSorted, PhaseKept, RAGSpecChanged
    <2>. QED BY <2>1, <2>3 DEF OrderInv, NoReset, RecInPhase, JobsInOrder, VolumeFirst
  <1>. QED BY <1>1, <1>2

-----------------------------------------------------------------------------
(* What users cannot disturb by editing metrics and suspending. *)

LEMMA OrderInit == Init => OrderInv
<1>. SUFFICES ASSUME Init PROVE OrderInv
  OBVIOUS
<1>1. rag.phase = 0 /\ rag.cond = "nil" /\ ragView = rag
  BY DEF Init, Unset
<1>2. ~PastInit(rag.phase, rag.cond)
  BY <1>1 DEF PastInit, InitPvc, CompleteTrue
<1>. QED BY <1>1, <1>2 DEF Init, OrderInv, NoReset, SameInputs, RAGSpecChanged, PhasesSorted,
                           RecInPhase, JobsInOrder, VolumeFirst, Idle

LEMMA OrderStep ==
  ASSUME OrderInv, TypeInv, [Next]_vars, ~EditInputs, ~RemovePvc
  PROVE  OrderInv' /\ PhaseKept
<1>. USE DEF TypeInv
<1>1. CASE ReconcileStep
  BY <1>1, ReconcileOrder, RagStoredOrder, CallOrder DEF ReconcileStep
<1>2. CASE ReconcileFails
  BY <1>2, CallOrder
<1>3. CASE Watchers
  <2>1. ~ResetStep /\ ~ResetFails /\ ~WhenPVCDeleted
    BY DEF OrderInv, NoReset, Idle, ResetStep, ListJobs, DeleteJob, DeletePvc, ResetStatus,
           ResetFails, WhenPVCDeleted
  <2>. QED BY <1>3, <2>1, DeliverOrder, RagStoredOrder DEF Watchers
<1>4. CASE Cluster
  BY <1>4, ClusterOrder
<1>5. CASE User
  BY <1>5, RagStoredOrder DEF User
<1>6. CASE Crash \/ Restart
  BY <1>6, RestartOrder
<1>7. CASE UNCHANGED vars
  <2>1. rag.phase \in Nat
    BY NJobsAssumption DEF TypeOK, Rags, Phases
  <2>. QED BY <1>7, <2>1 DEF vars, cluster, watches, views, OrderInv, NoReset, SameInputs,
                       PhasesSorted, RecInPhase, JobsInOrder, VolumeFirst, PhaseKept
<1>. QED BY <1>1, <1>2, <1>3, <1>4, <1>5, <1>6, <1>7 DEF Next

LEMMA OrderInvariant ==
  ASSUME Edits \subseteq {"metrics", "suspend"}
  PROVE  Spec => [](OrderInv /\ TypeInv) /\ [][PhaseKept]_vars
<1>1. ~EditInputs /\ ~RemovePvc
  BY DEF EditInputs, RemovePvc
<1>2. OrderInv /\ TypeInv /\ [Next]_vars => OrderInv' /\ PhaseKept
  BY <1>1, OrderStep
<1>. QED BY <1>2, OrderInit, TypeInvariant, PTL DEF Spec

\* When users edit neither the application, the datasets nor the claim, no
\* stale patch of Reconcile or WhenJobChanged takes the phase of a RAG back or
\* past the next phase of phaseHandler, for any number of phases.
THEOREM PhaseOrder ==
  ASSUME Edits \subseteq {"metrics", "suspend"}
  PROVE  Spec => PhasesInOrder
<1>1. PhaseKept => [rag'.phase \in {rag.phase, rag.phase + 1, Unset}]_rag
  BY DEF PhaseKept
<1>2. UNCHANGED vars => [rag'.phase \in {rag.phase, rag.phase + 1, Unset}]_rag
  BY DEF vars
<1>. QED BY <1>1, <1>2, OrderInvariant, PTL DEF PhasesInOrder

\* Nor does JobGenerator create the job of a phase before the evaluation has
\* reached the phase.
THEOREM JobOrder ==
  ASSUME Edits \subseteq {"metrics", "suspend"}
  PROVE  Spec => []JobsInOrder
<1>1. OrderInv => JobsInOrder
  BY DEF OrderInv
<1>. QED BY <1>1, OrderInvariant, PTL

\* Nor does the evaluation leave init_pvc without its volume claim.
THEOREM StorageOrder ==
  ASSUME Edits \subseteq {"metrics", "suspend"}
  PROVE  Spec => []StorageHeld
<1>1. OrderInv => StorageHeld
  BY DEF OrderInv, VolumeFirst, PastInit, StorageHeld
<1>. QED BY <1>1, OrderInvariant, PTL

-----------------------------------------------------------------------------
(***************************************************************************)
(* The inductive invariant behind PassedPhasesRan. It holds while nobody   *)
(* has edited the RAG. A phase is left because of a condition that some    *)
(* version of the RAG carried, and that condition came from a job whose    *)
(* end the controller had heard of: what WhenJobChanged is about to write, *)
(* what Reconcile has read and what the watches still bring must all be    *)
(* tied to the job itself, which has written to the volume.                *)
(***************************************************************************)

\* The versions of the RAG that somebody may still act on.
Version(x) ==
  \/ x = rag \/ x = ragView
  \/ \E i \in DOMAIN ragWatch : x = ragWatch[i]
  \/ rec # Idle /\ x = rec.snap

\* A version that lets Reconcile leave a job phase.
PhaseDone(x) == x.phase \in JobPhases /\ x.cond \in CompleteTrue

\* The controller knows that the job of the phase has completed.
Heard(p) == jobView[p].cond = "jobComplete"

\* It does for the phases that are left, and for those that can be.
AllHeard ==
  /\ \A p \in JobPhases : p < rag.phase => Heard(p)
  /\ \A x : Version(x) /\ PhaseDone(x) => Heard(x.phase)

\* While WhenJobChanged has a completion to write, nobody can leave the phase:
\* the condition goes to the phase of the job that completed.
Telling == jobH # Idle /\ jobH.cond = "jobComplete" =>
  /\ rag.phase \in JobPhases /\ Heard(rag.phase)
  /\ \A x : Version(x) /\ x.phase = rag.phase => x.cond \notin CompleteTrue

\* A completed job stays, and so do its results.
JobsKept == \A p \in JobPhases :
  /\ ~jobs[p].deleting
  /\ p \in pods => ~Ended(jobs[p])
  /\ jobs[p].cond = "jobComplete" => ran[p] # Never

\* The news of a completed job is true and is not taken back.
JobNews ==
  /\ \A p \in JobPhases : Heard(p) => jobs[p].cond = "jobComplete"
  /\ \A i \in DOMAIN jobWatch :
       /\ jobWatch[i][2].cond = "jobComplete" => jobs[jobWatch[i][1]].cond = "jobComplete"
       /\ Heard(jobWatch[i][1]) => jobWatch[i][2].cond = "jobComplete"
  /\ \A i, k \in DOMAIN jobWatch :
       i < k /\ jobWatch[k][1] = jobWatch[i][1] /\ jobWatch[i][2].cond = "jobComplete"
         => jobWatch[k][2].cond = "jobComplete"

\* A planned patch keeps a job phase undone, or leaves a phase that is done.
Plans == rec.pc = "patch" =>
  /\ rec.phase = rec.snap.phase => rec.cond \notin CompleteTrue \/ rec.snap.phase = InitPvc
  /\ rec.phase # rec.snap.phase /\ rec.snap.phase # Unset => rec.snap.cond \in CompleteTrue
  /\ rec.phase # rec.snap.phase /\ rec.phase \in JobPhases => rec.cond \notin CompleteTrue

\* A stopped controller has nothing under way.
Down == ~up => rec = Idle /\ ~queued /\ jobH = Idle /\ ragWatch = <<>> /\ jobWatch = <<>>

\* Until a job exists only Reconcile writes, and each write is seen before the
\* next begins: its "pvcReady" cannot come after the phase it opens.
Starts ==
  /\ rag.phase <= InitPvc =>
       /\ jobH = Idle /\ jobWatch = <<>> /\ Len(ragWatch) <= 1
       /\ rec # Idle \/ queued => ragWatch = <<>>
       /\ rec # Idle => ~queued
  /\ rag.phase = 2 =>
       /\ rec # Idle => rec.snap.phase = 2
       /\ ragView.phase # 2 =>
            rec = Idle /\ ~queued /\ \A i \in DOMAIN ragWatch : ragWatch[i].phase = 2

RanInv == AllHeard /\ Telling /\ JobsKept /\ JobNews /\ Plans /\ Down /\ Starts

LEMMA RanInit == Init => RanInv
<1>. SUFFICES ASSUME Init PROVE RanInv
  OBVIOUS
<1>1. /\ rag.phase = 0 /\ rag.cond = "nil" /\ ragView = rag /\ ragWatch = <<>> /\ jobWatch = <<>>
      /\ rec = Idle /\ jobH = Idle /\ up = TRUE /\ pods = {}
      /\ \A p \in JobPhases : jobs[p] = NoJob /\ jobView[p] = NoJob
  BY DEF Init, Unset
<1>2. \A x : Version(x) => x = rag
  BY <1>1 DEF Version
<1>3. \A p \in JobPhases : p \in Nat /\ p > 1
  BY NJobsAssumption DEF JobPhases
<1>4. AllHeard
  BY <1>1, <1>2, <1>3 DEF AllHeard, PhaseDone
<1>5. JobsKept /\ JobNews
  BY <1>1 DEF JobsKept, JobNews, Heard, NoJob
<1>. QED BY <1>1, <1>4, <1>5 DEF RanInv, Telling, Plans, Down, Starts, Idle, InitPvc

(* Jobs, their pods and the news of them. *)

\* What the controller has heard of a completed job it keeps.
HeardKept == \A p \in JobPhases : Heard(p) => Heard(p)'

JobSide == JobsKept /\ JobNews

\* A job is stored that completes, or one that has not.
LEMMA JobStored ==
  ASSUME TypeInv, JobSide, NEW p \in JobPhases, NEW j \in Jobs \cup {NoJob}, StoreJob(p, j),
         UNCHANGED jobView,
         j.cond = "jobComplete" \/ jobs[p].cond # "jobComplete",
         ~j.deleting, pods' \subseteq pods, p \in pods' => ~Ended(j),
         \A q \in JobPhases : q # p => ran'[q] = ran[q],
         j.cond = "jobComplete" => ran'[p] # Never
  PROVE  JobSide' /\ HeardKept
<1>1. \A q \in JobPhases : jobs'[q] = IF q = p THEN j ELSE jobs[q]
  BY DEF StoreJob, TypeInv, TypeOK
<1>2. JobsKept'
  BY <1>1 DEF JobSide, JobsKept
<1>3. HeardKept
  BY DEF HeardKept, Heard
<1>4. \A q \in JobPhases : jobs[q].cond = "jobComplete" => jobs'[q].cond = "jobComplete"
  BY <1>1
<1>5. \A i \in DOMAIN jobWatch : jobWatch[i][1] \in JobPhases /\ i \in Nat /\ i <= Len(jobWatch)
  BY DEF TypeInv, TypeOK
<1>6. CASE jobWatch' = jobWatch
  BY <1>4, <1>5, <1>6, <1>2, <1>3 DEF JobSide, JobNews, Heard
<1>7. CASE jobWatch' = Notify(jobWatch, <<p, j>>)
  <2>1. \A i \in DOMAIN jobWatch' : \/ i \in DOMAIN jobWatch /\ jobWatch'[i] = jobWatch[i]
                                    \/ i = Len(jobWatch) + 1 /\ jobWatch'[i] = <<p, j>>
    BY <1>7, NotifyEntries DEF TypeInv, TypeOK
  <2>2. Len(jobWatch) \in Nat
    BY DEF TypeInv, TypeOK
  <2>3. ASSUME j.cond # "jobComplete"
        PROVE  ~Heard(p) /\ \A i \in DOMAIN jobWatch : jobWatch[i][1] = p => jobWatch[i][2].cond # "jobComplete"
    BY <2>3 DEF JobSide, JobNews
  <2>4. \A q \in JobPhases : Heard(q)' => jobs'[q].cond = "jobComplete"
    BY <1>4 DEF JobSide, JobNews, Heard
  <2>5. ASSUME NEW i \in DOMAIN jobWatch'
        PROVE  /\ jobWatch'[i][2].cond = "jobComplete" => jobs'[jobWatch'[i][1]].cond = "jobComplete"
               /\ jobView'[jobWatch'[i][1]].cond = "jobComplete" => jobWatch'[i][2].cond = "jobComplete"
    BY <1>1, <1>4, <1>5, <2>1, <2>3 DEF JobSide, JobNews, Heard
  <2>6. ASSUME NEW i \in DOMAIN jobWatch', NEW k \in DOMAIN jobWatch', i < k,
               jobWatch'[k][1] = jobWatch'[i][1], jobWatch'[i][2].cond = "jobComplete"
        PROVE  jobWatch'[k][2].cond = "jobComplete"
    BY <1>5, <2>1, <2>2, <2>3, <2>6 DEF JobSide, JobNews
  <2>7. JobNews'
    BY <2>4, <2>5, <2>6 DEF JobNews, Heard
  <2>. QED BY <1>2, <1>3, <2>7 DEF JobSide
<1>. QED BY <1>6, <1>7 DEF StoreJob

\* A job that exists has a spec, and its volume then has results.
LEMMA JobVersion ==
  ASSUME TypeInv, NEW p \in JobPhases, jobs[p] # NoJob
  PROVE  jobs[p] \in Jobs /\ jobs[p].ver # Never /\ jobs[p].ver \in Specs
<1>1. jobs[p] \in Jobs
  BY DEF TypeInv, TypeOK
<1>2. \A v \in Specs : v # Never
  <2>1. \A a \in Apps, d \in Datasets, m \in Metrics : <<a, d, m>> # <<>>
    OBVIOUS
  <2>. QED BY <2>1 DEF Never, Specs
<1>. QED BY <1>1, <1>2 DEF Jobs

LEMMA JobSideStep ==
  ASSUME OrderInv, TypeInv, JobSide, Down, [Next]_vars, ~User
  PROVE  JobSide' /\ HeardKept
<1>. USE DEF cluster, watches, views
<1>1. ASSUME UNCHANGED <<jobs, ran, jobWatch, jobView>>, pods' \subseteq pods
      PROVE  JobSide' /\ HeardKept
  BY <1>1 DEF JobSide, JobsKept, JobNews, Heard, HeardKept
<1>2. ASSUME NEW p \in JobPhases, NEW c \in JobConds, JobCondition(p, c), jobs[p] # NoJob,
             ~Ended(jobs[p]), pods' \subseteq pods, c \in {"jobComplete", "jobFailed"} => p \notin pods',
             \A q \in JobPhases : q # p => ran'[q] = ran[q],
             c = "jobComplete" => ran'[p] # Never
      PROVE  JobSide' /\ HeardKept
  <2>. DEFINE j == [jobs[p] EXCEPT !.cond = c]
  <2>1. j \in Jobs /\ jobs[p] \in Jobs
    BY <1>2, JobEdits DEF TypeInv, TypeOK
  <2>2. j.cond = c /\ j.deleting = jobs[p].deleting
    BY <2>1 DEF Jobs
  <2>3. StoreJob(p, j) /\ UNCHANGED jobView
    BY <1>2 DEF JobCondition
  <2>4. ~jobs[p].deleting /\ jobs[p].cond # "jobComplete"
    BY <1>2 DEF JobSide, JobsKept, Ended
  <2>5. p \in pods' => ~Ended(j)
    BY <1>2, <2>2 DEF Ended
  <2>. HIDE DEF j
  <2>. QED BY <1>2, <2>1, <2>2, <2>3, <2>4, <2>5, JobStored
<1>3. CASE ReconcileStep
  <2>1. CASE CreateJob
    <3>. DEFINE p == rec.snap.phase
               j == [ver |-> SpecOf(rec.snap), suspend |-> rec.snap.suspend,
                     cond |-> "none", deleting |-> FALSE]
    <3>1. rec.pc = "job"
      BY <2>1 DEF CreateJob
    <3>2. rec.snap \in Rags /\ p \in JobPhases
      BY <3>1 DEF TypeInv, TypeOK, RecStates, Idle
    <3>3. j \in Jobs
      BY <3>2 DEF Jobs, Rags, Specs, SpecOf
    <3>4. CASE jobs[p] = NoJob /\ StoreJob(p, j)
      <4>1. p \notin pods /\ jobs[p].cond # "jobComplete"
        BY <3>4 DEF TypeInv, PodsHaveJobs, NoJob
      <4>2. UNCHANGED <<jobView, pods, ran>> /\ j.cond = "none" /\ ~j.deleting
        BY <2>1 DEF CreateJob
      <4>. HIDE DEF j, p
      <4>. QED BY <3>2, <3>3, <3>4, <4>1, <4>2, JobStored
    <3>5. CASE UNCHANGED <<jobs, jobWatch>>
      BY <1>1, <2>1, <3>5 DEF CreateJob
    <3>. QED BY <2>1, <3>4, <3>5 DEF CreateJob, PhaseJobName
  <2>2. CASE SuspendJob
    <3>. DEFINE p == rec.snap.phase
               j == [jobView[p] EXCEPT !.suspend = rec.snap.suspend]
    <3>1. rec.pc = "job"
      BY <2>2 DEF SuspendJob
    <3>2. rec.snap \in Rags /\ p \in JobPhases /\ rec.snap.suspend \in BOOLEAN
      BY <3>1 DEF TypeInv, TypeOK, RecStates, Rags, Idle
    <3>3. jobView[p] # NoJob /\ jobView[p] \in Jobs /\ j \in Jobs
      BY <2>2, <3>2, JobEdits DEF SuspendJob, PhaseJobName, TypeInv, TypeOK
    <3>4. j.cond = jobView[p].cond /\ j.deleting = jobView[p].deleting
      BY <3>3 DEF Jobs
    <3>5. CASE jobs[p] = jobView[p] /\ StoreJob(p, j)
      <4>1. UNCHANGED <<jobView, pods, ran>> /\ jobView[p].cond # "jobComplete"
            /\ ~jobView[p].deleting
        BY <2>2 DEF SuspendJob, PhaseJobName
      <4>2. p \in pods' => ~Ended(j)
        BY <3>2, <3>4, <3>5, <4>1 DEF JobSide, JobsKept, Ended
      <4>. HIDE DEF j, p
      <4>. QED BY <3>2, <3>3, <3>4, <3>5, <4>1, <4>2, JobStored
    <3>6. CASE UNCHANGED <<jobs, jobWatch>>
      BY <1>1, <2>2, <3>6 DEF SuspendJob
    <3>. QED BY <2>2, <3>5, <3>6 DEF SuspendJob, PhaseJobName
  <2>3. ASSUME NEW next, Take(next) PROVE JobSide' /\ HeardKept
    BY <1>1, <2>3 DEF Take
  <2>. QED
    BY <1>1, <1>3, <2>1, <2>2, <2>3
    DEF ReconcileStep, ReconcileLabel, ReconcileUnset, ReconcileAdvance, ReconcilePvc,
        ReconcileJob, ReconcileComplete, UpdateLabel, PatchRag, CreatePvc, FoundPvc, FoundJob
<1>4. CASE ReconcileFails
  BY <1>1, <1>4 DEF ReconcileFails
<1>5. CASE DeliverJob
  <2>1. /\ UNCHANGED <<jobs, pods, ran>> /\ jobWatch # <<>> /\ jobWatch' = Tail(jobWatch)
        /\ jobView' = [jobView EXCEPT ![Head(jobWatch)[1]] = Head(jobWatch)[2]]
    BY <1>5 DEF DeliverJob
  <2>2. /\ 1 \in DOMAIN jobWatch /\ Head(jobWatch) = jobWatch[1]
        /\ \A i \in DOMAIN jobWatch' :
             i \in Nat /\ i + 1 \in DOMAIN jobWatch /\ jobWatch'[i] = jobWatch[i + 1] /\ 1 < i + 1
    BY <2>1, TailEntries DEF TypeInv, TypeOK
  <2>3. \A i \in DOMAIN jobWatch : jobWatch[i][1] \in JobPhases
    BY DEF TypeInv, TypeOK
  <2>4. \A q \in JobPhases : jobView'[q] = IF q = jobWatch[1][1] THEN jobWatch[1][2] ELSE jobView[q]
    BY <2>1, <2>2, <2>3 DEF TypeInv, TypeOK
  <2>5. HeardKept
    BY <2>2, <2>3, <2>4 DEF JobSide, JobNews, Heard, HeardKept
  <2>6. JobsKept'
    BY <2>1 DEF JobSide, JobsKept
  <2>7. \A q \in JobPhases : jobView'[q].cond = "jobComplete" => jobs'[q].cond = "jobComplete"
    BY <2>1, <2>2, <2>3, <2>4 DEF JobSide, JobNews, Heard
  <2>8. ASSUME NEW i \in DOMAIN jobWatch'
        PROVE  /\ jobWatch'[i][2].cond = "jobComplete" => jobs'[jobWatch'[i][1]].cond = "jobComplete"
               /\ jobView'[jobWatch'[i][1]].cond = "jobComplete" => jobWatch'[i][2].cond = "jobComplete"
    BY <2>1, <2>2, <2>3, <2>4 DEF JobSide, JobNews, Heard
  <2>9. ASSUME NEW i \in DOMAIN jobWatch', NEW k \in DOMAIN jobWatch', i < k,
               jobWatch'[k][1] = jobWatch'[i][1], jobWatch'[i][2].cond = "jobComplete"
        PROVE  jobWatch'[k][2].cond = "jobComplete"
    BY <2>2, <2>9 DEF JobSide, JobNews
  <2>. QED BY <2>5, <2>6, <2>7, <2>8, <2>9 DEF JobSide, JobNews, Heard
<1>6. CASE Watchers
  <2>1. ~ResetStep /\ ~ResetFails /\ ~WhenPVCDeleted
    BY DEF OrderInv, NoReset, Idle, ResetStep, ListJobs, DeleteJob, DeletePvc, ResetStatus,
           ResetFails, WhenPVCDeleted
  <2>. QED BY <1>1, <1>5, <1>6, <2>1 DEF Watchers, DeliverRag, WhenJobChanged, DeliverPvc
<1>7. CASE Cluster
  <2>1. ASSUME NEW p \in JobPhases, PodStarts(p) PROVE JobSide' /\ HeardKept
    <3>1. UNCHANGED <<jobs, ran, jobWatch, jobView>> /\ pods' = pods \cup {p} /\ ~Ended(jobs[p])
      BY <2>1 DEF PodStarts, Unfinished
    <3>. QED BY <3>1 DEF JobSide, JobsKept, JobNews, Heard, HeardKept
  <2>2. ASSUME NEW p \in JobPhases, JobCompletes(p) PROVE JobSide' /\ HeardKept
    <3>1. p \in pods /\ pods' = pods \ {p} /\ JobCondition(p, "jobComplete")
          /\ ran' = [ran EXCEPT ![p] = jobs[p].ver]
      BY <2>2 DEF JobCompletes, JobEnds
    <3>2. jobs[p] # NoJob /\ ~Ended(jobs[p])
      BY <3>1 DEF TypeInv, PodsHaveJobs, JobSide, JobsKept
    <3>3. ran'[p] # Never /\ \A q \in JobPhases : q # p => ran'[q] = ran[q]
      BY <3>1, <3>2, JobVersion DEF TypeInv, TypeOK
    <3>. QED BY <1>2, <3>1, <3>2, <3>3 DEF JobConds
  <2>3. ASSUME NEW p \in JobPhases, JobFails(p) PROVE JobSide' /\ HeardKept
    <3>1. p \in pods /\ pods' = pods \ {p} /\ JobCondition(p, "jobFailed") /\ ran' = ran
      BY <2>3 DEF JobFails, JobEnds
    <3>2. jobs[p] # NoJob /\ ~Ended(jobs[p])
      BY <3>1 DEF TypeInv, PodsHaveJobs, JobSide, JobsKept
    <3>. QED BY <1>2, <3>1, <3>2 DEF JobConds
  <2>4. ASSUME NEW p \in JobPhases, JobSuspends(p) \/ JobResumes(p) PROVE JobSide' /\ HeardKept
    <3>1. /\ jobs[p] # NoJob /\ ~Ended(jobs[p]) /\ ran' = ran /\ pods' \subseteq pods
          /\ JobCondition(p, "jobSuspended") \/ JobCondition(p, "jobResumed")
      BY <2>4 DEF JobSuspends, JobResumes, Unfinished
    <3>. QED BY <1>2, <3>1 DEF JobConds
  <2>5. ASSUME NEW p \in JobPhases PROVE ~JobCollected(p)
    BY DEF JobSide, JobsKept, JobCollected
  <2>6. ~PvcCollected
    BY DEF PvcCollected, OrderInv, NoReset
  <2>. QED BY <1>7, <2>1, <2>2, <2>3, <2>4, <2>5, <2>6 DEF Cluster
<1>8. CASE Crash
  <2>1. UNCHANGED <<jobs, pods, ran, jobView>> /\ jobWatch' = <<>>
    BY <1>8 DEF Crash
  <2>. QED BY <2>1 DEF JobSide, JobsKept, JobNews, Heard, HeardKept
<1>9. CASE Restart
  <2>1. UNCHANGED <<jobs, pods, ran>> /\ jobWatch = <<>> /\ jobWatch' = <<>> /\ jobView' = jobs
    BY <1>9 DEF Restart, Down
  <2>. QED BY <2>1 DEF JobSide, JobsKept, JobNews, Heard, HeardKept
<1>10. CASE UNCHANGED vars
  BY <1>1, <1>10 DEF vars
<1>. QED BY <1>3, <1>4, <1>6, <1>7, <1>8, <1>9, <1>10 DEF Next

(* Versions of the RAG, and the plans made from them. *)

\* Nobody reads an old version, but for the one that is stored.
VersionsKept == \A x : Version(x)' => Version(x) \/ x = rag'

LEMMA VersionsFrom ==
  ASSUME TypeOK, rag' \in Rags,
         \/ ragWatch' = ragWatch \/ ragWatch' = Notify(ragWatch, rag') \/ ragWatch' = <<>>
         \/ ragWatch # <<>> /\ ragWatch' = Tail(ragWatch),
         \/ ragView' = ragView \/ ragView' = rag'
         \/ ragWatch # <<>> /\ ragView' = Head(ragWatch),
         \/ rec' = Idle \/ (rec # Idle /\ rec'.snap = rec.snap) \/ rec'.snap = ragView
  PROVE  VersionsKept
<1>1. \A i \in DOMAIN ragWatch' : \/ ragWatch'[i] = rag'
                                  \/ \E k \in DOMAIN ragWatch : ragWatch'[i] = ragWatch[k]
  <2>1. CASE ragWatch' = Notify(ragWatch, rag')
    BY <2>1, NotifyEntries DEF TypeOK
  <2>2. CASE ragWatch # <<>> /\ ragWatch' = Tail(ragWatch)
    BY <2>2, TailEntries DEF TypeOK
  <2>. QED BY <2>1, <2>2
<1>2. ragWatch # <<>> => \E k \in DOMAIN ragWatch : Head(ragWatch) = ragWatch[k]
  BY TailEntries DEF TypeOK
<1>. QED BY <1>1, <1>2 DEF VersionsKept, Version

LEMMA VersionsStep ==
  ASSUME OrderInv, TypeInv, TypeInv', [Next]_vars, ~User
  PROVE  VersionsKept
<1>. USE DEF cluster, watches, views
<1>0. TypeOK /\ rag' \in Rags
  BY DEF TypeInv, TypeOK
<1>1. ASSUME UNCHANGED <<rag, ragWatch, ragView, rec>> PROVE VersionsKept
  BY <1>1 DEF VersionsKept, Version
<1>2. ASSUME NEW next, Take(next), next = Idle \/ next.snap = ragView PROVE VersionsKept
  BY <1>0, <1>2, VersionsFrom DEF Take
<1>3. ASSUME NEW r, StoreRag(r), UNCHANGED ragView, rec' = rec \/ rec' = Idle
      PROVE  VersionsKept
  <2>1. rag' = r /\ (ragWatch' = ragWatch \/ ragWatch' = Notify(ragWatch, rag'))
    BY <1>3 DEF StoreRag
  <2>. QED BY <1>0, <1>3, <2>1, VersionsFrom
<1>4. ASSUME UNCHANGED <<ragWatch, ragView>>, rec # Idle, rec' = Idle \/ rec'.snap = rec.snap
      PROVE  VersionsKept
  BY <1>0, <1>4, VersionsFrom
<1>5. CASE \/ ReconcileLabel \/ ReconcileUnset \/ ReconcileAdvance \/ ReconcilePvc
           \/ ReconcileJob \/ ReconcileComplete
  BY <1>2, <1>5 DEF ReconcileLabel, ReconcileUnset, ReconcileAdvance, ReconcilePvc,
     ReconcileJob, ReconcileComplete
<1>6. CASE UpdateLabel \/ PatchRag
  <2>1. rec # Idle
    BY <1>6 DEF UpdateLabel, PatchRag, Idle
  <2>. QED BY <1>3, <1>4, <1>6, <2>1 DEF UpdateLabel, PatchRag, Retry
<1>7. CASE CreatePvc \/ FoundPvc \/ CreateJob \/ SuspendJob \/ FoundJob \/ ReconcileFails
  <2>1. rec # Idle /\ UNCHANGED <<ragWatch, ragView>>
    BY <1>7 DEF CreatePvc, FoundPvc, CreateJob, SuspendJob, FoundJob, ReconcileFails, Idle
  <2>2. rec' = Idle \/ rec'.snap = rec.snap
    BY <1>7, <2>1
    DEF CreatePvc, FoundPvc, CreateJob, SuspendJob, FoundJob, ReconcileFails, Retry, NotDone, Plan
  <2>. QED BY <1>4, <2>1, <2>2
<1>8. CASE DeliverRag
  <2>1. ragWatch # <<>> /\ ragWatch' = Tail(ragWatch) /\ ragView' = Head(ragWatch) /\ rec' = rec
    BY <1>8 DEF DeliverRag
  <2>. QED BY <1>0, <2>1, VersionsFrom
<1>9. CASE Watchers
  <2>1. ~ResetStep /\ ~ResetFails /\ ~WhenPVCDeleted
    BY DEF OrderInv, NoReset, Idle, ResetStep, ListJobs, DeleteJob, DeletePvc, ResetStatus,
           ResetFails, WhenPVCDeleted
  <2>. QED BY <1>1, <1>3, <1>8, <1>9, <2>1 DEF Watchers, DeliverJob, WhenJobChanged, DeliverPvc
<1>10. CASE Cluster
  BY <1>1, <1>10 DEF Cluster, PodStarts, JobCompletes, JobFails, JobEnds, JobSuspends, JobResumes,
     JobCondition, JobCollected, PvcCollected
<1>11. CASE Crash \/ Restart
  BY <1>0, <1>11, VersionsFrom DEF Crash, Restart
<1>12. CASE UNCHANGED vars
  BY <1>1, <1>12 DEF vars
<1>. QED BY <1>5, <1>6, <1>7, <1>8, <1>9, <1>10, <1>11, <1>12 DEF Next, ReconcileStep

LEMMA PlansStep ==
  ASSUME OrderInv, TypeInv, Plans, [Next]_vars, ~User
  PROVE  Plans'
<1>. USE DEF cluster, watches, views
<1>1. ASSUME rec' = rec \/ rec'.pc # "patch" PROVE Plans'
  BY <1>1 DEF Plans
<1>2. ASSUME NEW c, rec' = Plan(rec.snap.phase, c),
             c \notin CompleteTrue \/ rec.snap.phase = InitPvc
      PROVE  Plans'
  <2>1. rec'.phase = rec.snap.phase /\ rec'.cond = c /\ rec'.snap = rec.snap
    BY <1>2 DEF Plan
  <2>. QED BY <1>2, <2>1 DEF Plans
<1>3. CASE ReconcileLabel \/ ReconcilePvc \/ ReconcileJob \/ ReconcileComplete
  BY <1>1, <1>3 DEF ReconcileLabel, ReconcilePvc, ReconcileJob, ReconcileComplete, Take, Idle
<1>4. CASE ReconcileUnset
  <2>1. /\ rec'.phase = InitPvc /\ rec'.snap = ragView /\ ragView.phase = Unset
    BY <1>4 DEF ReconcileUnset, Take
  <2>2. InitPvc \notin JobPhases /\ InitPvc # Unset
    BY DEF InitPvc, Unset, JobPhases
  <2>. QED BY <2>1, <2>2 DEF Plans
<1>5. CASE ReconcileAdvance
  <2>1. /\ rec'.phase = ragView.phase + 1 /\ rec'.snap = ragView
        /\ rec'.cond = Opened(ragView.phase + 1)
        /\ ragView.phase \in 1..(NJobs + 1) /\ ragView.cond \in CompleteTrue
    BY <1>5 DEF ReconcileAdvance, Advances, Take
  <2>2. ragView.phase + 1 # ragView.phase
    BY <2>1, NJobsAssumption
  <2>3. ragView.phase + 1 \in JobPhases => Opened(ragView.phase + 1) \notin CompleteTrue
    <3>1. ragView.phase + 1 \in JobPhases => ragView.phase + 1 # Complete
      BY <2>1, NJobsAssumption DEF JobPhases, Complete
    <3>. QED BY <3>1 DEF Opened, CompleteTrue
  <2>. QED BY <2>1, <2>2, <2>3 DEF Plans
<1>6. CASE CreatePvc \/ FoundPvc
  BY <1>1, <1>2, <1>6 DEF CreatePvc, FoundPvc, Retry, Idle, OrderInv, RecInPhase
<1>7. CASE CreateJob
  <2>1. \E c \in {"waiting", "createFailed"} : rec' = Plan(rec.snap.phase, c)
    BY <1>7 DEF CreateJob
  <2>. QED BY <1>2, <2>1 DEF CompleteTrue
<1>8. CASE UpdateLabel \/ PatchRag \/ SuspendJob \/ FoundJob \/ ReconcileFails \/ Crash
  BY <1>1, <1>8 DEF UpdateLabel, PatchRag, SuspendJob, FoundJob, ReconcileFails, Crash, Retry,
     NotDone, Idle
<1>9. CASE Watchers \/ Restart \/ UNCHANGED vars
  BY <1>1, <1>9 DEF Watchers, ResetStep, DeliverRag, ListJobs, DeleteJob, DeletePvc, ResetStatus,
     ResetFails, DeliverJob, WhenJobChanged, DeliverPvc, WhenPVCDeleted, Restart, vars
<1>10. CASE Cluster
  BY <1>1, <1>10 DEF Cluster, PodStarts, JobCompletes, JobFails, JobEnds, JobSuspends, JobResumes,
     JobCondition, JobCollected, PvcCollected
<1>. QED BY <1>3, <1>4, <1>5, <1>6, <1>7, <1>8, <1>9, <1>10 DEF Next, ReconcileStep

(* The controller starts, and the evaluation does. *)

\* The cluster does nothing before there is a job.
LEMMA ClusterFrame ==
  ASSUME Cluster
  PROVE  /\ UNCHANGED <<rag, ragWatch, ragView, jobView, up, queued, rec, jobH>>
         /\ ~up => UNCHANGED jobWatch
BY DEF Cluster, PodStarts, JobCompletes, JobFails, JobEnds, JobSuspends, JobResumes,
   JobCondition, JobCollected, PvcCollected, StoreJob, Notify, cluster, watches, views

LEMMA DownStep ==
  ASSUME OrderInv, TypeInv, Down, [Next]_vars, ~User
  PROVE  Down'
<1>. USE DEF cluster, watches, views
<1>1. CASE Crash
  BY <1>1 DEF Crash, Down
<1>2. CASE Restart
  BY <1>2 DEF Restart, Down
<1>3. CASE Cluster
  BY <1>3, ClusterFrame DEF Down
<1>4. CASE UNCHANGED vars
  BY <1>4 DEF vars, Down
<1>5. ASSUME up, up' = up PROVE Down'
  BY <1>5 DEF Down
<1>6. CASE ReconcileStep \/ ReconcileFails
  <2>1. rec # Idle \/ queued
    BY <1>6 DEF ReconcileStep, ReconcileFails, ReconcileLabel, ReconcileUnset, ReconcileAdvance,
       ReconcilePvc, ReconcileJob, ReconcileComplete, Take, UpdateLabel, PatchRag, CreatePvc,
       FoundPvc, CreateJob, SuspendJob, FoundJob, Idle
  <2>2. up' = up
    BY <1>6 DEF ReconcileStep, ReconcileFails, ReconcileLabel, ReconcileUnset, ReconcileAdvance,
       ReconcilePvc, ReconcileJob, ReconcileComplete, Take, UpdateLabel, PatchRag, CreatePvc,
       FoundPvc, CreateJob, SuspendJob, FoundJob
  <2>. QED BY <1>5, <2>1, <2>2 DEF Down, TypeInv, TypeOK
<1>7. CASE Watchers
  <2>1. ~ResetStep /\ ~ResetFails /\ ~WhenPVCDeleted
    BY DEF OrderInv, NoReset, Idle, ResetStep, ListJobs, DeleteJob, DeletePvc, ResetStatus,
           ResetFails, WhenPVCDeleted
  <2>2. CASE DeliverRag \/ DeliverJob \/ WhenJobChanged
    BY <1>5, <2>2 DEF DeliverRag, DeliverJob, WhenJobChanged, Down, TypeInv, TypeOK
  <2>3. CASE DeliverPvc
    BY <2>3 DEF DeliverPvc, Down
  <2>. QED BY <1>7, <2>1, <2>2, <2>3 DEF Watchers
<1>. QED BY <1>1, <1>2, <1>3, <1>4, <1>6, <1>7 DEF Next

\* Before the first job phase there is no job and no pod.
LEMMA NothingBefore ==
  ASSUME OrderInv, TypeInv, rag.phase <= InitPvc
  PROVE  \A p \in JobPhases : jobs[p] = NoJob /\ p \notin pods
<1>1. rag.phase \in Nat /\ \A p \in JobPhases : p \in Nat /\ p > InitPvc
  BY NJobsAssumption DEF TypeInv, TypeOK, Rags, Phases, JobPhases, InitPvc
<1>2. \A p \in JobPhases : jobs[p] = NoJob
  BY <1>1 DEF OrderInv, JobsInOrder, InitPvc
<1>. QED BY <1>2 DEF TypeInv, PodsHaveJobs

Early == /\ jobH = Idle /\ jobWatch = <<>> /\ Len(ragWatch) <= 1
         /\ rec # Idle \/ queued => ragWatch = <<>>
         /\ rec # Idle => ~queued

Second == /\ rec # Idle => rec.snap.phase = 2
          /\ ragView.phase # 2 =>
               rec = Idle /\ ~queued /\ \A i \in DOMAIN ragWatch : ragWatch[i].phase = 2

LEMMA EarlyStep ==
  ASSUME OrderInv, TypeInv, Early, Down, rag.phase <= InitPvc, [Next]_vars, ~User
  PROVE  rag'.phase <= InitPvc => Early'
<1>. USE DEF cluster, watches, views
<1>0. Len(<<>>) = 0 /\ ragWatch \in Seq(Rags)
  BY DEF TypeInv, TypeOK
<1>1. ASSUME NEW next, Take(next) PROVE Early'
  BY <1>1 DEF Take, Early
<1>2. ASSUME NEW r, StoreRag(r), rec # Idle, rec' = Idle, queued' = queued,
             UNCHANGED <<jobH, jobWatch>>
      PROVE  Early'
  <2>1. ragWatch = <<>> /\ ~queued /\ jobH = Idle /\ jobWatch = <<>>
    BY <1>2 DEF Early
  <2>2. ragWatch' = <<>> \/ ragWatch' = <<r>>
    BY <1>2, <2>1 DEF StoreRag, Notify
  <2>3. Len(ragWatch') <= 1
    <3>1. CASE ragWatch' = <<>>
      BY <3>1
    <3>2. CASE ragWatch' = <<r>>
      <4>1. Len(<<r>>) = 1
        OBVIOUS
      <4>. QED BY <3>2, <4>1
    <3>. QED BY <2>2, <3>1, <3>2
  <2>. QED BY <1>2, <2>1, <2>3 DEF Early
<1>3. ASSUME rec # Idle, UNCHANGED <<ragWatch, jobH, jobWatch>>,
             rec' = Idle \/ queued' = queued
      PROVE  Early'
  BY <1>0, <1>3 DEF Early
<1>4. CASE \/ ReconcileLabel \/ ReconcileUnset \/ ReconcileAdvance \/ ReconcilePvc
           \/ ReconcileJob \/ ReconcileComplete
  BY <1>1, <1>4 DEF ReconcileLabel, ReconcileUnset, ReconcileAdvance, ReconcilePvc,
     ReconcileJob, ReconcileComplete
<1>5. CASE UpdateLabel \/ PatchRag
  <2>1. rec # Idle
    BY <1>5 DEF UpdateLabel, PatchRag, Idle
  <2>. QED BY <1>2, <1>3, <1>5, <2>1 DEF UpdateLabel, PatchRag, Retry
<1>6. CASE CreatePvc \/ FoundPvc \/ FoundJob \/ ReconcileFails
  <2>1. rec # Idle
    BY <1>6 DEF CreatePvc, FoundPvc, FoundJob, ReconcileFails, Idle
  <2>. QED BY <1>3, <1>6, <2>1 DEF CreatePvc, FoundPvc, FoundJob, ReconcileFails, Retry, NotDone
<1>7. ~CreateJob /\ ~SuspendJob
  <2>1. rec.pc = "job" => rec # Idle /\ rec.snap.phase > InitPvc /\ rec.snap.phase \in Nat
    BY NJobsAssumption DEF TypeInv, TypeOK, RecStates, Idle, JobPhases, InitPvc
  <2>2. rag.phase \in Nat
    BY NJobsAssumption DEF TypeInv, TypeOK, Rags, Phases
  <2>. QED BY <2>1, <2>2 DEF CreateJob, SuspendJob, OrderInv, RecInPhase, InitPvc
<1>8. CASE DeliverRag
  <2>1. /\ ragWatch # <<>> /\ ragWatch' = Tail(ragWatch)
        /\ UNCHANGED <<rec, jobH, jobWatch>>
    BY <1>8 DEF DeliverRag
  <2>2. Tail(ragWatch) = <<>>
    <3>1. Len(ragWatch) <= 1
      BY DEF Early
    <3>. QED BY <1>0, <2>1, <3>1
  <2>3. rec = Idle
    BY <2>1 DEF Early
  <2>. QED BY <1>0, <2>1, <2>2, <2>3 DEF Early
<1>9. ~DeliverJob /\ ~WhenJobChanged
  BY DEF DeliverJob, WhenJobChanged, Early
<1>10. CASE Watchers
  <2>1. ~ResetStep /\ ~ResetFails /\ ~WhenPVCDeleted
    BY DEF OrderInv, NoReset, Idle, ResetStep, ListJobs, DeleteJob, DeletePvc, ResetStatus,
           ResetFails, WhenPVCDeleted
  <2>. QED BY <1>8, <1>9, <1>10, <2>1 DEF Watchers, DeliverPvc, Early
<1>11. CASE Cluster
  <2>1. UNCHANGED <<ragWatch, queued, rec, jobH>>
    BY <1>11, ClusterFrame
  <2>2. UNCHANGED jobWatch
    BY <1>11, NothingBefore DEF Cluster, PodStarts, JobCompletes, JobFails, JobEnds, JobSuspends,
       JobResumes, JobCollected, PvcCollected, Unfinished, NoJob
  <2>. QED BY <2>1, <2>2 DEF Early
<1>12. CASE Crash
  BY <1>0, <1>12 DEF Crash, Early
<1>13. CASE Restart
  BY <1>0, <1>13 DEF Restart, Early, Down
<1>14. CASE UNCHANGED vars
  BY <1>14 DEF vars, Early
<1>. QED BY <1>4, <1>5, <1>6, <1>7, <1>10, <1>11, <1>12, <1>13, <1>14 DEF Next, ReconcileStep

\* The patch that opens the first job phase is the last one of init_pvc.
LEMMA SecondOpens ==
  ASSUME OrderInv, TypeInv, TypeInv', Early, Down, rag.phase <= InitPvc, rag'.phase = 2,
         [Next]_vars, ~User
  PROVE  Second'
<1>. USE DEF cluster, watches, views
<1>0. rag # rag'
  BY DEF InitPvc
<1>1. CASE UpdateLabel \/ PatchRag
  <2>1. rec # Idle /\ rec' = Idle
    BY <1>1 DEF UpdateLabel, PatchRag, Retry, Idle
  <2>2. ragWatch = <<>> /\ ~queued
    BY <2>1 DEF Early
  <2>3. PICK r : StoreRag(r) /\ queued' = queued
    BY <1>0, <1>1 DEF UpdateLabel, PatchRag
  <2>4. rag' = r /\ (ragWatch' = <<>> \/ ragWatch' = <<r>>)
    BY <2>2, <2>3 DEF StoreRag, Notify
  <2>5. \A i \in DOMAIN ragWatch' : ragWatch'[i].phase = 2
    BY <2>4
  <2>. QED BY <2>1, <2>2, <2>3, <2>5 DEF Second
<1>2. ASSUME UNCHANGED rag PROVE FALSE
  BY <1>0, <1>2
<1>3. CASE \/ ReconcileLabel \/ ReconcileUnset \/ ReconcileAdvance \/ ReconcilePvc
           \/ ReconcileJob \/ ReconcileComplete \/ CreatePvc \/ FoundPvc \/ CreateJob
           \/ SuspendJob \/ FoundJob \/ ReconcileFails
  BY <1>2, <1>3 DEF ReconcileLabel, ReconcileUnset, ReconcileAdvance, ReconcilePvc,
     ReconcileJob, ReconcileComplete, Take, CreatePvc, FoundPvc, CreateJob, SuspendJob, FoundJob,
     ReconcileFails
<1>4. CASE Watchers
  <2>1. ~ResetStep /\ ~ResetFails /\ ~WhenPVCDeleted /\ ~WhenJobChanged
    BY DEF OrderInv, NoReset, Early, Idle, ResetStep, ListJobs, DeleteJob, DeletePvc, ResetStatus,
           ResetFails, WhenPVCDeleted, WhenJobChanged
  <2>. QED BY <1>2, <1>4, <2>1 DEF Watchers, DeliverRag, DeliverJob, DeliverPvc
<1>5. CASE Cluster \/ Crash \/ Restart \/ UNCHANGED vars
  BY <1>2, <1>5, ClusterFrame DEF Crash, Restart, vars
<1>. QED BY <1>1, <1>3, <1>4, <1>5 DEF Next, ReconcileStep

LEMMA SecondStep ==
  ASSUME OrderInv, TypeInv, TypeInv', Second, Down, rag.phase = 2, rag'.phase = 2,
         [Next]_vars, ~User
  PROVE  Second'
<1>. USE DEF cluster, watches, views
<1>1. ASSUME NEW next, Take(next), next = Idle \/ next.snap = ragView PROVE Second'
  BY <1>1 DEF Take, Second
<1>2. ASSUME NEW r, StoreRag(r), rec' = rec \/ rec' = Idle, queued' = queued, ragView' = ragView
      PROVE  Second'
  <2>1. rag' = r /\ (ragWatch' = ragWatch \/ ragWatch' = Notify(ragWatch, rag'))
    BY <1>2 DEF StoreRag
  <2>2. \A i \in DOMAIN ragWatch' : \/ i \in DOMAIN ragWatch /\ ragWatch'[i] = ragWatch[i]
                                    \/ ragWatch'[i] = rag'
    BY <2>1, NotifyEntries DEF TypeInv, TypeOK
  <2>. QED BY <1>2, <2>2 DEF Second
<1>3. ASSUME rec # Idle, UNCHANGED <<ragWatch, ragView>>, rec' = Idle \/ rec'.snap = rec.snap
      PROVE  Second'
  BY <1>3 DEF Second
<1>4. CASE \/ ReconcileLabel \/ ReconcileUnset \/ ReconcileAdvance \/ ReconcilePvc
           \/ ReconcileJob \/ ReconcileComplete
  BY <1>1, <1>4 DEF ReconcileLabel, ReconcileUnset, ReconcileAdvance, ReconcilePvc,
     ReconcileJob, ReconcileComplete
<1>5. CASE UpdateLabel \/ PatchRag
  <2>1. rec # Idle
    BY <1>5 DEF UpdateLabel, PatchRag, Idle
  <2>. QED BY <1>2, <1>3, <1>5, <2>1 DEF UpdateLabel, PatchRag, Retry
<1>6. CASE CreatePvc \/ FoundPvc \/ CreateJob \/ SuspendJob \/ FoundJob \/ ReconcileFails
  <2>1. rec # Idle /\ UNCHANGED <<ragWatch, ragView>>
    BY <1>6 DEF CreatePvc, FoundPvc, CreateJob, SuspendJob, FoundJob, ReconcileFails, Idle
  <2>2. rec' = Idle \/ rec'.snap = rec.snap
    BY <1>6, <2>1
    DEF CreatePvc, FoundPvc, CreateJob, SuspendJob, FoundJob, ReconcileFails, Retry, NotDone, Plan
  <2>. QED BY <1>3, <2>1, <2>2
<1>7. CASE DeliverRag
  <2>1. ragWatch # <<>> /\ ragView' = Head(ragWatch) /\ rec' = rec
    BY <1>7 DEF DeliverRag
  <2>2. 1 \in DOMAIN ragWatch /\ Head(ragWatch) = ragWatch[1] /\ ragWatch[1] \in Rags
    BY <2>1, TailEntries DEF TypeInv, TypeOK
  <2>3. ragWatch[1].phase \in Nat
    BY <2>2, NJobsAssumption DEF Rags, Phases
  <2>4. ragView'.phase = 2
    BY <2>1, <2>2, <2>3 DEF Second, OrderInv, PhasesSorted
  <2>. QED BY <2>1, <2>4 DEF Second
<1>8. CASE Watchers
  <2>1. ~ResetStep /\ ~ResetFails /\ ~WhenPVCDeleted
    BY DEF OrderInv, NoReset, Idle, ResetStep, ListJobs, DeleteJob, DeletePvc, ResetStatus,
           ResetFails, WhenPVCDeleted
  <2>2. CASE WhenJobChanged
    BY <1>2, <2>2 DEF WhenJobChanged, Second
  <2>. QED BY <1>7, <1>8, <2>1, <2>2 DEF Watchers, DeliverJob, DeliverPvc, Second
<1>9. CASE Cluster
  BY <1>9, ClusterFrame DEF Second
<1>10. CASE Crash
  BY <1>10 DEF Crash, Second
<1>11. CASE Restart
  BY <1>11 DEF Restart, Second, Down
<1>12. CASE UNCHANGED vars
  BY <1>12 DEF vars, Second
<1>. QED BY <1>4, <1>5, <1>6, <1>8, <1>9, <1>10, <1>11, <1>12 DEF Next, ReconcileStep

LEMMA StartsStep ==
  ASSUME OrderInv, TypeInv, TypeInv', Starts, Down, PhaseKept, [Next]_vars, ~User
  PROVE  Starts'
<1>1. rag.phase \in Nat
  BY NJobsAssumption DEF TypeInv, TypeOK, Rags, Phases
<1>2. ASSUME rag'.phase <= InitPvc PROVE Early'
  <2>1. rag.phase <= InitPvc
    BY <1>1, <1>2 DEF PhaseKept, InitPvc
  <2>. QED BY <1>2, <2>1, EarlyStep DEF Starts, Early
<1>3. ASSUME rag'.phase = 2 PROVE Second'
  <2>1. rag.phase <= InitPvc \/ rag.phase = 2
    BY <1>1, <1>3 DEF PhaseKept, InitPvc
  <2>2. rag.phase <= InitPvc => Early
    BY DEF Starts, Early
  <2>3. rag.phase = 2 => Second
    BY DEF Starts, Second
  <2>. QED BY <1>3, <2>1, <2>2, <2>3, SecondOpens, SecondStep
<1>. QED BY <1>2, <1>3 DEF Starts, Early, Second

(* What the RAG says of the phases that ended. *)

\* A patch that changes the condition to another one writes it.
LEMMA PatchCond ==
  ASSUME NEW r \in Rags, NEW b, NEW ph, NEW cd, cd # b.cond
  PROVE  PatchStatus(r, b, ph, cd).cond = cd
BY DEF PatchStatus, Rags

\* How a step changes the status: the phase stays, and does not become done
\* unless the controller has heard so; or the next one opens, not done, after
\* a phase whose job was heard of.
Stays == /\ rag'.phase = rag.phase
         /\ rag'.phase \in JobPhases => rag'.cond = rag.cond \/ rag'.cond \notin CompleteTrue

Opens == /\ rag'.phase = rag.phase + 1
         /\ rag'.phase \in JobPhases => rag'.cond \notin CompleteTrue
         /\ rag.phase \in JobPhases => \E x : Version(x) /\ x.phase = rag.phase /\ PhaseDone(x)

Tells == /\ rag'.phase = rag.phase /\ rag.phase \in JobPhases /\ Heard(rag.phase) /\ jobH' = Idle

LEMMA AllHeardStep ==
  ASSUME OrderInv, TypeInv, TypeInv', AllHeard, VersionsKept, HeardKept, Stays \/ Opens \/ Tells
  PROVE  AllHeard'
<1>1. rag.phase \in Nat /\ \A p \in JobPhases : p \in Nat
  BY NJobsAssumption DEF TypeInv, TypeOK, Rags, Phases, JobPhases
<1>2. rag.phase \in JobPhases /\ rag'.phase # rag.phase => Heard(rag.phase)
  BY DEF Stays, Opens, Tells, AllHeard
<1>3. \A p \in JobPhases : p < rag'.phase => Heard(p)
  BY <1>1, <1>2 DEF Stays, Opens, Tells, AllHeard
<1>4. ASSUME PhaseDone(rag') PROVE Heard(rag'.phase)
  <2>1. Version(rag)
    BY DEF Version
  <2>. QED BY <1>4, <2>1 DEF Stays, Opens, Tells, AllHeard, PhaseDone
<1>5. \A x : Version(x)' /\ PhaseDone(x) => Heard(x.phase) /\ x.phase \in JobPhases
  BY <1>4 DEF VersionsKept, AllHeard, PhaseDone
<1>6. \A p \in JobPhases : Heard(p) => Heard(p)'
  BY DEF HeardKept
<1>7. \A x : Version(x)' /\ PhaseDone(x) => Heard(x.phase)'
  BY <1>5, <1>6
<1>8. \A p \in JobPhases : p < rag'.phase => Heard(p)'
  BY <1>3, <1>6
<1>. QED BY <1>7, <1>8 DEF AllHeard, PhaseDone

LEMMA TellingStep ==
  ASSUME OrderInv, TypeInv, TypeInv', Telling, VersionsKept, HeardKept, Stays \/ Opens \/ Tells,
         jobH' = jobH \/ jobH' = Idle
  PROVE  Telling'
<1>. SUFFICES ASSUME jobH # Idle, jobH.cond = "jobComplete", jobH' = jobH PROVE Telling'
  BY DEF Telling
<1>1. /\ rag.phase \in JobPhases /\ Heard(rag.phase)
      /\ \A x : Version(x) /\ x.phase = rag.phase => x.cond \notin CompleteTrue
  BY DEF Telling
<1>2. ~Opens /\ ~Tells
  BY <1>1 DEF Opens, Tells, PhaseDone
<1>3. rag'.phase = rag.phase /\ (rag'.cond = rag.cond \/ rag'.cond \notin CompleteTrue)
  BY <1>1, <1>2 DEF Stays
<1>4. rag.cond \notin CompleteTrue
  BY <1>1 DEF Version
<1>5. \A x : Version(x)' /\ x.phase = rag.phase => x.cond \notin CompleteTrue
  BY <1>1, <1>3, <1>4 DEF VersionsKept
<1>6. \A p \in JobPhases : Heard(p) => Heard(p)'
  BY DEF HeardKept
<1>7. Heard(rag.phase)'
  <2>1. PICK p \in JobPhases : p = rag.phase
    BY <1>1
  <2>2. Heard(p)' /\ rag'.phase = p
    BY <1>1, <1>3, <1>6, <2>1
  <2>. QED BY <2>2 DEF Heard
<1>. QED BY <1>1, <1>3, <1>5, <1>7 DEF Telling

\* The patch of Reconcile opens the next phase or keeps this one.
LEMMA PatchStep ==
  ASSUME OrderInv, TypeInv, TypeInv', Plans, Starts, PatchRag
  PROVE  Stays \/ Opens
<1>1. /\ rec.snap \in Rags /\ rec.phase \in Phases /\ rec.cond \in Conds
      /\ rec.pc = "patch" /\ rec # Idle /\ rag \in Rags
  BY DEF PatchRag, TypeInv, TypeOK, RecStates, Idle
<1>2. rec.snap.phase \in Nat /\ rec.phase \in Nat /\ rag.phase \in Nat
  BY <1>1, NJobsAssumption DEF Rags, Phases
<1>. DEFINE r == PatchStatus(rag, rec.snap, rec.phase, rec.cond)
<1>3. /\ r.phase = IF rec.phase = rec.snap.phase THEN rag.phase ELSE rec.phase
      /\ r.cond = rag.cond \/ r.cond = rec.cond
      /\ rec.cond # rec.snap.cond => r.cond = rec.cond
  BY <1>1, PatchFields, PatchCond
<1>4. rag' = r
  BY DEF PatchRag, StoreRag
<1>. HIDE DEF r
<1>5. /\ rec.phase \in {rec.snap.phase, rec.snap.phase + 1}
      /\ rec.snap.phase <= rag.phase /\ rag.phase <= rec.snap.phase + 1
  BY <1>1 DEF OrderInv, RecInPhase
<1>6. CASE rec.phase = rec.snap.phase
  <2>1. rag'.phase = rag.phase
    BY <1>3, <1>4, <1>6
  <2>2. ASSUME rag.phase \in JobPhases PROVE rec.snap.phase # InitPvc
    <3>1. rag.phase >= 2
      BY <2>2, NJobsAssumption DEF JobPhases
    <3>2. CASE rag.phase = 2
      BY <1>1, <3>2 DEF Starts, InitPvc
    <3>3. CASE rag.phase > 2
      BY <1>2, <1>5, <3>3 DEF InitPvc
    <3>. QED BY <1>2, <3>1, <3>2, <3>3
  <2>3. rag.phase \in JobPhases => rec.cond \notin CompleteTrue
    BY <1>1, <1>6, <2>2 DEF Plans
  <2>. QED BY <1>3, <1>4, <2>1, <2>3 DEF Stays
<1>7. CASE rec.phase # rec.snap.phase
  <2>1. rag'.phase = rec.phase /\ rec.phase = rec.snap.phase + 1
    BY <1>3, <1>4, <1>5, <1>7
  <2>2. rec.phase \in JobPhases => rec.cond \notin CompleteTrue
    BY <1>1, <1>7 DEF Plans
  <2>3. CASE rag.phase = rec.phase
    BY <1>3, <1>4, <2>1, <2>2, <2>3 DEF Stays
  <2>4. CASE rag.phase = rec.snap.phase
    <3>1. rag'.phase = rag.phase + 1
      BY <2>1, <2>4
    <3>2. rec.snap.phase # Unset => rec.snap.cond \in CompleteTrue
      BY <1>1, <1>7 DEF Plans
    <3>3. rag.phase \in JobPhases => Version(rec.snap) /\ PhaseDone(rec.snap)
      BY <1>1, <2>4, <3>2 DEF Version, PhaseDone, JobPhases, Unset
    <3>4. ASSUME rec.phase \in JobPhases PROVE rag'.cond \notin CompleteTrue
      <4>1. rec.snap.phase # Unset
        BY <1>2, <2>1, <3>4, NJobsAssumption DEF JobPhases, Unset
      <4>2. rag'.cond = rec.cond
        BY <1>3, <1>4, <2>2, <3>2, <3>4, <4>1
      <4>. QED BY <2>2, <3>4, <4>2
    <3>. QED BY <2>1, <2>4, <3>1, <3>3, <3>4 DEF Opens
  <2>. QED BY <1>2, <1>5, <2>1, <2>3, <2>4
<1>. QED BY <1>6, <1>7

\* WhenJobChanged writes to the phase of the job it was called for.
LEMMA HeardStep ==
  ASSUME OrderInv, TypeInv, TypeInv', Telling, WhenJobChanged
  PROVE  Stays \/ Tells
<1>1. /\ jobH # Idle /\ jobH.snap \in Rags /\ jobH.snap.phase \in Phases
      /\ jobH.cond \in Conds /\ jobH.cond \in JobConds /\ rag \in Rags
  BY DEF WhenJobChanged, TypeInv, TypeOK, Rags, Conds
<1>. DEFINE r == PatchStatus(rag, jobH.snap, jobH.snap.phase, jobH.cond)
<1>2. r.phase = rag.phase /\ (r.cond = rag.cond \/ r.cond = jobH.cond)
  BY <1>1, PatchFields
<1>3. jobH' = Idle /\ (rag' = r \/ rag' = rag)
  BY DEF WhenJobChanged, StoreRag
<1>. HIDE DEF r
<1>4. CASE jobH.cond = "jobComplete"
  BY <1>1, <1>2, <1>3, <1>4 DEF Telling, Tells
<1>5. CASE jobH.cond # "jobComplete"
  <2>1. jobH.cond \notin CompleteTrue
    BY <1>1, <1>5 DEF JobConds, CompleteTrue
  <2>. QED BY <1>2, <1>3, <2>1 DEF Stays
<1>. QED BY <1>4, <1>5

\* Any other step keeps the phase and the condition.
LEMMA StatusStep ==
  ASSUME OrderInv, TypeInv, TypeInv', Telling, Plans, Starts, [Next]_vars, ~User
  PROVE  Stays \/ Opens \/ Tells
<1>. USE DEF cluster, watches, views
<1>1. ASSUME rag' = rag PROVE Stays
  BY <1>1 DEF Stays
<1>2. CASE UpdateLabel
  <2>1. rag' = rag \/ rag' = [rag EXCEPT !.label = rag.app]
    BY <1>2 DEF UpdateLabel, StoreRag
  <2>2. rag'.phase = rag.phase /\ rag'.cond = rag.cond
    BY <2>1 DEF TypeInv, TypeOK, Rags
  <2>. QED BY <2>2 DEF Stays
<1>3. CASE PatchRag
  BY <1>3, PatchStep
<1>4. CASE \/ ReconcileLabel \/ ReconcileUnset \/ ReconcileAdvance \/ ReconcilePvc
           \/ ReconcileJob \/ ReconcileComplete \/ CreatePvc \/ FoundPvc \/ CreateJob
           \/ SuspendJob \/ FoundJob \/ ReconcileFails
  BY <1>1, <1>4 DEF ReconcileLabel, ReconcileUnset, ReconcileAdvance, ReconcilePvc,
     ReconcileJob, ReconcileComplete, Take, CreatePvc, FoundPvc, CreateJob, SuspendJob, FoundJob,
     ReconcileFails
<1>5. CASE Watchers
  <2>1. ~ResetStep /\ ~ResetFails /\ ~WhenPVCDeleted
    BY DEF OrderInv, NoReset, Idle, ResetStep, ListJobs, DeleteJob, DeletePvc, ResetStatus,
           ResetFails, WhenPVCDeleted
  <2>. QED BY <1>1, <1>5, <2>1, HeardStep DEF Watchers, DeliverRag, DeliverJob, DeliverPvc
<1>6. CASE Cluster \/ Crash \/ Restart \/ UNCHANGED vars
  BY <1>1, <1>6, ClusterFrame DEF Crash, Restart, vars
<1>. QED BY <1>2, <1>3, <1>4, <1>5, <1>6 DEF Next, ReconcileStep

\* The handler learns of a job: it completed in the phase that is under way.
LEMMA TellingBegins ==
  ASSUME OrderInv, TypeInv, TypeInv', AllHeard, JobSide, VersionsKept, DeliverJob
  PROVE  Telling'
<1>. USE DEF cluster, watches, views
<1>. SUFFICES ASSUME jobH' # Idle, jobH'.cond = "jobComplete" PROVE Telling'
  BY DEF Telling
<1>1. 1 \in DOMAIN jobWatch /\ Head(jobWatch) = jobWatch[1] /\ jobWatch[1][1] \in JobPhases
  BY TailEntries DEF DeliverJob, TypeInv, TypeOK
<1>2. PICK p \in JobPhases : p = jobWatch[1][1]
  BY <1>1
<1>3. /\ jobView' = [jobView EXCEPT ![p] = jobWatch[1][2]] /\ rag' = rag
      /\ jobWatch[1][2].cond = "jobComplete" /\ ~Heard(p)
  BY <1>1, <1>2 DEF DeliverJob, Heard, Idle
<1>4. jobs[p].cond = "jobComplete" /\ jobs[p] # NoJob
  BY <1>1, <1>2, <1>3 DEF JobSide, JobNews, NoJob
<1>5. rag.phase \in Nat /\ p \in Nat
  BY NJobsAssumption DEF TypeInv, TypeOK, Rags, Phases, JobPhases
<1>6. rag.phase = p
  BY <1>3, <1>4, <1>5 DEF OrderInv, JobsInOrder, AllHeard
<1>7. jobView'[p].cond = "jobComplete"
  BY <1>3 DEF TypeInv, TypeOK
<1>8. \A x : Version(x) /\ x.phase = p => x.cond \notin CompleteTrue
  BY <1>3 DEF AllHeard, PhaseDone
<1>9. \A x : Version(x)' => Version(x)
  <2>1. Version(rag)
    BY DEF Version
  <2>. QED BY <1>3, <2>1 DEF VersionsKept
<1>10. \A x : Version(x)' /\ x.phase = rag'.phase => x.cond \notin CompleteTrue
  BY <1>3, <1>6, <1>8, <1>9
<1>11. rag'.phase \in JobPhases /\ Heard(rag.phase)'
  BY <1>3, <1>6, <1>7 DEF Heard
<1>. QED BY <1>10, <1>11 DEF Telling

LEMMA HandlerFrame ==
  ASSUME OrderInv, [Next]_vars, ~User, ~DeliverJob
  PROVE  jobH' = jobH \/ jobH' = Idle
<1>. USE DEF cluster, watches, views
<1>1. CASE ReconcileStep \/ ReconcileFails
  BY <1>1 DEF ReconcileStep, ReconcileFails, ReconcileLabel, ReconcileUnset, ReconcileAdvance,
     ReconcilePvc, ReconcileJob, ReconcileComplete, Take, UpdateLabel, PatchRag, CreatePvc,
     FoundPvc, CreateJob, SuspendJob, FoundJob
<1>2. CASE Watchers
  BY <1>2 DEF Watchers, ResetStep, DeliverRag, ListJobs, DeleteJob, DeletePvc, ResetStatus,
     ResetFails, WhenJobChanged, DeliverPvc, WhenPVCDeleted
<1>3. CASE Cluster \/ Crash \/ Restart \/ UNCHANGED vars
  BY <1>3, ClusterFrame DEF Crash, Restart, vars
<1>. QED BY <1>1, <1>2, <1>3 DEF Next

\* Nothing that is not an edit disturbs the invariant.
LEMMA RanStep ==
  ASSUME OrderInv, TypeInv, TypeInv', RanInv, [Next]_vars, ~User
  PROVE  OrderInv' /\ RanInv'
<1>1. OrderInv' /\ PhaseKept
  BY OrderStep DEF User
<1>2. JobSide' /\ HeardKept
  BY JobSideStep DEF RanInv, JobSide
<1>3. VersionsKept
  BY VersionsStep
<1>4. Plans' /\ Down' /\ Starts'
  BY <1>1, PlansStep, DownStep, StartsStep DEF RanInv
<1>5. Stays \/ Opens \/ Tells
  BY StatusStep DEF RanInv
<1>6. AllHeard'
  BY <1>2, <1>3, <1>5, AllHeardStep DEF RanInv
<1>7. Telling'
  BY <1>2, <1>3, <1>5, TellingStep, TellingBegins, HandlerFrame DEF RanInv, JobSide
<1>. QED BY <1>1, <1>2, <1>4, <1>6, <1>7 DEF RanInv, JobSide

\* An edit is counted, and no count is taken back.
LEMMA EditsCount ==
  ASSUME TypeOK, [Next]_vars, used'.edits = 0
  PROVE  used.edits = 0 /\ ~User
<1>. USE DEF cluster, watches, views
<1>1. used \in [edits: Nat, faults: Nat, failures: Nat, crashes: Nat]
  BY DEF TypeOK
<1>2. used.edits \in Nat
  BY <1>1
<1>3. ASSUME used' = [used EXCEPT !.edits = @ + 1] PROVE FALSE
  <2>1. used'.edits = used.edits + 1
    BY <1>1, <1>3
  <2>. QED BY <1>2, <2>1
<1>4. ~User
  BY <1>3 DEF User, EditInputs, EditMetrics, EditSuspend, Edit, RemovePvc
<1>5. ASSUME used'.edits = used.edits PROVE used.edits = 0
  BY <1>5
<1>6. ASSUME Fault \/ UNCHANGED used PROVE used'.edits = used.edits
  BY <1>1, <1>6 DEF Fault
<1>7. CASE ReconcileStep \/ ReconcileFails
  <2>1. Fault \/ UNCHANGED used
    BY <1>7 DEF ReconcileStep, ReconcileFails, ReconcileLabel, ReconcileUnset, ReconcileAdvance,
       ReconcilePvc, ReconcileJob, ReconcileComplete, Take, UpdateLabel, PatchRag, CreatePvc,
       FoundPvc, CreateJob, SuspendJob, FoundJob
  <2>. QED BY <1>4, <1>5, <1>6, <2>1
<1>8. CASE Watchers
  <2>1. Fault \/ UNCHANGED used
    BY <1>8 DEF Watchers, ResetStep, DeliverRag, ListJobs, DeleteJob, DeletePvc, ResetStatus,
       ResetFails, DeliverJob, WhenJobChanged, DeliverPvc, WhenPVCDeleted
  <2>. QED BY <1>4, <1>5, <1>6, <2>1
<1>9. CASE Cluster
  <2>1. ASSUME NEW p \in JobPhases, JobFails(p) PROVE used'.edits = used.edits
    BY <1>1, <2>1 DEF JobFails
  <2>2. (\E p \in JobPhases : JobFails(p)) \/ UNCHANGED used
    BY <1>9 DEF Cluster, PodStarts, JobCompletes, JobSuspends, JobResumes, JobCollected, PvcCollected
  <2>. QED BY <1>4, <1>5, <2>1, <2>2
<1>10. CASE Crash \/ Restart \/ UNCHANGED vars
  BY <1>1, <1>4, <1>10 DEF Crash, Restart, vars
<1>. QED BY <1>4, <1>7, <1>8, <1>9, <1>10 DEF Next

\* While users have not edited the RAG, Reconcile has left a job phase only
\* after the job of that phase, and not another one, ran to its end: no stale
\* patch of Reconcile or WhenJobChanged marks a phase as done whose job did not
\* run. For any number of phases, faults and restarts.
THEOREM PhasesRan == Spec => []PassedPhasesRan
<1>. DEFINE Inv == used.edits = 0 => OrderInv /\ RanInv
<1>1. Init => Inv
  BY OrderInit, RanInit
<1>2. Inv /\ TypeInv /\ TypeInv' /\ [Next]_vars => Inv'
  <2>. SUFFICES ASSUME Inv, TypeInv, TypeInv', [Next]_vars, used'.edits = 0
                PROVE  OrderInv' /\ RanInv'
    OBVIOUS
  <2>1. used.edits = 0 /\ ~User
    BY EditsCount DEF TypeInv
  <2>2. OrderInv /\ RanInv
    BY <2>1
  <2>. QED BY <2>1, <2>2, RanStep
<1>3. Inv => PassedPhasesRan
  BY DEF RanInv, AllHeard, JobNews, JobsKept, PassedPhasesRan
<1>. QED BY <1>1, <1>2, <1>3, TypeInvariant, PTL DEF Spec

-----------------------------------------------------------------------------
(***************************************************************************)
(* The inductive invariant behind OneSpecPerVolume, where users edit the   *)
(* inputs, or delete the claim, of evaluations that have ended, and the    *)
(* controller does not restart. Results of an old spec are then safe in    *)
(* two ways: as long as the old claim is there nothing moves but           *)
(* DeleteJobsAndPvc, and when it goes no pod has it mounted.               *)
(***************************************************************************)

\* Reconcile works on the spec that the API server has.
Current ==
  /\ up
  /\ ragWatch = <<>> \/ queued \/ rec # Idle => SpecOf(ragView) = SpecOf(rag)
  /\ rec # Idle => SpecOf(rec.snap) = SpecOf(rag)
  /\ \A i \in DOMAIN ragWatch : SpecOf(ragWatch[i]) = SpecOf(rag)

\* The controller has seen of a job what the watch has no more news of.
JobsSeen == \A p \in JobPhases :
  /\ (\A i \in DOMAIN jobWatch : jobWatch[i][1] # p) => jobView[p] = jobs[p]
  /\ \A i \in DOMAIN jobWatch :
       jobWatch[i][1] = p /\ (\A k \in DOMAIN jobWatch : i < k => jobWatch[k][1] # p)
         => jobWatch[i][2] = jobs[p]

\* Only jobs of the present spec go on.
JobsOfSpec == \A p \in JobPhases :
  /\ Unfinished(p) => jobs[p].ver = SpecOf(rag)
  /\ p \in pods => Unfinished(p)

\* No job has a condition that the controller does not know.
OldConds(c) == \A p \in JobPhases :
  /\ jobs[p] # NoJob => jobs[p].cond = c[p]
  /\ jobView[p] # NoJob => jobView[p].cond = c[p]
  /\ \A i \in DOMAIN jobWatch :
       jobWatch[i][1] = p /\ jobWatch[i][2] # NoJob => jobWatch[i][2].cond = c[p]

\* Nothing is under way but the deletion of the jobs, or what calls for it.
Still ==
  /\ ~queued /\ rec = Idle /\ jobH = Idle /\ pvcH = Idle /\ pvcWatch = <<>>
  /\ resetter.pc \in {"idle", "list", "jobs"}
  /\ ragWatch # <<>> => /\ resetter = Idle /\ Tail(ragWatch) = <<>>
                        /\ RAGSpecChanged(Head(ragWatch), ragView)
  /\ \A p \in JobPhases : ~Unfinished(p)
  /\ \E c \in [JobPhases -> JobConds \cup {"none"}] : OldConds(c)

\* The volume has results of a spec that is not the present one.
Dirty == \E p \in JobPhases : ran[p] \notin {Never, SpecOf(rag)}

Volume ==
  /\ pvc = "absent" => pods = {} /\ \A p \in JobPhases : ran[p] = Never
  /\ Dirty => pods = {}
  /\ Dirty /\ pvc = "present" => Still

VolInv == Current /\ JobsSeen /\ JobsOfSpec /\ Volume /\ OneSpecPerVolume

\* What is assumed of the users and of the controller's process.
EditsWhenEnded ==
  Edits \subseteq {"inputs", "claim"} /\ EditTime = "ended" /\ MaxCrashes = 0

LEMMA VolInit == Init => VolInv
<1>. SUFFICES ASSUME Init PROVE VolInv
  OBVIOUS
<1>1. /\ ragView = rag /\ ragWatch = <<>> /\ jobWatch = <<>> /\ rec = Idle /\ up /\ pods = {}
      /\ \A p \in JobPhases : jobs[p] = NoJob /\ jobView[p] = NoJob /\ ran[p] = Never
  BY DEF Init
<1>. QED BY <1>1 DEF VolInv, Current, JobsSeen, JobsOfSpec, Unfinished, Volume, Dirty,
             OneSpecPerVolume

(* Which spec is worked on. *)

SpecKept == SpecOf(rag') = SpecOf(rag)

LEMMA PatchSpec ==
  ASSUME NEW r \in Rags, NEW b, NEW ph, NEW cd
  PROVE  SpecOf(PatchStatus(r, b, ph, cd)) = SpecOf(r)
BY DEF PatchStatus, Rags, SpecOf

\* How the RAG, its watch and its cache change in a step other than an edit or
\* a delivery: Reconcile goes on only where it was going, and from the cache.
RagFrame ==
  /\ up' = up /\ ragView' = ragView /\ SpecKept
  /\ ragWatch' = ragWatch \/ ragWatch' = Notify(ragWatch, rag')
  /\ rec' # Idle \/ queued' => rec # Idle \/ queued
  /\ rec' = Idle \/ (rec # Idle /\ rec'.snap = rec.snap) \/ (queued /\ rec'.snap = ragView)

LEMMA FrameOfStep ==
  ASSUME TypeInv, Current, EditsWhenEnded, [Next]_vars, ~DeliverRag, ~User
  PROVE  RagFrame
<1>. USE DEF cluster, watches, views
<1>0. rag \in Rags
  BY DEF TypeInv, TypeOK
<1>1. ASSUME UNCHANGED <<rag, ragWatch, ragView, up, rec, queued>> PROVE RagFrame
  BY <1>1 DEF RagFrame, SpecKept
<1>2. ASSUME NEW next, Take(next), next = Idle \/ next.snap = ragView PROVE RagFrame
  BY <1>2 DEF Take, RagFrame, SpecKept
<1>3. ASSUME NEW r, StoreRag(r), SpecOf(r) = SpecOf(rag), UNCHANGED <<ragView, up, queued>>,
             rec' = rec \/ rec' = Idle
      PROVE  RagFrame
  <2>1. rag' = r /\ (ragWatch' = ragWatch \/ ragWatch' = Notify(ragWatch, rag'))
    BY <1>3 DEF StoreRag
  <2>. QED BY <1>3, <2>1 DEF RagFrame, SpecKept
<1>4. ASSUME UNCHANGED <<rag, ragWatch, ragView, up>>, rec # Idle,
             rec' = Idle \/ rec'.snap = rec.snap
      PROVE  RagFrame
  BY <1>4 DEF RagFrame, SpecKept
<1>5. CASE \/ ReconcileLabel \/ ReconcileUnset \/ ReconcileAdvance \/ ReconcilePvc
           \/ ReconcileJob \/ ReconcileComplete
  BY <1>2, <1>5 DEF ReconcileLabel, ReconcileUnset, ReconcileAdvance, ReconcilePvc,
     ReconcileJob, ReconcileComplete
<1>6. CASE UpdateLabel
  <2>1. SpecOf([rag EXCEPT !.label = rag.app]) = SpecOf(rag)
    BY <1>0 DEF Rags, SpecOf
  <2>2. rec # Idle
    BY <1>6 DEF UpdateLabel, Idle
  <2>. QED BY <1>3, <1>4, <1>6, <2>1, <2>2 DEF UpdateLabel, Retry
<1>7. CASE PatchRag
  BY <1>0, <1>3, <1>7, PatchSpec DEF PatchRag
<1>8. CASE CreatePvc \/ FoundPvc \/ CreateJob \/ SuspendJob \/ FoundJob \/ ReconcileFails
  <2>1. rec # Idle /\ UNCHANGED <<rag, ragWatch, ragView, up>>
    BY <1>8 DEF CreatePvc, FoundPvc, CreateJob, SuspendJob, FoundJob, ReconcileFails, Idle
  <2>2. rec' = Idle \/ rec'.snap = rec.snap
    BY <1>8, <2>1
    DEF CreatePvc, FoundPvc, CreateJob, SuspendJob, FoundJob, ReconcileFails, Retry, NotDone, Plan
  <2>. QED BY <1>4, <2>1, <2>2
<1>9. CASE ResetStatus \/ WhenJobChanged \/ WhenPVCDeleted
  BY <1>0, <1>1, <1>3, <1>9, PatchSpec DEF ResetStatus, WhenJobChanged, WhenPVCDeleted
<1>10. CASE Watchers
  BY <1>1, <1>9, <1>10 DEF Watchers, ResetStep, ListJobs, DeleteJob, DeletePvc, ResetFails,
     DeliverJob, DeliverPvc
<1>11. CASE Cluster
  BY <1>1, <1>11, ClusterFrame
<1>12. ~Crash /\ ~Restart
  BY DEF Crash, Restart, TypeInv, TypeOK, EditsWhenEnded, Current
<1>13. CASE UNCHANGED vars
  BY <1>1, <1>13 DEF vars
<1>. QED BY <1>5, <1>6, <1>7, <1>8, <1>10, <1>11, <1>12, <1>13 DEF Next, ReconcileStep

\* The head and the rest of a watch are entries of it.
LEMMA WatchEntries ==
  ASSUME TypeOK, ragWatch # <<>>
  PROVE  /\ \E k \in DOMAIN ragWatch : Head(ragWatch) = ragWatch[k]
         /\ \A i \in DOMAIN Tail(ragWatch) : \E k \in DOMAIN ragWatch : Tail(ragWatch)[i] = ragWatch[k]
  BY TailEntries DEF TypeOK

\* What EditInputs finds, and what it leaves.
LEMMA EditFinds ==
  ASSUME TypeInv, VolInv, EditsWhenEnded, EditInputs
  PROVE  /\ Quiet /\ \A p \in JobPhases : ~Unfinished(p) /\ p \notin pods
         /\ UNCHANGED <<pvc, jobs, pods, ran, pvcWatch, jobWatch, ragView, jobView, up, queued,
                        rec, resetter, jobH, pvcH>>
         /\ ragWatch' = <<rag'>> /\ RAGSpecChanged(rag', ragView)
<1>1. PICK a \in Apps, d \in Datasets : /\ <<a, d>> # <<rag.app, rag.datasets>>
                                        /\ Edit([rag EXCEPT !.app = a, !.datasets = d])
  BY DEF EditInputs
<1>. DEFINE r == [rag EXCEPT !.app = a, !.datasets = d]
<1>2. r.app = a /\ r.datasets = d
  BY DEF TypeInv, TypeOK, Rags
<1>3. r # rag /\ (r.app # rag.app \/ r.datasets # rag.datasets)
  BY <1>1, <1>2
<1>4. Edit(r)
  BY <1>1
<1>. HIDE DEF r
<1>5. /\ Quiet /\ \A p \in JobPhases : ~Unfinished(p)
      /\ StoreRag(r)
      /\ UNCHANGED <<pvc, jobs, pods, ran, pvcWatch, jobWatch, ragView, jobView, up, queued,
                     rec, resetter, jobH, pvcH>>
  BY <1>4 DEF Edit, MayEdit, EditsWhenEnded, cluster, views
<1>6. ragWatch = <<>> /\ up
  BY <1>5 DEF Quiet
<1>7. SpecOf(ragView) = SpecOf(rag)
  BY <1>6 DEF VolInv, Current
<1>8. ragView.app = rag.app /\ ragView.datasets = rag.datasets
  BY <1>7 DEF SpecOf
<1>9. rag' = r /\ ragWatch' = <<r>>
  BY <1>3, <1>5, <1>6 DEF StoreRag, Notify
<1>10. RAGSpecChanged(r, ragView)
  BY <1>3, <1>8 DEF RAGSpecChanged
<1>11. \A p \in JobPhases : p \notin pods
  BY <1>5 DEF VolInv, JobsOfSpec
<1>. QED BY <1>5, <1>9, <1>10, <1>11

\* Deleting the claim of an evaluation leaves the RAG alone.
LEMMA OtherEdits ==
  ASSUME EditsWhenEnded
  PROVE  ~EditMetrics /\ ~EditSuspend
         /\ (RemovePvc => /\ pvc' = "deleting"
                          /\ UNCHANGED <<rag, jobs, pods, ran, ragWatch, jobWatch, ragView, jobView,
                                         up, queued, rec, resetter, jobH, pvcH>>)
BY DEF EditsWhenEnded, EditMetrics, EditSuspend, RemovePvc, StorePvc, views

LEMMA CurrentStep ==
  ASSUME TypeInv, TypeInv', VolInv, EditsWhenEnded, [Next]_vars
  PROVE  Current'
<1>. USE DEF cluster, watches, views
<1>1. ASSUME RagFrame PROVE Current'
  <2>1. /\ rag' \in Rags /\ ragWatch \in Seq(Rags)
        /\ up' = up /\ ragView' = ragView /\ SpecOf(rag') = SpecOf(rag)
        /\ ragWatch' = ragWatch \/ ragWatch' = Notify(ragWatch, rag')
    BY <1>1 DEF TypeInv, TypeOK, RagFrame, SpecKept
  <2>2. \A i \in DOMAIN ragWatch' : \/ i \in DOMAIN ragWatch /\ ragWatch'[i] = ragWatch[i]
                                    \/ ragWatch'[i] = rag'
    BY <2>1, NotifyEntries
  <2>3. ragWatch' = <<>> => ragWatch = <<>>
    BY <2>1 DEF Notify
  <2>4. \A i \in DOMAIN ragWatch' : SpecOf(ragWatch'[i]) = SpecOf(rag')
    BY <2>1, <2>2 DEF VolInv, Current
  <2>5. ragWatch' = <<>> \/ queued' \/ rec' # Idle => SpecOf(ragView') = SpecOf(rag')
    BY <1>1, <2>1, <2>3 DEF VolInv, Current, RagFrame
  <2>6. rec' # Idle => SpecOf(rec'.snap) = SpecOf(rag')
    BY <1>1, <2>1 DEF VolInv, Current, RagFrame
  <2>. QED BY <2>1, <2>4, <2>5, <2>6 DEF VolInv, Current
<1>2. CASE DeliverRag
  <2>1. /\ ragWatch # <<>> /\ ragWatch' = Tail(ragWatch) /\ ragView' = Head(ragWatch)
        /\ UNCHANGED <<rag, rec, up>>
    BY <1>2 DEF DeliverRag
  <2>. QED BY <2>1, WatchEntries DEF TypeInv, VolInv, Current
<1>3. CASE EditInputs
  <2>1. /\ rec' = Idle /\ ~queued' /\ up' /\ ragWatch' = <<rag'>>
    BY <1>3, EditFinds DEF Quiet
  <2>2. ragWatch' # <<>> /\ \A i \in DOMAIN ragWatch' : ragWatch'[i] = rag'
    BY <2>1
  <2>. QED BY <2>1, <2>2 DEF Current
<1>4. CASE RemovePvc
  <2>1. UNCHANGED <<rag, ragWatch, ragView, up, queued, rec>>
    BY <1>4, OtherEdits
  <2>. QED BY <2>1 DEF VolInv, Current
<1>. QED BY <1>1, <1>2, <1>3, <1>4, FrameOfStep, OtherEdits DEF User, VolInv

(* Jobs: the news of them, and the spec they were made for. *)

\* Who stores a job, and what of it may change.
JobFrame ==
  \/ UNCHANGED <<jobs, jobWatch>>
  \/ \E p \in JobPhases, j \in Jobs \cup {NoJob} :
       /\ StoreJob(p, j)
       /\ \/ jobs[p] = NoJob /\ j.ver = SpecOf(rag) /\ p \notin pods /\ pods' = pods
          \/ jobs[p] # NoJob /\ j # NoJob /\ j.ver = jobs[p].ver
             /\ pods' = pods /\ j.cond = jobs[p].cond
          \/ jobs[p] # NoJob /\ j # NoJob /\ j.ver = jobs[p].ver
             /\ Unfinished(p) /\ pods' \subseteq pods
             /\ (Ended(j) => p \notin pods')
          \/ j = NoJob /\ pods' = pods \ {p}

LEMMA JobFrameOfStep ==
  ASSUME TypeInv, VolInv, [Next]_vars
  PROVE  JobFrame \/ DeliverJob \/ ~up'
<1>. USE DEF cluster, watches, views
<1>1. ASSUME UNCHANGED <<jobs, jobWatch>> PROVE JobFrame
  BY <1>1 DEF JobFrame
<1>2. CASE CreateJob
  <2>. DEFINE p == rec.snap.phase
             j == [ver |-> SpecOf(rec.snap), suspend |-> rec.snap.suspend,
                   cond |-> "none", deleting |-> FALSE]
  <2>1. rec.pc = "job" /\ rec # Idle
    BY <1>2 DEF CreateJob, Idle
  <2>2. rec.snap \in Rags /\ p \in JobPhases
    BY <2>1 DEF TypeInv, TypeOK, RecStates, Idle
  <2>3. j \in Jobs
    BY <2>2 DEF Jobs, Rags, Specs, SpecOf
  <2>4. j.ver = SpecOf(rag)
    BY <2>1 DEF VolInv, Current
  <2>5. CASE jobs[p] = NoJob /\ StoreJob(p, j)
    <3>1. p \notin pods /\ pods' = pods
      BY <1>2, <2>5 DEF CreateJob, TypeInv, PodsHaveJobs
    <3>. HIDE DEF p, j
    <3>. QED BY <2>1, <2>2, <2>3, <2>4, <2>5, <3>1 DEF JobFrame
  <2>. QED BY <1>1, <1>2, <2>5 DEF CreateJob, PhaseJobName
<1>3. ASSUME NEW p \in JobPhases, NEW j \in Jobs \cup {NoJob}, StoreJob(p, j),
             jobs[p] # NoJob, j # NoJob, j.ver = jobs[p].ver, j.cond = jobs[p].cond, pods' = pods
      PROVE  JobFrame
  BY <1>3 DEF JobFrame
<1>4. CASE SuspendJob
  <2>. DEFINE p == rec.snap.phase
             j == [jobView[p] EXCEPT !.suspend = rec.snap.suspend]
  <2>1. rec.pc = "job"
    BY <1>4 DEF SuspendJob
  <2>2. p \in JobPhases /\ rec.snap.suspend \in BOOLEAN
    BY <2>1 DEF TypeInv, TypeOK, RecStates, Rags, Idle
  <2>3. jobView[p] # NoJob /\ jobView[p] \in Jobs /\ j \in Jobs /\ j # NoJob
    BY <1>4, <2>2, JobEdits, JobNotNone DEF SuspendJob, PhaseJobName, TypeInv, TypeOK
  <2>4. j.ver = jobView[p].ver /\ j.cond = jobView[p].cond
    BY <2>3 DEF Jobs
  <2>5. CASE jobs[p] = jobView[p] /\ StoreJob(p, j)
    <3>1. pods' = pods
      BY <1>4 DEF SuspendJob
    <3>. HIDE DEF p, j
    <3>. QED BY <1>3, <2>2, <2>3, <2>4, <2>5, <3>1
  <2>. QED BY <1>1, <1>4, <2>5 DEF SuspendJob, PhaseJobName
<1>5. ASSUME NEW p \in JobPhases, DeleteJob(p) PROVE JobFrame
  <2>. DEFINE j == [jobs[p] EXCEPT !.deleting = TRUE]
  <2>1. CASE jobs[p] # NoJob /\ StoreJob(p, j)
    <3>1. j \in Jobs /\ j # NoJob
      BY <2>1, JobEdits, JobNotNone DEF TypeInv, TypeOK
    <3>2. j.ver = jobs[p].ver /\ j.cond = jobs[p].cond
      BY <2>1, JobVersion DEF Jobs
    <3>3. pods' = pods
      BY <1>5 DEF DeleteJob
    <3>. HIDE DEF j
    <3>. QED BY <1>3, <2>1, <3>1, <3>2, <3>3
  <2>. QED BY <1>1, <1>5, <2>1 DEF DeleteJob
<1>6. ASSUME NEW p \in JobPhases, NEW c \in JobConds, JobCondition(p, c), Unfinished(p),
             pods' \subseteq pods, c \in {"jobComplete", "jobFailed"} => p \notin pods'
      PROVE  JobFrame
  <2>. DEFINE j == [jobs[p] EXCEPT !.cond = c]
  <2>1. jobs[p] # NoJob /\ jobs[p] \in Jobs
    BY <1>6, JobVersion DEF Unfinished
  <2>2. j \in Jobs /\ j # NoJob
    BY <2>1, JobEdits, JobNotNone
  <2>3. j.ver = jobs[p].ver /\ j.cond = c
    BY <2>1 DEF Jobs
  <2>4. StoreJob(p, j)
    BY <1>6 DEF JobCondition
  <2>. HIDE DEF j
  <2>5. Ended(j) => p \notin pods'
    BY <1>6, <2>3 DEF Ended
  <2>. QED BY <1>6, <2>1, <2>2, <2>3, <2>4, <2>5 DEF JobFrame
<1>7. CASE Cluster
  <2>1. ASSUME NEW p \in JobPhases, JobCompletes(p) \/ JobFails(p) PROVE JobFrame
    <3>1. /\ p \in pods /\ pods' = pods \ {p}
          /\ JobCondition(p, "jobComplete") \/ JobCondition(p, "jobFailed")
      BY <2>1 DEF JobCompletes, JobFails, JobEnds
    <3>2. Unfinished(p)
      BY <3>1 DEF VolInv, JobsOfSpec
    <3>. QED BY <1>6, <3>1, <3>2 DEF JobConds
  <2>2. ASSUME NEW p \in JobPhases, JobSuspends(p) \/ JobResumes(p) PROVE JobFrame
    <3>1. /\ Unfinished(p) /\ pods' \subseteq pods
          /\ JobCondition(p, "jobSuspended") \/ JobCondition(p, "jobResumed")
      BY <2>2 DEF JobSuspends, JobResumes
    <3>. QED BY <1>6, <3>1 DEF JobConds
  <2>3. ASSUME NEW p \in JobPhases, JobCollected(p) PROVE JobFrame
    BY <2>3 DEF JobCollected, JobFrame
  <2>. QED BY <1>1, <1>7, <2>1, <2>2, <2>3 DEF Cluster, PodStarts, PvcCollected
<1>8. CASE ReconcileStep \/ ReconcileFails
  BY <1>1, <1>2, <1>4, <1>8 DEF ReconcileStep, ReconcileFails, ReconcileLabel, ReconcileUnset,
     ReconcileAdvance, ReconcilePvc, ReconcileJob, ReconcileComplete, Take, UpdateLabel, PatchRag,
     CreatePvc, FoundPvc, FoundJob
<1>9. CASE Watchers
  BY <1>1, <1>5, <1>9 DEF Watchers, ResetStep, DeliverRag, ListJobs, DeletePvc, ResetStatus,
     ResetFails, WhenJobChanged, DeliverPvc, WhenPVCDeleted
<1>10. CASE User
  BY <1>1, <1>10 DEF User, EditInputs, EditMetrics, EditSuspend, Edit, RemovePvc
<1>11. CASE Crash \/ Restart
  BY <1>1, <1>11 DEF Crash, Restart
<1>12. CASE UNCHANGED vars
  BY <1>1, <1>12 DEF vars
<1>. QED BY <1>7, <1>8, <1>9, <1>10, <1>11, <1>12 DEF Next

\* The cache of the jobs follows the watch.
LEMMA ViewFrame ==
  ASSUME VolInv, TypeInv, [Next]_vars
  PROVE  UNCHANGED jobView \/ DeliverJob
<1>. USE DEF cluster, watches, views
<1>1. CASE ReconcileStep \/ ReconcileFails
  BY <1>1 DEF ReconcileStep, ReconcileFails, ReconcileLabel, ReconcileUnset,
     ReconcileAdvance, ReconcilePvc, ReconcileJob, ReconcileComplete, Take, UpdateLabel, PatchRag,
     CreatePvc, FoundPvc, CreateJob, SuspendJob, FoundJob
<1>2. CASE Watchers
  BY <1>2 DEF Watchers, ResetStep, DeliverRag, ListJobs, DeleteJob, DeletePvc, ResetStatus,
     ResetFails, WhenJobChanged, DeliverPvc, WhenPVCDeleted
<1>3. CASE Cluster
  BY <1>3, ClusterFrame
<1>4. CASE User
  BY <1>4 DEF User, EditInputs, EditMetrics, EditSuspend, Edit, RemovePvc
<1>5. CASE Crash
  BY <1>5 DEF Crash
<1>6. ~Restart
  BY DEF Restart, VolInv, Current, TypeInv, TypeOK
<1>7. CASE UNCHANGED vars
  BY <1>7 DEF vars
<1>. QED BY <1>1, <1>2, <1>3, <1>4, <1>5, <1>6, <1>7 DEF Next

LEMMA JobsSeenStep ==
  ASSUME TypeInv, TypeInv', VolInv, Current', [Next]_vars
  PROVE  JobsSeen'
<1>. USE DEF cluster, watches, views
<1>0. /\ up /\ up' /\ jobWatch \in Seq(JobPhases \X (Jobs \cup {NoJob}))
      /\ \A i \in DOMAIN jobWatch : i \in Nat /\ i <= Len(jobWatch) /\ jobWatch[i][1] \in JobPhases
  BY DEF VolInv, Current, TypeInv, TypeOK
<1>1. CASE DeliverJob
  <2>1. /\ UNCHANGED jobs /\ jobWatch # <<>> /\ jobWatch' = Tail(jobWatch)
        /\ jobView' = [jobView EXCEPT ![Head(jobWatch)[1]] = Head(jobWatch)[2]]
    BY <1>1 DEF DeliverJob
  <2>2. /\ 1 \in DOMAIN jobWatch /\ Head(jobWatch) = jobWatch[1]
        /\ \A i \in DOMAIN jobWatch' :
             i \in Nat /\ i + 1 \in DOMAIN jobWatch /\ jobWatch'[i] = jobWatch[i + 1] /\ 1 < i + 1
        /\ \A i \in DOMAIN jobWatch : i = 1 \/ (i - 1 \in DOMAIN jobWatch' /\ jobWatch'[i - 1] = jobWatch[i])
    <3>1. \A i \in DOMAIN jobWatch : i = 1 \/ (i - 1 \in DOMAIN jobWatch' /\ jobWatch'[i - 1] = jobWatch[i])
      BY <1>0, <2>1
    <3>. QED BY <1>0, <2>1, <3>1, TailEntries
  <2>3. \A q \in JobPhases : jobView'[q] = IF q = jobWatch[1][1] THEN jobWatch[1][2] ELSE jobView[q]
    BY <1>0, <2>1, <2>2 DEF TypeInv, TypeOK
  <2>4. ASSUME NEW p \in JobPhases, \A i \in DOMAIN jobWatch' : jobWatch'[i][1] # p
        PROVE  jobView'[p] = jobs[p]
    <3>1. \A i \in DOMAIN jobWatch : i = 1 \/ jobWatch[i][1] # p
      BY <2>2, <2>4
    <3>2. CASE jobWatch[1][1] = p
      <4>1. \A k \in DOMAIN jobWatch : 1 < k => jobWatch[k][1] # p
        BY <3>1
      <4>. QED BY <2>2, <2>3, <3>2, <4>1 DEF VolInv, JobsSeen
    <3>3. CASE jobWatch[1][1] # p
      BY <2>3, <3>1, <3>3 DEF VolInv, JobsSeen
    <3>. QED BY <3>2, <3>3
  <2>5. ASSUME NEW p \in JobPhases, NEW i \in DOMAIN jobWatch', jobWatch'[i][1] = p,
               \A k \in DOMAIN jobWatch' : i < k => jobWatch'[k][1] # p
        PROVE  jobWatch'[i][2] = jobs[p]
    <3>1. i + 1 \in DOMAIN jobWatch /\ jobWatch[i + 1] = jobWatch'[i] /\ i \in Nat
      BY <2>2
    <3>2. \A k \in DOMAIN jobWatch : i + 1 < k => jobWatch[k][1] # p
      <4>1. TAKE k \in DOMAIN jobWatch
      <4>2. HAVE i + 1 < k
      <4>3. k \in Nat /\ k # 1 /\ i < k - 1
        BY <1>0, <3>1, <4>2
      <4>. QED BY <2>2, <2>5, <4>3
    <3>. QED BY <2>5, <3>1, <3>2 DEF VolInv, JobsSeen
  <2>. QED BY <2>1, <2>4, <2>5 DEF JobsSeen
<1>2. ASSUME UNCHANGED <<jobs, jobWatch, jobView>> PROVE JobsSeen'
  BY <1>2 DEF VolInv, JobsSeen
<1>3. ASSUME NEW p \in JobPhases, NEW j \in Jobs \cup {NoJob}, StoreJob(p, j), UNCHANGED jobView
      PROVE  JobsSeen'
  <2>1. jobWatch' = Append(jobWatch, <<p, j>>)
    BY <1>0, <1>3 DEF StoreJob, Notify
  <2>2. \A q \in JobPhases : jobs'[q] = IF q = p THEN j ELSE jobs[q]
    BY <1>3 DEF StoreJob, TypeInv, TypeOK
  <2>. DEFINE n == Len(jobWatch) + 1
  <2>3. /\ n \in DOMAIN jobWatch' /\ jobWatch'[n] = <<p, j>> /\ n \in Nat
        /\ \A i \in DOMAIN jobWatch : i \in DOMAIN jobWatch' /\ jobWatch'[i] = jobWatch[i] /\ i < n
        /\ \A i \in DOMAIN jobWatch' : i = n \/ i \in DOMAIN jobWatch
    BY <1>0, <2>1
  <2>. HIDE DEF n
  <2>4. ASSUME NEW q \in JobPhases, \A i \in DOMAIN jobWatch' : jobWatch'[i][1] # q
        PROVE  jobView'[q] = jobs'[q]
    <3>1. q # p
      BY <2>3, <2>4
    <3>. QED BY <1>3, <2>2, <2>3, <2>4, <3>1 DEF VolInv, JobsSeen
  <2>5. ASSUME NEW q \in JobPhases, NEW i \in DOMAIN jobWatch', jobWatch'[i][1] = q,
               \A k \in DOMAIN jobWatch' : i < k => jobWatch'[k][1] # q
        PROVE  jobWatch'[i][2] = jobs'[q]
    <3>1. CASE i = n
      BY <2>2, <2>3, <2>5, <3>1
    <3>2. CASE i \in DOMAIN jobWatch
      <4>1. q # p
        BY <2>3, <2>5, <3>2
      <4>2. \A k \in DOMAIN jobWatch : i < k => jobWatch[k][1] # q
        BY <2>3, <2>5
      <4>3. jobWatch[i][1] = q /\ jobWatch'[i] = jobWatch[i]
        BY <2>3, <2>5, <3>2
      <4>. QED BY <2>2, <3>2, <4>1, <4>2, <4>3 DEF VolInv, JobsSeen
    <3>. QED BY <2>3, <3>1, <3>2
  <2>. QED BY <2>4, <2>5 DEF JobsSeen
<1>4. CASE JobFrame /\ UNCHANGED jobView
  <2>1. \/ UNCHANGED <<jobs, jobWatch>>
        \/ \E p \in JobPhases, j \in Jobs \cup {NoJob} : StoreJob(p, j)
    BY <1>4 DEF JobFrame
  <2>. QED BY <1>2, <1>3, <1>4, <2>1
<1>. QED BY <1>0, <1>1, <1>4, JobFrameOfStep, ViewFrame

(* The volume and the pods that write to it. *)

ClusterSide ==
  /\ \/ pods' \subseteq pods
     \/ \E p \in JobPhases : PodStarts(p)
  /\ \/ ran' = ran
     \/ \E p \in JobPhases : p \in pods /\ ran' = [ran EXCEPT ![p] = jobs[p].ver]
     \/ PvcCollected
  /\ pvc' = pvc \/ CreatePvc \/ PvcCollected \/ pvc' = "deleting"

LEMMA ClusterSideOfStep ==
  ASSUME [Next]_vars
  PROVE  ClusterSide
<1>. USE DEF cluster, watches, views
<1>1. CASE ReconcileStep \/ ReconcileFails
  BY <1>1 DEF ReconcileStep, ReconcileFails, ReconcileLabel, ReconcileUnset, ReconcileAdvance,
     ReconcilePvc, ReconcileJob, ReconcileComplete, Take, UpdateLabel, PatchRag, CreatePvc,
     FoundPvc, CreateJob, SuspendJob, FoundJob, ClusterSide
<1>2. CASE Watchers
  BY <1>2 DEF Watchers, ResetStep, DeliverRag, ListJobs, DeleteJob, DeletePvc, ResetStatus,
     ResetFails, DeliverJob, WhenJobChanged, DeliverPvc, WhenPVCDeleted, StorePvc, ClusterSide
<1>3. CASE Cluster
  BY <1>3 DEF Cluster, PodStarts, JobCompletes, JobFails, JobEnds, JobSuspends, JobResumes,
     JobCondition, JobCollected, PvcCollected, ClusterSide
<1>4. CASE User \/ Crash \/ Restart \/ UNCHANGED vars
  BY <1>4 DEF User, EditInputs, EditMetrics, EditSuspend, Edit, RemovePvc, StorePvc, Crash, Restart,
     vars, ClusterSide
<1>. QED BY <1>1, <1>2, <1>3, <1>4 DEF Next

LEMMA SpecKeptStep ==
  ASSUME TypeInv, VolInv, EditsWhenEnded, [Next]_vars, ~EditInputs
  PROVE  SpecKept
<1>1. DeliverRag => SpecKept
  BY DEF DeliverRag, SpecKept
<1>2. RemovePvc => SpecKept
  BY OtherEdits DEF SpecKept
<1>3. ~DeliverRag /\ ~User => SpecKept
  BY FrameOfStep DEF RagFrame, VolInv
<1>. QED BY <1>1, <1>2, <1>3, OtherEdits DEF User

LEMMA JobsOfSpecStep ==
  ASSUME TypeInv, TypeInv', VolInv, Current', EditsWhenEnded, [Next]_vars
  PROVE  JobsOfSpec'
<1>. USE DEF cluster, watches, views
<1>1. CASE EditInputs
  BY <1>1, EditFinds DEF JobsOfSpec, Unfinished
<1>. SUFFICES ASSUME ~EditInputs PROVE JobsOfSpec'
  BY <1>1
<1>2. SpecOf(rag') = SpecOf(rag)
  BY SpecKeptStep DEF SpecKept
<1>3. CASE UNCHANGED jobs
  <2>1. \A p \in pods' : p \in pods \/ Unfinished(p)
    BY ClusterSideOfStep DEF ClusterSide, PodStarts
  <2>2. \A p \in JobPhases : Unfinished(p)' <=> Unfinished(p)
    BY <1>3 DEF Unfinished
  <2>. QED BY <1>2, <1>3, <2>1, <2>2 DEF VolInv, JobsOfSpec
<1>4. CASE JobFrame
  <2>1. SUFFICES ASSUME NEW p \in JobPhases, NEW j \in Jobs \cup {NoJob}, StoreJob(p, j),
                        \/ jobs[p] = NoJob /\ j.ver = SpecOf(rag) /\ p \notin pods /\ pods' = pods
                        \/ jobs[p] # NoJob /\ j # NoJob /\ j.ver = jobs[p].ver
                           /\ pods' = pods /\ j.cond = jobs[p].cond
                        \/ jobs[p] # NoJob /\ j # NoJob /\ j.ver = jobs[p].ver
                           /\ Unfinished(p) /\ pods' \subseteq pods /\ (Ended(j) => p \notin pods')
                        \/ j = NoJob /\ pods' = pods \ {p}
                 PROVE  JobsOfSpec'
    BY <1>3, <1>4 DEF JobFrame
  <2>2. \A q \in JobPhases : jobs'[q] = IF q = p THEN j ELSE jobs[q]
    BY <2>1 DEF StoreJob, TypeInv, TypeOK
  <2>3. /\ (j # NoJob /\ ~Ended(j)) => j.ver = SpecOf(rag)
        /\ p \in pods' => j # NoJob /\ ~Ended(j)
    BY <2>1 DEF VolInv, JobsOfSpec, Unfinished, Ended
  <2>4. pods' \subseteq pods
    BY <2>1
  <2>. QED BY <1>2, <2>2, <2>3, <2>4 DEF VolInv, JobsOfSpec, Unfinished
<1>5. CASE DeliverJob
  BY <1>3, <1>5 DEF DeliverJob
<1>. QED BY <1>4, <1>5, JobFrameOfStep DEF Current

\* A quiet evaluation whose inputs are edited is still.
LEMMA StillAfterEdit ==
  ASSUME TypeInv, VolInv, EditsWhenEnded, EditInputs
  PROVE  Still'
<1>1. /\ Quiet /\ \A p \in JobPhases : ~Unfinished(p)
      /\ UNCHANGED <<pvc, jobs, pods, pvcWatch, jobWatch, ragView, jobView, queued,
                     rec, resetter, jobH, pvcH>>
      /\ ragWatch' = <<rag'>> /\ RAGSpecChanged(rag', ragView)
  BY EditFinds
<1>2. /\ ~queued /\ rec = Idle /\ resetter = Idle /\ jobH = Idle /\ pvcH = Idle
      /\ jobWatch = <<>> /\ pvcWatch = <<>>
  BY <1>1 DEF Quiet
<1>3. \A p \in JobPhases : jobView[p] = jobs[p]
  BY <1>2 DEF VolInv, JobsSeen
<1>. DEFINE c == [p \in JobPhases |-> jobs[p].cond]
<1>4. c \in [JobPhases -> JobConds \cup {"none"}]
  <2>1. \A j \in Jobs \cup {NoJob} : j.cond \in JobConds \cup {"none"}
    BY DEF Jobs, NoJob
  <2>. QED BY <2>1 DEF TypeInv, TypeOK
<1>5. OldConds(c)'
  BY <1>1, <1>2, <1>3 DEF OldConds
<1>6. /\ Head(ragWatch') = rag' /\ Tail(ragWatch') = <<>>
  BY <1>1
<1>7. \A p \in JobPhases : ~Unfinished(p)'
  BY <1>1 DEF Unfinished
<1>8. \E d \in [JobPhases -> JobConds \cup {"none"}] : OldConds(d)'
  <2>1. c' = c
    BY <1>1
  <2>. HIDE DEF c
  <2>. QED BY <1>4, <1>5, <2>1 DEF OldConds
<1>. QED BY <1>1, <1>2, <1>6, <1>7, <1>8 DEF Still, Idle

\* A job that is deleted, or is to be, keeps its condition.
LEMMA OldCondsStored ==
  ASSUME TypeInv, VolInv, NEW c, OldConds(c), NEW p \in JobPhases, NEW j \in Jobs \cup {NoJob},
         StoreJob(p, j), UNCHANGED jobView, j = NoJob \/ (jobs[p] # NoJob /\ j.cond = jobs[p].cond),
         \A q \in JobPhases : ~Unfinished(q)
  PROVE  /\ \A q \in JobPhases : /\ jobs'[q] # NoJob => jobs'[q].cond = c[q]
                                 /\ jobView'[q] # NoJob => jobView'[q].cond = c[q]
                                 /\ \A i \in DOMAIN jobWatch' :
                                      jobWatch'[i][1] = q /\ jobWatch'[i][2] # NoJob
                                        => jobWatch'[i][2].cond = c[q]
         /\ \A q \in JobPhases : jobs'[q] = NoJob \/ Ended(jobs'[q])
<1>1. \A q \in JobPhases : jobs'[q] = IF q = p THEN j ELSE jobs[q]
  BY DEF StoreJob, TypeInv, TypeOK
<1>2. j # NoJob => j.cond = c[p]
  BY DEF OldConds
<1>3. \A i \in DOMAIN jobWatch' : \/ i \in DOMAIN jobWatch /\ jobWatch'[i] = jobWatch[i]
                                  \/ jobWatch'[i] = <<p, j>>
  <2>1. <<p, j>> \in JobPhases \X (Jobs \cup {NoJob})
    OBVIOUS
  <2>. QED BY <2>1, NotifyEntries DEF StoreJob, TypeInv, TypeOK
<1>4. \A i \in DOMAIN jobWatch' : \A q \in JobPhases :
        jobWatch'[i][1] = q /\ jobWatch'[i][2] # NoJob => jobWatch'[i][2].cond = c[q]
  BY <1>2, <1>3 DEF OldConds
<1>5. \A q \in JobPhases : jobs'[q] # NoJob => jobs'[q].cond = c[q]
  BY <1>1, <1>2 DEF OldConds
<1>6. \A q \in JobPhases : jobs'[q] = NoJob \/ Ended(jobs'[q])
  BY <1>1 DEF Unfinished, Ended
<1>7. \A q \in JobPhases : jobView'[q] # NoJob => jobView'[q].cond = c[q]
  BY DEF OldConds
<1>. QED BY <1>4, <1>5, <1>6, <1>7

\* As long as the old claim is there, the evaluation stays still.
LEMMA StillStep ==
  ASSUME TypeInv, TypeInv', VolInv, Still, EditsWhenEnded, [Next]_vars, ~EditInputs,
         pvc = "present", pvc' = "present"
  PROVE  Still'
<1>. USE DEF cluster, watches, views
<1>0. PICK c \in [JobPhases -> JobConds \cup {"none"}] : OldConds(c)
  BY DEF Still
<1>1. /\ ~queued /\ rec = Idle /\ jobH = Idle /\ pvcH = Idle /\ pvcWatch = <<>>
      /\ \A p \in JobPhases : ~Unfinished(p) /\ p \notin pods
  BY DEF Still, VolInv, JobsOfSpec
<1>2. ~ReconcileStep /\ ~ReconcileFails
  BY <1>1 DEF ReconcileStep, ReconcileFails, ReconcileLabel, ReconcileUnset,
     ReconcileAdvance, ReconcilePvc, ReconcileJob, ReconcileComplete, Take, UpdateLabel, PatchRag,
     CreatePvc, FoundPvc, CreateJob, SuspendJob, FoundJob, Idle
<1>3. ASSUME UNCHANGED <<jobs, jobWatch, jobView, queued, rec, jobH, pvcH, pvcWatch>>,
             resetter'.pc \in {"idle", "list", "jobs"},
             ragWatch' # <<>> => /\ resetter' = Idle /\ Tail(ragWatch') = <<>>
                                 /\ RAGSpecChanged(Head(ragWatch'), ragView')
      PROVE  Still'
  <2>1. OldConds(c)' /\ \A p \in JobPhases : ~Unfinished(p)'
    BY <1>0, <1>1, <1>3 DEF OldConds, Unfinished
  <2>2. \E d \in [JobPhases -> JobConds \cup {"none"}] : OldConds(d)'
    BY <2>1
  <2>. QED BY <1>1, <1>3, <2>1, <2>2 DEF Still
<1>4. ASSUME NEW p \in JobPhases, NEW j \in Jobs \cup {NoJob}, StoreJob(p, j),
             j = NoJob \/ (jobs[p] # NoJob /\ j.cond = jobs[p].cond),
             UNCHANGED <<jobView, queued, rec, jobH, pvcH, pvcWatch, ragWatch, ragView>>,
             resetter' = resetter \/ (resetter # Idle /\ resetter'.pc = "jobs")
      PROVE  Still'
  <2>1. OldConds(c)'
    BY <1>0, <1>1, <1>4, OldCondsStored DEF OldConds
  <2>2. \A q \in JobPhases : ~Unfinished(q)'
    BY <1>0, <1>1, <1>4, OldCondsStored DEF Unfinished, Ended
  <2>3. \E d \in [JobPhases -> JobConds \cup {"none"}] : OldConds(d)'
    BY <2>1
  <2>. QED BY <1>1, <1>4, <2>2, <2>3 DEF Still
<1>5. CASE DeliverRag
  <2>1. /\ RAGSpecChanged(Head(ragWatch), ragView) /\ Tail(ragWatch) = <<>>
        /\ ragWatch' = Tail(ragWatch)
    BY <1>5 DEF DeliverRag, Still
  <2>2. /\ UNCHANGED <<jobs, jobWatch, jobView, queued, rec, jobH, pvcH, pvcWatch>>
        /\ resetter' = [pc |-> "list", snap |-> Head(ragWatch)]
    BY <1>5, <2>1 DEF DeliverRag
  <2>. QED BY <1>3, <2>1, <2>2
<1>6. CASE ListJobs
  <2>1. /\ UNCHANGED <<jobs, jobWatch, jobView, queued, rec, jobH, pvcH, pvcWatch, ragWatch, ragView>>
        /\ resetter # Idle /\ resetter'.pc = "jobs"
    BY <1>6 DEF ListJobs, Idle
  <2>. QED BY <1>3, <2>1 DEF Still
<1>7. ASSUME NEW p \in JobPhases, DeleteJob(p) PROVE Still'
  <2>. DEFINE j == [jobs[p] EXCEPT !.deleting = TRUE]
  <2>1. /\ UNCHANGED <<jobView, queued, rec, jobH, pvcH, pvcWatch, ragWatch, ragView>>
        /\ resetter # Idle /\ resetter' = [resetter EXCEPT !.todo = @ \ {p}]
        /\ resetter \in [pc: {"jobs"}, snap: Rags, todo: SUBSET JobPhases]
    BY <1>7 DEF DeleteJob, Idle, TypeInv, TypeOK
  <2>2. resetter'.pc = "jobs"
    BY <2>1
  <2>3. CASE jobs[p] # NoJob /\ StoreJob(p, j)
    <3>1. j \in Jobs /\ j.cond = jobs[p].cond
      BY <2>3, JobVersion, JobEdits DEF Jobs
    <3>. HIDE DEF j
    <3>. QED BY <1>4, <2>1, <2>2, <2>3, <3>1
  <2>4. CASE UNCHANGED <<jobs, jobWatch>>
    BY <1>3, <2>1, <2>2, <2>4 DEF Still
  <2>. QED BY <1>7, <2>3, <2>4 DEF DeleteJob
<1>8. CASE DeletePvc \/ ResetStatus
  BY <1>8 DEF DeletePvc, ResetStatus, StorePvc, Still
<1>9. CASE ResetFails
  <2>1. /\ UNCHANGED <<jobs, jobWatch, jobView, queued, rec, jobH, pvcH, pvcWatch, ragWatch, ragView>>
        /\ resetter # Idle /\ resetter' = Idle
    BY <1>9 DEF ResetFails
  <2>. QED BY <1>3, <2>1 DEF Still, Idle
<1>10. CASE DeliverJob
  <2>1. /\ UNCHANGED <<jobs, queued, rec, pvcH, pvcWatch, ragWatch, ragView, resetter>>
        /\ jobWatch # <<>> /\ jobWatch' = Tail(jobWatch)
    BY <1>10 DEF DeliverJob
  <2>2. /\ 1 \in DOMAIN jobWatch /\ Head(jobWatch) = jobWatch[1]
        /\ jobWatch[1][1] \in JobPhases
        /\ \A i \in DOMAIN jobWatch' : i + 1 \in DOMAIN jobWatch /\ jobWatch'[i] = jobWatch[i + 1]
    BY <2>1, TailEntries DEF TypeInv, TypeOK
  <2>3. PICK p \in JobPhases : p = jobWatch[1][1]
    BY <2>2
  <2>4. /\ jobView' = [jobView EXCEPT ![p] = jobWatch[1][2]]
        /\ jobWatch[1][2] # NoJob => jobWatch[1][2].cond = c[p]
        /\ jobView[p] # NoJob => jobView[p].cond = c[p]
    BY <1>0, <1>10, <2>2, <2>3 DEF DeliverJob, OldConds
  <2>5. jobH' = Idle
    BY <1>10, <2>2, <2>3, <2>4 DEF DeliverJob
  <2>6. \A q \in JobPhases : jobView'[q] = IF q = p THEN jobWatch[1][2] ELSE jobView[q]
    BY <2>4 DEF TypeInv, TypeOK
  <2>7. OldConds(c)'
    BY <1>0, <2>1, <2>2, <2>4, <2>6 DEF OldConds
  <2>8. \A q \in JobPhases : ~Unfinished(q)'
    BY <1>1, <2>1 DEF Unfinished
  <2>9. \E d \in [JobPhases -> JobConds \cup {"none"}] : OldConds(d)'
    BY <2>7
  <2>. QED BY <1>1, <2>1, <2>5, <2>8, <2>9 DEF Still
<1>11. ~WhenJobChanged /\ ~DeliverPvc /\ ~WhenPVCDeleted
  BY <1>1 DEF WhenJobChanged, DeliverPvc, WhenPVCDeleted
<1>12. CASE Watchers
  BY <1>5, <1>6, <1>7, <1>8, <1>9, <1>10, <1>11, <1>12 DEF Watchers, ResetStep
<1>13. CASE Cluster
  <2>1. ASSUME NEW p \in JobPhases, JobCollected(p) PROVE Still'
    BY <1>4, <2>1 DEF JobCollected
  <2>. QED BY <1>1, <1>13, <2>1 DEF Cluster, PodStarts, JobCompletes, JobFails, JobEnds, JobSuspends,
                                    JobResumes, PvcCollected
<1>14. ~User /\ ~Crash /\ ~Restart
  BY OtherEdits DEF User, Crash, Restart, EditsWhenEnded, VolInv, Current, TypeInv, TypeOK
<1>15. CASE UNCHANGED vars
  <2>1. UNCHANGED <<jobs, jobWatch, jobView, queued, rec, jobH, pvcH, pvcWatch, ragWatch, ragView,
                    resetter>>
    BY <1>15 DEF vars
  <2>. QED BY <1>3, <2>1 DEF Still
<1>. QED BY <1>2, <1>12, <1>13, <1>14, <1>15 DEF Next

\* Results are written by a pod of the present spec, on a volume without others.
LEMMA ResultsStep ==
  ASSUME TypeInv, VolInv, [Next]_vars, SpecKept
  PROVE  /\ Dirty' => Dirty
         /\ OneSpecPerVolume'
<1>1. CASE ran' = ran
  BY <1>1 DEF Dirty, SpecKept, VolInv, OneSpecPerVolume
<1>2. CASE \E p \in JobPhases : p \in pods /\ ran' = [ran EXCEPT ![p] = jobs[p].ver]
  <2>1. PICK p \in JobPhases : p \in pods /\ ran' = [ran EXCEPT ![p] = jobs[p].ver]
    BY <1>2
  <2>2. jobs[p].ver = SpecOf(rag) /\ ~Dirty
    BY <2>1 DEF VolInv, JobsOfSpec, Volume
  <2>3. \A q \in JobPhases : ran'[q] = IF q = p THEN SpecOf(rag) ELSE ran[q]
    BY <2>1, <2>2 DEF TypeInv, TypeOK
  <2>4. \A q \in JobPhases : ran'[q] \in {Never, SpecOf(rag)}
    BY <2>2, <2>3 DEF Dirty
  <2>. QED BY <2>4 DEF Dirty, SpecKept, OneSpecPerVolume
<1>3. CASE PvcCollected
  <2>1. \A q \in JobPhases : ran'[q] = Never
    BY <1>3 DEF PvcCollected
  <2>. QED BY <2>1 DEF Dirty, OneSpecPerVolume
<1>. QED BY <1>1, <1>2, <1>3, ClusterSideOfStep DEF ClusterSide

LEMMA VolumeStep ==
  ASSUME TypeInv, TypeInv', VolInv, EditsWhenEnded, [Next]_vars
  PROVE  Volume' /\ OneSpecPerVolume'
<1>1. CASE EditInputs
  <2>1. UNCHANGED <<pvc, ran>> /\ pods' = {}
    <3>1. pods \subseteq JobPhases
      BY DEF TypeInv, TypeOK
    <3>. QED BY <1>1, <3>1, EditFinds
  <2>. QED BY <1>1, <2>1, StillAfterEdit DEF Volume, VolInv, OneSpecPerVolume
<1>. SUFFICES ASSUME ~EditInputs PROVE Volume' /\ OneSpecPerVolume'
  BY <1>1
<1>2. (Dirty' => Dirty) /\ OneSpecPerVolume'
  BY SpecKeptStep, ResultsStep
<1>3. ASSUME NEW p \in JobPhases, PodStarts(p) PROVE ~Dirty /\ pvc' = "present"
  BY <1>3 DEF PodStarts, VolInv, Volume, Still
<1>4. Dirty' => pods' = {}
  <2>1. CASE pods' \subseteq pods
    BY <1>2, <2>1 DEF VolInv, Volume
  <2>2. CASE \E p \in JobPhases : PodStarts(p)
    BY <1>2, <1>3, <2>2
  <2>. QED BY <2>1, <2>2, ClusterSideOfStep DEF ClusterSide
<1>5. ASSUME pvc' = "absent" PROVE pods' = {} /\ \A p \in JobPhases : ran'[p] = Never
  <2>1. CASE PvcCollected
    BY <2>1 DEF PvcCollected
  <2>2. CASE ~PvcCollected
    <3>1. pvc = "absent"
      BY <1>5, <2>2, ClusterSideOfStep DEF ClusterSide, CreatePvc, StorePvc
    <3>2. pods' = {}
      BY <1>3, <1>5, <3>1, ClusterSideOfStep DEF ClusterSide, VolInv, Volume
    <3>3. ran' = ran
      BY <2>2, <3>1, ClusterSideOfStep DEF ClusterSide, VolInv, Volume
    <3>. QED BY <3>1, <3>2, <3>3 DEF VolInv, Volume
  <2>. QED BY <2>1, <2>2
<1>6. ASSUME Dirty', pvc' = "present" PROVE Still'
  <2>1. Dirty
    BY <1>2, <1>6
  <2>2. pvc # "absent"
    BY <2>1 DEF Dirty, VolInv, Volume
  <2>3. pvc = "present"
    BY <1>6, <2>2, ClusterSideOfStep DEF ClusterSide, CreatePvc, StorePvc, PvcCollected
  <2>. QED BY <1>6, <2>1, <2>3, StillStep DEF VolInv, Volume
<1>. QED BY <1>2, <1>4, <1>5, <1>6 DEF Volume

\* When users edit the inputs, or delete the claim, of evaluations that have
\* ended, and the controller does not restart, DeleteJobsAndPvc keeps the
\* results of two specs apart, although its calls may fail one by one and jobs
\* and claim go long after they are told to: for all specs, any number of
\* phases, edits, failed calls and failed jobs.
THEOREM SpecsApart ==
  ASSUME Edits \subseteq {"inputs", "claim"}, EditTime = "ended", MaxCrashes = 0
  PROVE  Spec => []OneSpecPerVolume
<1>1. VolInv /\ TypeInv /\ TypeInv' /\ [Next]_vars => VolInv'
  <2>. SUFFICES ASSUME VolInv, TypeInv, TypeInv', [Next]_vars PROVE VolInv'
    OBVIOUS
  <2>1. EditsWhenEnded
    BY DEF EditsWhenEnded
  <2>2. Current'
    BY <2>1, CurrentStep
  <2>. QED BY <2>1, <2>2, JobsSeenStep, JobsOfSpecStep, VolumeStep DEF VolInv
<1>2. VolInv => OneSpecPerVolume
  BY DEF VolInv
<1>. QED BY <1>1, <1>2, VolInit, TypeInvariant, PTL DEF Spec
================================================================================
