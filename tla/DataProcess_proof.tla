-------------------------- MODULE DataProcess_proof --------------------------
(***************************************************************************)
(* Proofs about DataProcess, for all sets of tasks, all sizes of files,    *)
(* and every number of runs, failures, restarts and deletions: type        *)
(* correctness, that the file of a document that succeeded speaks of every *)
(* part of it, that such a file is not lost, how tasks end, and that where *)
(* no two actors met and nothing was restarted a file says nothing twice.  *)
(***************************************************************************)
EXTENDS DataProcess, SequenceTheorems, FiniteSetTheorems, TLAPS

-----------------------------------------------------------------------------
(* Types *)

\* Where a run is at work on a document, and where it has documents to do.
Working == {"mark", "chunk", "ask", "embed", "answered", "save"}
Asking  == {"ask", "embed", "answered"}
Busy    == {"next", "load"} \cup Working
PCs     == Busy \cup {"begin", "docs", "list", "put", "rows", "caught", "done"}

RunRecords ==
  [pc : PCs, task : Tasks, retry : BOOLEAN, todo : SUBSET (1..NDocs), seen : [1..NDocs -> RowStatus],
   doc : Docs, list : SUBSET Chunks, chunk : Chunks, files : SUBSET Docs, status : Ends \cup {"none"}]

Types == TypeOK /\ runs \in Seq(RunRecords)

TaskRecords ==
  [status : TaskStatus, log : 0..MaxRuns, config : {"qa", "dedup", "chunks"},
   kinds : [1..NDocs -> {"text", "web", "other"}]]

\* Types, but for the number of runs.
Tables ==
  /\ task \in [Tasks -> TaskRecords]
  /\ log \in [Ids -> Ends \cup {"none", "open"}]
  /\ doc \in [Docs -> RowStatus] /\ chunk \in [Docs -> [Chunks -> RowStatus]]
  /\ qa \in [Docs -> SUBSET Rows] /\ emb \in [Docs -> SUBSET Rows] /\ csv \in [Docs -> SUBSET Rows]
  /\ clean \in [Docs -> [kept : SUBSET Rows, dropped : SUBSET Rows]]
  /\ dataset \in [Tasks -> Ends \cup {"none", "processing"}]
  /\ bucket \in [Tasks -> SUBSET Docs] /\ folder \subseteq Docs /\ mixed \subseteq Tasks

LEMMA TypesAre == Types <=> Tables /\ Len(runs) <= MaxRuns /\ runs \in Seq(RunRecords)
BY DEF Types, TypeOK, Tables, TaskRecords

LEMMA NDocsType == NDocs \in Nat /\ 1 \in 1..NDocs
BY SizesAssumption, EmptySeq DEF NDocs

LEMMA DocsType ==
  ASSUME NEW t \in Tasks, NEW i \in 1..NDocs
  PROVE  <<t, i>> \in Docs
BY DEF Docs

LEMMA PartsType ==
  ASSUME NEW d \in Docs
  PROVE  1 \in Parts(d) /\ Parts(d) \X Ids \subseteq Chunks
<1>1. d[2] \in 1..Len(NParts)
  BY DEF Docs, NDocs
<1>2. NParts[d[2]] \in Nat \ {0}
  BY <1>1, SizesAssumption, ElementOfSeq
<1> QED
  BY <1>2 DEF Parts, AnyPart, Chunks

LEMMA EndedType ==
  ASSUME NEW t \in Tasks
  PROVE  /\ Ended(t) \in RunRecords
         /\ Ended(t).pc = "done" /\ Ended(t).task = t /\ Ended(t).retry = FALSE /\ Ended(t).todo = {}
<1>1. <<t, 1>> \in Docs
  BY NDocsType, DocsType
<1>2. <<1, 1>> \in Chunks
  BY <1>1, PartsType, SizesAssumption DEF Ids
<1> QED
  BY <1>1, <1>2, NDocsType DEF Ended, RunRecords, PCs, RowStatus

LEMMA IdsOfRuns ==
  ASSUME Types, NEW r \in DOMAIN runs
  PROVE  r \in Ids /\ r \in 1..Len(runs) /\ runs[r] \in RunRecords /\ Len(runs) \in Nat
BY LenProperties, ElementOfSeq, SizesAssumption DEF Types, TypeOK, Ids

\* A step of a run leaves the others where they are.
LEMMA Moved ==
  ASSUME Types, NEW r \in DOMAIN runs, NEW new \in RunRecords, runs' = [runs EXCEPT ![r] = new]
  PROVE  /\ runs' \in Seq(RunRecords) /\ Len(runs') = Len(runs) /\ Len(runs') <= MaxRuns
         /\ DOMAIN runs' = DOMAIN runs
         /\ runs'[r] = new /\ \A q \in DOMAIN runs : q # r => runs'[q] = runs[q]
<1>1. r \in 1..Len(runs) /\ runs \in Seq(RunRecords) /\ Len(runs) <= MaxRuns
  BY IdsOfRuns DEF Types, TypeOK
<1>2. /\ runs' \in Seq(RunRecords) /\ Len(runs') = Len(runs)
      /\ \A q \in 1..Len(runs) : runs'[q] = IF q = r THEN new ELSE runs[q]
  BY <1>1, ExceptSeq
<1> QED
  BY <1>1, <1>2, LenProperties

-----------------------------------------------------------------------------
(* The invariant *)

\* Every part of the document has a chunk.
HasRows(d) == \A p \in Parts(d) : \E c \in Chunks : c[1] = p /\ chunk[d][c] # "none"

\* Something about this part is in the table, and in the clean one.
Told(d, p) == \E x \in qa[d] : PartOf(x) = p
Held(d, p) == \E x \in clean[d].kept : PartOf(x) = p

Whole(d) == {PartOf(x) : x \in csv[d]} = Parts(d)

\* What is known of a document in any state: chunks and answers are about its parts,
\* what was dropped has a duplicate that was kept, a chunk is called successful when
\* it was asked about, and a document is begun when all its chunks are there.  What
\* is known of a document with a row is lost when the task is deleted, and the row
\* with it.
DocOK(d) ==
  /\ \A c \in Chunks : chunk[d][c] # "none" => c[1] \in Parts(d)
  /\ \A x \in qa[d] : PartOf(x) \in Parts(d)
  /\ \A x \in clean[d].kept : PartOf(x) \in Parts(d)
  /\ \A x \in clean[d].dropped : Held(d, PartOf(x))
  /\ task[d[1]].config = "chunks" => \A c \in Chunks : chunk[d][c] # "success"
  /\ doc[d] # "none" => \A c \in Chunks : chunk[d][c] = "success" => Told(d, c[1])
  /\ doc[d] \in {"doing", "success", "fail"} => HasRows(d)
  /\ doc[d] = "success" => Whole(d)

\* What a run relies on: a part of its document is in its list, or done.
Relies(run, q) ==
  LET d == run.doc
      chunks == task[d[1]].config = "chunks"
      listed(p) == \E c \in run.list : c[1] = p
  IN
  /\ run.pc \in Working \cup {"load"} => d[1] = run.task
  /\ run.pc \in Working => run.list \subseteq Parts(d) \X Ids
  /\ run.pc \in Asking => run.chunk[1] \in Parts(d)
  /\ run.pc \in {"chunk"} \cup Asking => ~chunks
  /\ doc[d] # "none" =>
       /\ run.pc \in {"embed", "answered"} => <<run.chunk, q>> \in qa[d]
       /\ run.pc \in Working => HasRows(d)
       /\ run.pc \in Working /\ chunks => \A p \in Parts(d) : listed(p)
       /\ run.pc \in Working \ {"save"} /\ ~chunks => \A p \in Parts(d) : Told(d, p) \/ listed(p)
       /\ run.pc = "save" /\ ~chunks => \A p \in Parts(d) : Held(d, p)

\* And what it has seen to be begun is begun.
RunOK(q) ==
  LET run == runs[q] IN
  /\ run.pc = "docs" => ~run.retry
  /\ run.pc \in Busy \cup {"put", "rows"} => run.status \in Ends
  /\ Relies(run, q)
  /\ run.pc \in Busy /\ run.retry =>
       \A i \in run.todo : run.seen[i] # "not_start" /\ doc[<<run.task, i>>] # "none" => HasRows(<<run.task, i>>)

\* Before a new run has made the rows of its documents nobody has any.
Blank(d) == doc[d] = "none" /\ (\A c \in Chunks : chunk[d][c] = "none") /\ qa[d] = {}
Idle(q)  == runs[q].pc \notin Busy \cup {"docs"} /\ (runs[q].pc = "begin" => runs[q].retry)
Newly(q) == runs[q].pc \in {"begin", "docs"} /\ ~runs[q].retry
FreshOK(q) ==
  Newly(q) =>
    /\ \A d \in DocsOf(runs[q].task) : Blank(d)
    /\ \A r \in DOMAIN runs : r # q /\ runs[r].task = runs[q].task => Idle(r)

\* A task that was not asked for has nothing.
TaskOK(t) ==
  task[t].status = "none" =>
    (\A d \in DocsOf(t) : Blank(d)) /\ \A q \in DOMAIN runs : runs[q].task # t

IInv ==
  /\ Types
  /\ \A d \in Docs : DocOK(d)
  /\ \A q \in DOMAIN runs : RunOK(q) /\ FreshOK(q)
  /\ \A t \in Tasks : TaskOK(t)

-----------------------------------------------------------------------------
(* A step of a run *)

\* The document is left alone; what it has is not taken away.
Same(d) ==
  doc'[d] = doc[d] /\ chunk'[d] = chunk[d] /\ qa'[d] = qa[d] /\ clean'[d] = clean[d] /\ csv'[d] = csv[d]
Grows(d) ==
  /\ doc'[d] = "none" <=> doc[d] = "none"
  /\ \A c \in Chunks : chunk[d][c] # "none" => chunk'[d][c] # "none"
  /\ qa[d] \subseteq qa'[d] /\ clean[d].kept \subseteq clean'[d].kept

\* No other run is about to make the rows of this run's task.
Alone(r) == \A q \in DOMAIN runs : q # r /\ Newly(q) => runs[q].task # runs[r].task

\* Only the run's own document is touched, and only by a run at work on one.
Walks(r) ==
  /\ DOMAIN runs' = DOMAIN runs /\ (\A q \in DOMAIN runs : q # r => runs'[q] = runs[q])
  /\ runs'[r].task = runs[r].task
  /\ \A d \in Docs : Grows(d)
  /\ \A d \in Docs : d # runs[r].doc \/ runs[r].pc \notin Working \cup {"load"} => Same(d)
  /\ \A t \in Tasks : task'[t].config = task[t].config /\ (task'[t].status = "none" => task[t].status = "none")
  /\ (Idle(r) => Idle(r)' \/ Alone(r)) /\ (Newly(r)' => Newly(r))

\* What is asked for stays, and so does a task.
TasksKept ==
  \A t \in Tasks : task'[t].config = task[t].config /\ (task'[t].status = "none" => task[t].status = "none")

LEMMA RunStays ==
  ASSUME Types, NEW q \in DOMAIN runs, RunOK(q), \A d \in Docs : Grows(d),
         \A t \in Tasks : task'[t].config = task[t].config, runs'[q] = runs[q]
  PROVE  RunOK(q)'
<1> DEFINE d == runs[q].doc
<1>1. d \in Docs /\ runs[q].task \in Tasks /\ d[1] \in Tasks /\ runs[q].todo \subseteq 1..NDocs
  BY IdsOfRuns DEF RunRecords, Docs
<1>2. /\ doc'[d] = "none" <=> doc[d] = "none"
      /\ \A c \in Chunks : chunk[d][c] # "none" => chunk'[d][c] # "none"
      /\ qa[d] \subseteq qa'[d] /\ clean[d].kept \subseteq clean'[d].kept
      /\ task'[d[1]].config = task[d[1]].config
  BY <1>1 DEF Grows
<1>3. (HasRows(d) => HasRows(d)') /\ \A p \in Parts(d) : (Told(d, p) => Told(d, p)') /\ (Held(d, p) => Held(d, p)')
  BY <1>2 DEF HasRows, Told, Held
<1>4. ASSUME NEW i \in runs[q].todo
      PROVE  /\ doc'[<<runs[q].task, i>>] = "none" <=> doc[<<runs[q].task, i>>] = "none"
             /\ HasRows(<<runs[q].task, i>>) => HasRows(<<runs[q].task, i>>)'
  <2>1. <<runs[q].task, i>> \in Docs
    BY <1>1, DocsType
  <2> QED
    BY <2>1 DEF Grows, HasRows
<1> QED
  BY <1>2, <1>3, <1>4 DEF RunOK, Relies

\* A document that is left alone stays as it was.
LEMMA SameDoc ==
  ASSUME NEW d \in Docs, DocOK(d), Same(d), task'[d[1]].config = task[d[1]].config
  PROVE  DocOK(d)' /\ (Blank(d) => Blank(d)')
BY DEF DocOK, Same, Held, Told, HasRows, Whole, Blank

\* What is left to show of a step of a run: that it walks, and what is known of the
\* run and of its document.
LEMMA StepOK ==
  ASSUME IInv, NEW r \in DOMAIN runs, Types', Walks(r), RunOK(r)',
         NEW d \in Docs, d = runs[r].doc, runs[r].pc \in Working \cup {"load"} => DocOK(d)'
  PROVE  IInv'
<1>1. \A e \in Docs : (e # d \/ runs[r].pc \notin Working \cup {"load"}) => DocOK(e)' /\ (Blank(e) => Blank(e)')
  BY SameDoc DEF Walks, IInv, Docs
<1>2. \A e \in Docs : DocOK(e)'
  BY <1>1
<1>3. \A q \in DOMAIN runs : RunOK(q)'
  BY RunStays DEF Walks, IInv
<1>4. \A q \in DOMAIN runs : runs'[q].task = runs[q].task
  BY DEF Walks
<1>5. ASSUME NEW t \in Tasks, \A e \in DocsOf(t) : Blank(e), runs[r].task # t \/ runs[r].pc \notin Working \cup {"load"}
      PROVE  \A e \in DocsOf(t) : Blank(e)'
  <2>1. runs[r].pc \in Working \cup {"load"} => d[1] = runs[r].task
    BY DEF IInv, RunOK, Relies
  <2> QED
    BY <1>1, <1>5, <2>1 DEF DocsOf
<1>6. ASSUME NEW t \in Tasks
      PROVE  TaskOK(t)'
  <2>1. SUFFICES ASSUME task'[t].status = "none"
                 PROVE  (\A e \in DocsOf(t) : Blank(e)') /\ \A q \in DOMAIN runs' : runs'[q].task # t
    BY DEF TaskOK, DocsOf
  <2>2. task[t].status = "none"
    BY <2>1 DEF Walks
  <2>3. (\A e \in DocsOf(t) : Blank(e)) /\ \A q \in DOMAIN runs : runs[q].task # t
    BY <2>2 DEF IInv, TaskOK
  <2> QED
    BY <2>3, <1>4, <1>5 DEF Walks
<1>7. ASSUME NEW q \in DOMAIN runs
      PROVE  FreshOK(q)'
  <2>1. SUFFICES ASSUME Newly(q)'
                 PROVE  /\ \A e \in DocsOf(runs[q].task) : Blank(e)'
                        /\ \A s \in DOMAIN runs : s # q /\ runs[s].task = runs[q].task => Idle(s)'
    BY <1>4 DEF FreshOK, DocsOf, Walks
  <2>2. Newly(q)
    BY <2>1 DEF Newly, Walks
  <2>3. /\ \A e \in DocsOf(runs[q].task) : Blank(e)
        /\ \A s \in DOMAIN runs : s # q /\ runs[s].task = runs[q].task => Idle(s)
    BY <2>2 DEF IInv, FreshOK
  <2>4. runs[r].task # runs[q].task \/ runs[r].pc \notin Working \cup {"load"}
    BY <2>2, <2>3 DEF Newly, Idle, Busy, Working
  <2>5. \A s \in DOMAIN runs : s # q /\ runs[s].task = runs[q].task /\ Idle(s) => Idle(s)'
    BY <2>2 DEF Walks, Idle, Alone
  <2>6. runs[q].task \in Tasks
    BY IdsOfRuns DEF IInv, RunRecords
  <2> QED
    BY <1>5, <2>3, <2>4, <2>5, <2>6
<1> QED
  BY <1>2, <1>3, <1>6, <1>7 DEF IInv, Walks

-----------------------------------------------------------------------------
(* Steps that leave the documents alone *)

LEMMA QuietGrows ==
  ASSUME NEW d \in Docs, UNCHANGED <<doc, chunk, qa, clean, csv>>
  PROVE  Same(d) /\ Grows(d)
BY DEF Same, Grows

LEMMA TaskEffect ==
  ASSUME Tables, NEW t \in Tasks, NEW s \in TaskStatus \ {"none"}, NEW l \in 0..MaxRuns,
         task' = [task EXCEPT ![t] = [@ EXCEPT !.status = s, !.log = l]]
  PROVE  task' \in [Tasks -> TaskRecords] /\ TasksKept
<1> DEFINE new == [task[t] EXCEPT !.status = s, !.log = l]
<1>1. task[t] \in TaskRecords
  BY DEF Tables
<1>2. new \in TaskRecords /\ new.config = task[t].config /\ new.status = s
  BY <1>1 DEF TaskRecords
<1>3. task' = [task EXCEPT ![t] = new]
  OBVIOUS
<1> HIDE DEF new
<1> QED
  BY <1>2, <1>3 DEF Tables, TasksKept

\* A run that goes to a place where nothing is known of it.
LEMMA Quiet ==
  ASSUME IInv, NEW r \in DOMAIN runs, NEW new \in RunRecords, runs' = [runs EXCEPT ![r] = new],
         Tables', UNCHANGED <<doc, chunk, qa, clean, csv>>,
         TasksKept,
         new.task = runs[r].task, new.pc \notin Busy \cup {"begin"}, new.pc = "docs" => Newly(r) /\ ~new.retry,
         new.pc \in {"put", "rows"} => new.status \in Ends
  PROVE  IInv'
<1>1. /\ runs' \in Seq(RunRecords) /\ DOMAIN runs' = DOMAIN runs /\ runs'[r] = new
      /\ \A q \in DOMAIN runs : q # r => runs'[q] = runs[q]
  BY Moved DEF IInv
<1>2. Types'
  BY <1>1, Moved, TypesAre DEF IInv, Types, TypeOK, Tables, TaskRecords
<1>3. \A d \in Docs : Same(d) /\ Grows(d)
  BY QuietGrows
<1>4. Walks(r)
  BY <1>1, <1>3 DEF Walks, TasksKept, Idle, Newly, Busy, Working
<1>5. RunOK(r)'
  BY <1>1 DEF RunOK, Relies, Busy, Working, Asking
<1>6. PICK d \in Docs : d = runs[r].doc
  BY IdsOfRuns DEF IInv, RunRecords
<1>7. DocOK(d)'
  BY <1>3, SameDoc DEF IInv, Docs, TasksKept
<1> QED
  BY <1>2, <1>4, <1>5, <1>6, <1>7, StepOK

LEMMA GoesTo ==
  ASSUME Types, NEW r \in DOMAIN runs, NEW pc \in PCs
  PROVE  /\ [runs[r] EXCEPT !.pc = pc] \in RunRecords
         /\ [runs[r] EXCEPT !.pc = pc].pc = pc /\ [runs[r] EXCEPT !.pc = pc].task = runs[r].task
         /\ [runs[r] EXCEPT !.pc = pc].retry = runs[r].retry /\ [runs[r] EXCEPT !.pc = pc].status = runs[r].status
         /\ (Goes(r, pc) <=> runs' = [runs EXCEPT ![r] = [runs[r] EXCEPT !.pc = pc]])
BY IdsOfRuns DEF RunRecords, Goes

\* Going on to such a place, or ending.
LEMMA QuietGoes ==
  ASSUME IInv, NEW r \in DOMAIN runs, NEW pc \in PCs, Goes(r, pc),
         Tables', UNCHANGED <<doc, chunk, qa, clean, csv>>,
         TasksKept,
         pc \notin Busy \cup {"begin"}, pc = "docs" => Newly(r), pc \in {"put", "rows"} => runs[r].status \in Ends
  PROVE  IInv'
<1> DEFINE new == [runs[r] EXCEPT !.pc = pc]
<1>1. /\ new \in RunRecords /\ new.pc = pc /\ new.task = runs[r].task /\ new.retry = runs[r].retry
      /\ new.status = runs[r].status /\ runs' = [runs EXCEPT ![r] = new]
  BY GoesTo DEF IInv
<1>2. pc = "docs" => Newly(r) /\ ~new.retry
  BY <1>1 DEF Newly
<1> HIDE DEF new
<1> QED
  BY <1>1, <1>2, Quiet

LEMMA QuietQuits ==
  ASSUME IInv, NEW r \in DOMAIN runs, Quits(r),
         Tables', UNCHANGED <<doc, chunk, qa, clean, csv>>,
         TasksKept
  PROVE  IInv'
<1> DEFINE new == Ended(runs[r].task)
<1>1. runs[r].task \in Tasks
  BY IdsOfRuns DEF IInv, RunRecords
<1>2. new \in RunRecords /\ new.pc = "done" /\ new.task = runs[r].task
  BY <1>1, EndedType
<1>3. runs' = [runs EXCEPT ![r] = new]
  BY DEF Quits
<1> HIDE DEF new
<1> QED
  BY <1>2, <1>3, Quiet DEF Busy, Working

LEMMA AtRun ==
  ASSUME Types, NEW r \in Ids, NEW pc, At(r, pc)
  PROVE  /\ r \in DOMAIN runs /\ runs[r].pc = pc /\ runs[r] \in RunRecords
         /\ runs[r].task \in Tasks /\ runs[r].status \in Ends \cup {"none"} /\ runs[r].doc \in Docs
         /\ runs[r].todo \subseteq 1..NDocs /\ runs[r].files \subseteq Docs /\ runs[r].list \subseteq Chunks
         /\ runs[r].chunk \in Chunks /\ runs[r].retry \in BOOLEAN
BY IdsOfRuns DEF At, RunRecords

LEMMA BeginOK ==
  ASSUME IInv, NEW r \in Ids, Begin(r)
  PROVE  IInv'
<1> DEFINE t == runs[r].task
           retry == runs[r].retry
<1>1. Tables /\ r \in DOMAIN runs /\ runs[r].pc = "begin" /\ t \in Tasks /\ retry \in BOOLEAN
  BY AtRun, TypesAre DEF Begin, IInv
<1>2. UNCHANGED <<doc, chunk, qa, clean, csv, emb, bucket, folder, mixed>>
  BY DEF Begin, files
<1>3. r \in 1..MaxRuns /\ 0 \in 0..MaxRuns
  BY SizesAssumption DEF Ids
<1>4. CASE /\ Goes(r, IF retry THEN "list" ELSE "docs")
           /\ log' = [log EXCEPT ![r] = "open"] /\ dataset' = [dataset EXCEPT ![t] = "processing"]
           /\ task' = [task EXCEPT ![t] = IF retry THEN [@ EXCEPT !.status = "processing", !.log = 0] ELSE @]
  <2>1. task' \in [Tasks -> TaskRecords] /\ TasksKept
    <3>1. CASE retry
      BY <1>1, <1>3, <1>4, <3>1, TaskEffect DEF TaskStatus
    <3>2. CASE ~retry
      BY <1>1, <1>4, <3>2 DEF Tables, TasksKept
    <3> QED
      BY <3>1, <3>2
  <2>2. Tables'
    BY <1>1, <1>2, <1>4, <2>1 DEF Tables
  <2> DEFINE pc == IF retry THEN "list" ELSE "docs"
  <2>3. pc \in PCs /\ pc \notin Busy \cup {"begin"} /\ (pc = "docs" => Newly(r)) /\ pc \notin {"put", "rows"}
    BY <1>1 DEF PCs, Busy, Working, Newly
  <2>4. Goes(r, pc)
    BY <1>4
  <2> HIDE DEF pc
  <2> QED
    BY <1>1, <1>2, <2>1, <2>2, <2>3, <2>4, QuietGoes
<1>5. CASE /\ Quits(r) /\ UNCHANGED dataset
           /\ log' = [log EXCEPT ![r] = "process_fail"]
           /\ task' = IF Exists(t) THEN [task EXCEPT ![t].status = "process_fail", ![t].log = r] ELSE task
  <2>1. task' \in [Tasks -> TaskRecords] /\ TasksKept
    <3>1. CASE Exists(t)
      <4>1. task' = [task EXCEPT ![t] = [@ EXCEPT !.status = "process_fail", !.log = r]]
        BY <1>1, <1>5, <3>1 DEF Tables
      <4>2. "process_fail" \in TaskStatus \ {"none"} /\ r \in 0..MaxRuns
        BY <1>3 DEF TaskStatus, Ends
      <4> QED
        BY <1>1, <4>1, <4>2, TaskEffect
    <3>2. CASE ~Exists(t)
      BY <1>1, <1>5, <3>2 DEF Tables, TasksKept
    <3> QED
      BY <3>1, <3>2
  <2>2. Tables'
    BY <1>1, <1>2, <1>5, <2>1 DEF Tables, Ends
  <2> QED
    BY <1>1, <1>2, <1>5, <2>1, <2>2, QuietQuits
<1> QED
  BY <1>4, <1>5 DEF Begin

LEMMA BeginGoneOK ==
  ASSUME IInv, NEW r \in Ids, BeginGone(r)
  PROVE  IInv'
<1>1. Tables /\ r \in DOMAIN runs
  BY AtRun, TypesAre DEF BeginGone, IInv
<1>2. Quits(r) /\ UNCHANGED <<tables, dataset, files, bounds, mixed>>
  BY DEF BeginGone
<1>3. Tables'
  BY <1>1, <1>2 DEF Tables, tables, files
<1> QED
  BY <1>1, <1>2, <1>3, QuietQuits DEF tables, files, TasksKept

\* An end that is written.
LEMMA EndEffect ==
  ASSUME IInv, NEW r \in DOMAIN runs, NEW s \in Ends, SetEnd(r, s)
  PROVE  /\ task' \in [Tasks -> TaskRecords] /\ TasksKept
         /\ log' \in [Ids -> Ends \cup {"none", "open"}]
<1> DEFINE t == runs[r].task
<1>1. Tables /\ t \in Tasks /\ r \in Ids /\ r \in 0..MaxRuns
  BY IdsOfRuns, TypesAre DEF IInv, RunRecords, Ids
<1>2. log' = [log EXCEPT ![r] = IF @ = "none" THEN @ ELSE s]
  BY DEF SetEnd
<1>3. task' = [task EXCEPT ![t] = IF Exists(t) THEN [@ EXCEPT !.status = s, !.log = r] ELSE @]
  BY DEF SetEnd
<1>4. s \in TaskStatus \ {"none"}
  BY DEF TaskStatus, Ends
<1>5. task' \in [Tasks -> TaskRecords] /\ TasksKept
  <2>1. CASE Exists(t)
    BY <1>1, <1>3, <1>4, <2>1, TaskEffect
  <2>2. CASE ~Exists(t)
    BY <1>1, <1>3, <2>2 DEF Tables, TasksKept
  <2> QED
    BY <2>1, <2>2
<1> QED
  BY <1>1, <1>2, <1>5 DEF Tables

LEMMA EndOK ==
  ASSUME IInv, NEW r \in Ids, End(r)
  PROVE  IInv'
<1>1. Tables /\ r \in DOMAIN runs /\ runs[r].status \in Ends
  BY AtRun, TypesAre DEF End, IInv, RunOK
<1>2. SetEnd(r, runs[r].status) /\ Quits(r) /\ UNCHANGED <<doc, chunk, qa, clean, emb, dataset, files, mixed>>
  BY DEF End, bounds
<1>3. Tables' /\ TasksKept
  BY <1>1, <1>2, EndEffect DEF Tables, files
<1> QED
  BY <1>1, <1>2, <1>3, QuietQuits DEF files

LEMMA TellDatasetOK ==
  ASSUME IInv, NEW r \in Ids, TellDataset(r)
  PROVE  IInv'
<1>1. Tables /\ r \in DOMAIN runs /\ runs[r].status \in Ends
  BY AtRun, TypesAre DEF TellDataset, IInv, RunOK
<1>2. UNCHANGED <<doc, chunk, qa, clean, emb, files, mixed>>
  BY DEF TellDataset
<1>3. CASE /\ dataset' = [dataset EXCEPT ![runs[r].task] = runs[r].status] /\ Goes(r, "rows") /\ UNCHANGED <<task, log>>
  <2>1. Tables' /\ TasksKept
    BY <1>1, <1>2, <1>3 DEF Tables, TasksKept, files
  <2> QED
    BY <1>1, <1>2, <1>3, <2>1, QuietGoes DEF PCs, Busy, Working, files
<1>4. CASE SetEnd(r, "process_fail") /\ Quits(r) /\ UNCHANGED dataset
  <2>1. Tables' /\ TasksKept
    BY <1>1, <1>2, <1>4, EndEffect DEF Tables, files, Ends
  <2> QED
    BY <1>1, <1>2, <1>4, <2>1, QuietQuits DEF files
<1> QED
  BY <1>3, <1>4 DEF TellDataset

LEMMA CaughtOK ==
  ASSUME IInv, NEW r \in Ids, Caught(r)
  PROVE  IInv'
<1>1. Tables /\ r \in DOMAIN runs /\ runs[r].task \in Tasks /\ runs[r].status \in Ends \cup {"none"}
  BY AtRun, TypesAre DEF Caught, IInv
<1>2. SetEnd(r, "process_fail") /\ Quits(r) /\ UNCHANGED <<doc, chunk, qa, clean, emb, files, mixed>>
  BY DEF Caught
<1> DEFINE said == IF runs[r].retry THEN "process_fail" ELSE runs[r].status
<1>3. said \in Ends \cup {"none"}
  BY <1>1 DEF Ends
<1>4. dataset' = dataset \/ (said # "none" /\ dataset' = [dataset EXCEPT ![runs[r].task] = said])
  BY DEF Caught
<1> HIDE DEF said
<1>5. dataset' \in [Tasks -> Ends \cup {"none", "processing"}]
  BY <1>1, <1>3, <1>4 DEF Tables
<1>6. Tables' /\ TasksKept
  BY <1>1, <1>2, <1>5, EndEffect DEF Tables, files, Ends
<1> QED
  BY <1>1, <1>2, <1>6, QuietQuits DEF files

LEMMA WalkOK ==
  ASSUME IInv, NEW r \in Ids, Walk(r)
  PROVE  IInv'
<1>1. /\ Tables /\ r \in DOMAIN runs /\ runs[r] \in RunRecords /\ runs[r].task \in Tasks
      /\ runs[r].status \in Ends
  BY AtRun, TypesAre DEF Walk, IInv, RunOK, Busy
<1> DEFINE new == [runs[r] EXCEPT !.pc = "put", !.files = folder, !.doc = <<runs[r].task, 1>>]
<1>2. <<runs[r].task, 1>> \in Docs /\ folder \subseteq Docs
  BY <1>1, NDocsType, DocsType DEF Tables
<1>3. new \in RunRecords /\ new.pc = "put" /\ new.task = runs[r].task /\ new.status = runs[r].status
  BY <1>1, <1>2 DEF RunRecords, PCs
<1>4. runs' = [runs EXCEPT ![r] = new] /\ UNCHANGED <<tables, dataset, files, bounds, mixed>>
  BY DEF Walk
<1>5. Tables' /\ TasksKept
  BY <1>1, <1>4 DEF Tables, TasksKept, tables, files
<1> HIDE DEF new
<1> QED
  BY <1>1, <1>3, <1>4, <1>5, Quiet DEF tables, files, Busy, Working

LEMMA PutOK ==
  ASSUME IInv, NEW r \in Ids, Put(r)
  PROVE  IInv'
<1>1. /\ Tables /\ r \in DOMAIN runs /\ runs[r] \in RunRecords /\ runs[r].task \in Tasks
      /\ runs[r].status \in Ends /\ runs[r].files \subseteq Docs
  BY AtRun, TypesAre DEF Put, IInv, RunOK
<1>2. UNCHANGED <<tables, dataset, csv, restarts, rare, mixed>>
  BY DEF Put
<1>3. PICK f \in runs[r].files :
        /\ bucket' = bucket \/ bucket' = [bucket EXCEPT ![runs[r].task] = @ \cup {f}]
        /\ folder' = folder \/ folder' = folder \ {f}
        /\ Goes(r, "caught") \/ runs' = [runs EXCEPT ![r].files = @ \ {f}]
  BY DEF Put, StoreFails
<1>4. Tables' /\ TasksKept
  <2>1. f \in Docs
    BY <1>1
  <2>2. bucket' \in [Tasks -> SUBSET Docs]
    BY <1>1, <1>3, <2>1 DEF Tables
  <2>3. folder' \subseteq Docs
    BY <1>1, <1>3 DEF Tables
  <2> QED
    BY <1>1, <1>2, <2>2, <2>3 DEF Tables, TasksKept, tables
<1>5. CASE Goes(r, "caught")
  BY <1>1, <1>2, <1>4, <1>5, QuietGoes DEF PCs, Busy, Working, tables
<1>6. CASE runs' = [runs EXCEPT ![r].files = @ \ {f}]
  <2> DEFINE new == [runs[r] EXCEPT !.files = @ \ {f}]
  <2>1. /\ new \in RunRecords /\ new.pc = runs[r].pc /\ new.task = runs[r].task /\ new.status = runs[r].status
        /\ runs' = [runs EXCEPT ![r] = new] /\ runs[r].pc = "put"
    BY <1>1, <1>6 DEF RunRecords, Put, At
  <2> HIDE DEF new
  <2> QED
    BY <1>1, <1>2, <1>4, <2>1, Quiet DEF tables, Busy, Working
<1> QED
  BY <1>3, <1>5, <1>6

-----------------------------------------------------------------------------
(* Steps from one document to the next *)

\* A run that has a document to do next, or comes to a place where nothing is known
\* of it: what it has seen to be begun is begun, or deleted.
LEMMA Between ==
  ASSUME IInv, NEW r \in DOMAIN runs, ~Newly(r), Idle(r) => Alone(r),
         NEW new \in RunRecords, runs' = [runs EXCEPT ![r] = new],
         NEW d \in Docs, d = runs[r].doc, Tables', TasksKept, \A e \in Docs : Grows(e),
         \A e \in Docs : e # d \/ runs[r].pc \notin Working \cup {"load"} => Same(e),
         runs[r].pc \in Working \cup {"load"} => DocOK(d)',
         new.task = runs[r].task, new.pc = "next", new.status \in Ends,
         \A i \in new.todo : new.retry /\ new.seen[i] # "not_start" /\ doc[<<new.task, i>>] # "none"
                               => HasRows(<<new.task, i>>)
  PROVE  IInv'
<1>1. /\ runs' \in Seq(RunRecords) /\ DOMAIN runs' = DOMAIN runs /\ runs'[r] = new
      /\ \A q \in DOMAIN runs : q # r => runs'[q] = runs[q]
  BY Moved DEF IInv
<1>2. Types'
  BY <1>1, Moved, TypesAre DEF IInv, Types, TypeOK, Tables, TaskRecords
<1>3. Walks(r)
  BY <1>1 DEF Walks, TasksKept, Newly, Idle
<1>5. new.task \in Tasks /\ new.todo \subseteq 1..NDocs
  BY DEF RunRecords
<1>6. RunOK(r)'
  <2>1. ASSUME NEW i \in new.todo, new.retry, new.seen[i] # "not_start", doc'[<<new.task, i>>] # "none"
        PROVE  HasRows(<<new.task, i>>)'
    <3>1. <<new.task, i>> \in Docs
      BY <1>5, DocsType
    <3>2. HasRows(<<new.task, i>>)
      BY <2>1, <3>1 DEF Grows
    <3> QED
      BY <3>1, <3>2 DEF Grows, HasRows
  <2> QED
    BY <1>1, <2>1 DEF RunOK, Relies, Busy, Working, Asking
<1> QED
  BY <1>2, <1>3, <1>6, StepOK

\* A run that is at work on its documents has nobody beside it who makes their rows.
LEMMA BusyAlone ==
  ASSUME IInv, NEW r \in DOMAIN runs, runs[r].pc \in Busy
  PROVE  ~Newly(r) /\ ~Idle(r) /\ Alone(r)
BY DEF IInv, FreshOK, Alone, Newly, Idle, Busy, Working

LEMMA LeftType ==
  ASSUME NEW run \in RunRecords
  PROVE  /\ Left(run) \in RunRecords /\ Left(run).pc = "next" /\ Left(run).task = run.task
         /\ Left(run).todo = run.todo /\ Left(run).seen = run.seen /\ Left(run).retry = run.retry
         /\ Left(run).status = run.status
<1>1. <<1, 1>> \in Chunks
  BY EndedType DEF RunRecords, Ended
<1> QED
  BY <1>1 DEF Left, RunRecords, PCs, Busy

LEMMA ListDocsOK ==
  ASSUME IInv, NEW r \in Ids, ListDocs(r)
  PROVE  IInv'
<1> DEFINE t == runs[r].task
           left == {i \in 1..NDocs : doc[<<t, i>>] \notin {"none", "success"}}
           seen == [i \in 1..NDocs |-> doc[<<t, i>>]]
           new == [runs[r] EXCEPT !.pc = IF left = {} THEN "put" ELSE "next", !.todo = left, !.seen = seen,
                                  !.status = "process_complete"]
<1>1. /\ Tables /\ r \in DOMAIN runs /\ runs[r] \in RunRecords /\ t \in Tasks /\ runs[r].doc \in Docs
      /\ runs[r].pc = "list"
  BY AtRun, TypesAre DEF ListDocs, IInv
<1>2. runs' = [runs EXCEPT ![r] = new] /\ UNCHANGED <<tables, dataset, files, bounds, mixed>>
  BY DEF ListDocs
<1>3. seen \in [1..NDocs -> RowStatus] /\ left \subseteq 1..NDocs
  BY <1>1, DocsType DEF Tables
<1>4. /\ new \in RunRecords /\ new.pc = (IF left = {} THEN "put" ELSE "next") /\ new.task = t
      /\ new.status = "process_complete" /\ new.todo = left /\ new.seen = seen
  BY <1>1, <1>3 DEF RunRecords, PCs, Busy, Ends
<1>5. Tables' /\ TasksKept
  BY <1>1, <1>2 DEF Tables, TasksKept, tables, files
<1>6. \A e \in Docs : Same(e) /\ Grows(e)
  BY <1>2, QuietGrows DEF tables, files
<1>7. CASE left = {}
  <2>1. new.pc = "put" /\ new.status \in Ends
    BY <1>4, <1>7 DEF Ends
  <2> HIDE DEF new, left, seen
  <2> QED
    BY <1>1, <1>2, <1>4, <1>5, <2>1, Quiet DEF tables, files, Busy, Working
<1>8. CASE left # {}
  <2>1. PICK i \in left : TRUE
    BY <1>8
  <2>2. <<t, i>> \in Docs /\ <<t, i>> \in DocsOf(t) /\ ~Blank(<<t, i>>)
    BY <1>1, <2>1, DocsType DEF DocsOf, Blank
  <2>3. Alone(r)
    BY <2>2 DEF Alone, IInv, FreshOK
  <2>4. \A j \in left : seen[j] # "not_start" => HasRows(<<t, j>>)
    <3>1. TAKE j \in left
    <3>2. <<t, j>> \in Docs
      BY <1>1, DocsType
    <3> QED
      BY <1>1, <3>2 DEF IInv, DocOK, Tables, RowStatus
  <2>5. ~Newly(r)
    BY <1>1 DEF Newly
  <2> HIDE DEF new, left, seen
  <2> QED
    BY <1>1, <1>2, <1>4, <1>5, <1>6, <1>8, <2>3, <2>4, <2>5, Between DEF Working, Ends
<1> QED
  BY <1>7, <1>8

\* A run that stays at work on a document, or begins with one.
LEMMA AtWork ==
  ASSUME IInv, NEW r \in DOMAIN runs, runs[r].pc \in Busy,
         NEW new \in RunRecords, runs' = [runs EXCEPT ![r] = new],
         NEW d \in Docs, d = runs[r].doc, Tables', TasksKept, \A e \in Docs : Grows(e),
         \A e \in Docs : e # d \/ runs[r].pc \notin Working \cup {"load"} => Same(e),
         runs[r].pc \in Working \cup {"load"} => DocOK(d)',
         new.task = runs[r].task, new.pc \in {"load"} \cup Working, new.status = runs[r].status,
         new.retry = runs[r].retry, new.seen = runs[r].seen, new.todo \subseteq runs[r].todo, Relies(new, r)'
  PROVE  IInv'
<1>1. /\ runs' \in Seq(RunRecords) /\ DOMAIN runs' = DOMAIN runs /\ runs'[r] = new
      /\ \A q \in DOMAIN runs : q # r => runs'[q] = runs[q]
  BY Moved DEF IInv
<1>2. Types'
  BY <1>1, Moved, TypesAre DEF IInv, Types, TypeOK, Tables, TaskRecords
<1>3. Walks(r)
  BY <1>1, BusyAlone DEF Walks, TasksKept, Newly, Busy, Working
<1>4. new.task \in Tasks /\ new.todo \subseteq 1..NDocs
  BY DEF RunRecords
<1>5. RunOK(r)'
  <2>1. ASSUME NEW i \in new.todo, new.retry, new.seen[i] # "not_start", doc'[<<new.task, i>>] # "none"
        PROVE  HasRows(<<new.task, i>>)'
    <3>1. <<new.task, i>> \in Docs
      BY <1>4, DocsType
    <3>2. HasRows(<<new.task, i>>)
      BY <2>1, <3>1 DEF IInv, RunOK, Grows
    <3> QED
      BY <3>1, <3>2 DEF Grows, HasRows
  <2>2. new.status \in Ends
    BY DEF IInv, RunOK
  <2> QED
    BY <1>1, <2>1, <2>2 DEF RunOK, Busy, Working
<1> QED
  BY <1>2, <1>3, <1>5, StepOK

\* A run that goes back to its next document, as what it has seen says.
LEMMA Returns ==
  ASSUME IInv, NEW r \in DOMAIN runs, runs[r].pc \in Busy,
         NEW new \in RunRecords, runs' = [runs EXCEPT ![r] = new],
         NEW d \in Docs, d = runs[r].doc, Tables', TasksKept, \A e \in Docs : Grows(e),
         \A e \in Docs : e # d \/ runs[r].pc \notin Working \cup {"load"} => Same(e),
         runs[r].pc \in Working \cup {"load"} => DocOK(d)',
         new.task = runs[r].task, new.pc = "next", new.status \in Ends,
         new.retry = runs[r].retry, new.seen = runs[r].seen, new.todo \subseteq runs[r].todo
  PROVE  IInv'
<1>1. \A i \in new.todo : new.retry /\ new.seen[i] # "not_start" /\ doc[<<new.task, i>>] # "none"
                            => HasRows(<<new.task, i>>)
  BY DEF IInv, RunOK
<1> QED
  BY <1>1, BusyAlone, Between

LEMMA BadOK ==
  ASSUME IInv, NEW r \in DOMAIN runs, runs[r].pc \in Busy, Bad(r) \/ Good(r),
         NEW d \in Docs, d = runs[r].doc, Tables', TasksKept, \A e \in Docs : Grows(e),
         \A e \in Docs : e # d \/ runs[r].pc \notin Working \cup {"load"} => Same(e),
         runs[r].pc \in Working \cup {"load"} => DocOK(d)'
  PROVE  IInv'
<1>1. runs[r] \in RunRecords
  BY IdsOfRuns DEF IInv
<1>2. CASE Good(r)
  <2> DEFINE new == Left(runs[r])
  <2>1. runs' = [runs EXCEPT ![r] = new]
    BY <1>2 DEF Good
  <2>2. /\ new \in RunRecords /\ new.pc = "next" /\ new.task = runs[r].task /\ new.todo = runs[r].todo
        /\ new.seen = runs[r].seen /\ new.retry = runs[r].retry /\ new.status = runs[r].status
    BY <1>1, LeftType
  <2>3. runs[r].status \in Ends
    BY DEF IInv, RunOK
  <2> HIDE DEF new
  <2> QED
    BY <2>1, <2>2, <2>3, Returns
<1>3. CASE Bad(r)
  <2> DEFINE left == Left(runs[r])
             new == [left EXCEPT !.todo = {}, !.status = "process_fail"]
  <2>1. runs' = [runs EXCEPT ![r] = new]
    BY <1>3 DEF Bad
  <2>2. /\ left \in RunRecords /\ left.pc = "next" /\ left.task = runs[r].task
        /\ left.seen = runs[r].seen /\ left.retry = runs[r].retry
    BY <1>1, LeftType
  <2> HIDE DEF left
  <2>3. /\ new \in RunRecords /\ new.pc = "next" /\ new.task = runs[r].task /\ new.todo = {}
        /\ new.seen = runs[r].seen /\ new.retry = runs[r].retry /\ new.status \in Ends
    BY <2>2 DEF RunRecords, Ends
  <2> HIDE DEF new
  <2> QED
    BY <2>1, <2>3, Returns
<1> QED
  BY <1>2, <1>3

LEMMA UnsuccessfulType ==
  ASSUME Tables, NEW d \in Docs, DocOK(d)
  PROVE  /\ Unsuccessful(d) \subseteq Parts(d) \X Ids /\ Unsuccessful(d) \subseteq Chunks
         /\ HasRows(d) /\ task[d[1]].config = "chunks" => \A p \in Parts(d) : \E c \in Unsuccessful(d) : c[1] = p
         /\ HasRows(d) /\ doc[d] # "none" =>
              \A p \in Parts(d) : Told(d, p) \/ \E c \in Unsuccessful(d) : c[1] = p
<1>1. \A c \in Unsuccessful(d) : c \in Chunks /\ c \in Parts(d) \X Ids
  BY DEF Unsuccessful, DocOK, Chunks
<1> QED
  BY <1>1 DEF Unsuccessful, DocOK, HasRows

\* Taking a document that a retry has seen begun, or one to be begun.
LEMMA TakeOK ==
  ASSUME IInv, NEW r \in Ids, Take(r)
  PROVE  IInv'
<1> DEFINE t == runs[r].task
<1>1. /\ Tables /\ r \in DOMAIN runs /\ runs[r] \in RunRecords /\ t \in Tasks /\ runs[r].doc \in Docs
      /\ runs[r].pc = "next" /\ runs[r].todo \subseteq 1..NDocs
  BY AtRun, TypesAre DEF Take, IInv
<1>2. UNCHANGED <<tables, dataset, files, restarts, rare, mixed>>
  BY DEF Take
<1>3. Tables' /\ TasksKept /\ \A e \in Docs : Same(e) /\ Grows(e)
  BY <1>1, <1>2, QuietGrows DEF Tables, TasksKept, tables, files
<1>4. PICK i \in runs[r].todo :
        \/ /\ runs[r].retry /\ runs[r].seen[i] # "not_start"
           /\ runs' = [runs EXCEPT ![r].pc = "mark", ![r].doc = <<t, i>>,
                                   ![r].list = Unsuccessful(<<t, i>>), ![r].todo = @ \ {i}]
        \/ runs' = [runs EXCEPT ![r].pc = "load", ![r].doc = <<t, i>>, ![r].list = {}, ![r].todo = @ \ {i}]
        \/ Bad(r) \/ Goes(r, "caught")
  BY DEF Take
<1>5. PICK d \in Docs : d = runs[r].doc
  BY <1>1
<1>6. PICK e \in Docs : e = <<t, i>>
  BY <1>1, DocsType
<1>7. CASE Bad(r)
  BY <1>1, <1>3, <1>5, <1>7, BadOK DEF Busy, Working
<1>8. CASE Goes(r, "caught")
  BY <1>1, <1>2, <1>3, <1>8, QuietGoes DEF PCs, Busy, Working, tables, files
<1>9. CASE runs' = [runs EXCEPT ![r].pc = "load", ![r].doc = <<t, i>>, ![r].list = {}, ![r].todo = @ \ {i}]
  <2> DEFINE new == [runs[r] EXCEPT !.pc = "load", !.doc = e, !.list = {}, !.todo = @ \ {i}]
  <2>1. /\ new \in RunRecords /\ new.pc = "load" /\ new.doc = e /\ new.task = t /\ new.todo \subseteq runs[r].todo
        /\ new.seen = runs[r].seen /\ new.retry = runs[r].retry /\ new.status = runs[r].status
        /\ runs' = [runs EXCEPT ![r] = new]
    BY <1>1, <1>6, <1>9 DEF RunRecords, PCs, Busy
  <2>2. e[1] = t
    BY <1>6
  <2>3. PICK n \in RunRecords : n = new
    BY <2>1
  <2> HIDE DEF new
  <2>4. Relies(n, r)'
    BY <2>1, <2>2, <2>3 DEF Relies, Working, Asking
  <2> QED
    BY <1>1, <1>3, <1>5, <2>1, <2>3, <2>4, AtWork DEF Busy, Working
<1>10. CASE /\ runs[r].retry /\ runs[r].seen[i] # "not_start"
            /\ runs' = [runs EXCEPT ![r].pc = "mark", ![r].doc = <<t, i>>,
                                    ![r].list = Unsuccessful(<<t, i>>), ![r].todo = @ \ {i}]
  <2>1. e[1] = t /\ DocOK(e)
    BY <1>6 DEF IInv
  <2>2. PICK l \in SUBSET Chunks : l = Unsuccessful(e)
    BY <1>1, <2>1, UnsuccessfulType
  <2>3. /\ l \subseteq Parts(e) \X Ids
        /\ HasRows(e) /\ task[e[1]].config = "chunks" => \A p \in Parts(e) : \E c \in l : c[1] = p
        /\ HasRows(e) /\ doc[e] # "none" => \A p \in Parts(e) : Told(e, p) \/ \E c \in l : c[1] = p
    BY <1>1, <2>1, <2>2, UnsuccessfulType
  <2>4. doc[e] # "none" => HasRows(e)
    BY <1>1, <1>6, <1>10 DEF IInv, RunOK, Busy
  <2> DEFINE new == [runs[r] EXCEPT !.pc = "mark", !.doc = e, !.list = l, !.todo = @ \ {i}]
  <2>5. /\ new \in RunRecords /\ new.pc = "mark" /\ new.doc = e /\ new.task = t /\ new.todo \subseteq runs[r].todo
        /\ new.seen = runs[r].seen /\ new.retry = runs[r].retry /\ new.status = runs[r].status /\ new.list = l
        /\ runs' = [runs EXCEPT ![r] = new]
    BY <1>1, <1>6, <1>10, <2>2 DEF RunRecords, PCs, Busy, Working
  <2>6. PICK n \in RunRecords : n = new
    BY <2>5
  <2> HIDE DEF new
  <2>7. Relies(n, r)
    BY <2>1, <2>3, <2>4, <2>5, <2>6 DEF Relies, Working, Asking
  <2>8. Relies(n, r)'
    BY <1>2, <2>7 DEF Relies, HasRows, Told, Held, tables
  <2> QED
    BY <1>1, <1>3, <1>5, <2>5, <2>6, <2>8, AtWork DEF Busy, Working
<1> QED
  BY <1>4, <1>7, <1>8, <1>9, <1>10

-----------------------------------------------------------------------------
(* Steps of the work on a document *)

LEMMA SetDocEffect ==
  ASSUME Tables, NEW d \in Docs, NEW s \in RowStatus \ {"none"}, SetDoc(d, s)
  PROVE  /\ doc' \in [Docs -> RowStatus] /\ doc'[d] = (IF doc[d] = "none" THEN "none" ELSE s)
         /\ \A e \in Docs : (e # d => doc'[e] = doc[e]) /\ (doc'[e] = "none" <=> doc[e] = "none")
BY DEF Tables, SetDoc

LEMMA SetChunkEffect ==
  ASSUME Tables, NEW d \in Docs, NEW c \in Chunks, NEW s \in RowStatus \ {"none"}, SetChunk(d, c, s)
  PROVE  /\ chunk' \in [Docs -> [Chunks -> RowStatus]]
         /\ chunk'[d][c] = (IF chunk[d][c] = "none" THEN "none" ELSE s)
         /\ \A x \in Chunks : x # c => chunk'[d][x] = chunk[d][x]
         /\ \A e \in Docs : e # d => chunk'[e] = chunk[e]
         /\ \A e \in Docs, x \in Chunks : chunk'[e][x] = "none" <=> chunk[e][x] = "none"
<1>1. chunk' = [chunk EXCEPT ![d] = [chunk[d] EXCEPT ![c] = IF chunk[d][c] = "none" THEN "none" ELSE s]]
  BY DEF SetChunk
<1>2. chunk[d] \in [Chunks -> RowStatus] /\ chunk \in [Docs -> [Chunks -> RowStatus]]
  BY DEF Tables
<1> DEFINE new == [chunk[d] EXCEPT ![c] = IF chunk[d][c] = "none" THEN "none" ELSE s]
<1>3. /\ new \in [Chunks -> RowStatus] /\ new[c] = (IF chunk[d][c] = "none" THEN "none" ELSE s)
      /\ \A x \in Chunks : x # c => new[x] = chunk[d][x]
  BY <1>2 DEF RowStatus
<1> HIDE DEF new
<1>4. chunk' = [chunk EXCEPT ![d] = new]
  BY <1>1 DEF new
<1>5. chunk' \in [Docs -> [Chunks -> RowStatus]] /\ chunk'[d] = new /\ \A e \in Docs : e # d => chunk'[e] = chunk[e]
  BY <1>2, <1>3, <1>4
<1> QED
  BY <1>3, <1>5

\* What a run at work has of its document.
LEMMA Work ==
  ASSUME IInv, NEW r \in Ids, NEW pc \in Busy, At(r, pc), NEW d \in Docs, d = runs[r].doc
  PROVE  /\ Tables /\ r \in DOMAIN runs /\ runs[r] \in RunRecords /\ runs[r].pc = pc
         /\ Relies(runs[r], r) /\ DocOK(d)
         /\ (pc \in Working \cup {"load"} => d[1] = runs[r].task)
<1>1. Types /\ DocOK(d) /\ \A q \in DOMAIN runs : RunOK(q)
  BY DEF IInv
<1>2. Tables /\ r \in DOMAIN runs /\ runs[r] \in RunRecords /\ runs[r].pc = pc
  BY <1>1, AtRun, TypesAre
<1>3. Relies(runs[r], r)
  BY <1>1, <1>2 DEF RunOK
<1> QED
  BY <1>1, <1>2, <1>3 DEF Relies

LEMMA LoadOK ==
  ASSUME IInv, NEW r \in Ids, Load(r)
  PROVE  IInv'
<1>1. PICK d \in Docs : d = runs[r].doc
  BY AtRun DEF Load, IInv
<1>2. /\ Tables /\ r \in DOMAIN runs /\ runs[r] \in RunRecords /\ runs[r].pc = "load"
      /\ DocOK(d) /\ d[1] = runs[r].task
  BY <1>1, Work DEF Load, Busy
<1>3. UNCHANGED <<task, log, doc, qa, clean, emb, dataset, files, restarts, rare, mixed>>
  BY DEF Load
<1>4. TasksKept
  BY <1>3 DEF TasksKept
<1>5. CASE Bad(r) /\ UNCHANGED chunk
  <2>1. Tables' /\ \A e \in Docs : Same(e) /\ Grows(e)
    BY <1>2, <1>3, <1>5, QuietGrows DEF Tables, files
  <2>2. DocOK(d)'
    BY <1>2, <1>4, <2>1, SameDoc DEF TasksKept, Docs
  <2> QED
    BY <1>1, <1>2, <1>4, <1>5, <2>1, <2>2, BadOK DEF Busy
<1>6. CASE /\ chunk' = [chunk EXCEPT ![d] = [c \in Chunks |-> IF c \in Parts(d) \X {r} THEN "not_start" ELSE @[c]]]
           /\ runs' = [runs EXCEPT ![r].pc = "mark", ![r].list = Parts(d) \X {r}]
  <2> DEFINE l == Parts(d) \X {r}
             row == [c \in Chunks |-> IF c \in l THEN "not_start" ELSE chunk[d][c]]
             new == [runs[r] EXCEPT !.pc = "mark", !.list = l]
  <2>1. l \subseteq Parts(d) \X Ids /\ l \subseteq Chunks /\ \A p \in Parts(d) : <<p, r>> \in l /\ <<p, r>>[1] = p
    BY PartsType
  <2>2. row \in [Chunks -> RowStatus] /\ \A c \in Chunks : row[c] = IF c \in l THEN "not_start" ELSE chunk[d][c]
    BY <1>2 DEF Tables, RowStatus
  <2>3. chunk' = [chunk EXCEPT ![d] = row]
    BY <1>6
  <2>4. /\ new \in RunRecords /\ new.pc = "mark" /\ new.doc = d /\ new.task = runs[r].task
        /\ new.todo = runs[r].todo /\ new.list = l
        /\ new.seen = runs[r].seen /\ new.retry = runs[r].retry /\ new.status = runs[r].status
        /\ runs' = [runs EXCEPT ![r] = new]
    BY <1>1, <1>2, <1>6, <2>1 DEF RunRecords, PCs, Busy, Working
  <2>5. PICK n \in RunRecords : n = new
    BY <2>4
  <2> HIDE DEF row, new
  <2>6. /\ chunk' \in [Docs -> [Chunks -> RowStatus]] /\ chunk'[d] = row
        /\ \A e \in Docs : e # d => chunk'[e] = chunk[e]
    BY <1>2, <2>2, <2>3 DEF Tables
  <2>7. Tables'
    BY <1>2, <1>3, <2>6 DEF Tables, files
  <2>8. \A e \in Docs : Grows(e) /\ (e # d => Same(e))
    BY <1>3, <2>2, <2>6 DEF Grows, Same, files
  <2>9. HasRows(d)'
    BY <2>1, <2>2, <2>6 DEF HasRows
  <2>10. \A c \in Chunks : c \in l => c[1] \in Parts(d)
    OBVIOUS
  <2>11. DocOK(d)'
    BY <1>2, <1>3, <2>2, <2>6, <2>9, <2>10 DEF DocOK, Held, Told, Whole, files
  <2>12. Relies(n, r)'
    BY <1>2, <2>1, <2>4, <2>5, <2>9 DEF Relies, Working, Asking
  <2> QED
    BY <1>1, <1>2, <1>4, <2>4, <2>5, <2>7, <2>8, <2>11, <2>12, AtWork DEF Busy, Working
<1> QED
  BY <1>1, <1>5, <1>6 DEF Load

LEMMA MarkOK ==
  ASSUME IInv, NEW r \in Ids, Mark(r)
  PROVE  IInv'
<1>1. PICK d \in Docs : d = runs[r].doc
  BY AtRun DEF Mark, IInv
<1>2. /\ Tables /\ r \in DOMAIN runs /\ runs[r] \in RunRecords /\ runs[r].pc = "mark"
      /\ DocOK(d) /\ d[1] = runs[r].task /\ Relies(runs[r], r)
  BY <1>1, Work DEF Mark, Busy, Working
<1>3. UNCHANGED <<task, log, chunk, qa, clean, emb, dataset, files, bounds, mixed>> /\ SetDoc(d, "doing")
  BY <1>1 DEF Mark
<1>4. /\ doc' \in [Docs -> RowStatus] /\ doc'[d] = (IF doc[d] = "none" THEN "none" ELSE "doing")
      /\ \A e \in Docs : (e # d => doc'[e] = doc[e]) /\ (doc'[e] = "none" <=> doc[e] = "none")
  BY <1>2, <1>3, SetDocEffect DEF RowStatus
<1>5. Tables' /\ TasksKept
  BY <1>2, <1>3, <1>4 DEF Tables, TasksKept, files
<1>6. \A e \in Docs : Grows(e) /\ (e # d => Same(e))
  BY <1>3, <1>4 DEF Grows, Same, files
<1>7. DocOK(d)'
  BY <1>1, <1>2, <1>3, <1>4 DEF DocOK, Held, Told, Whole, HasRows, Relies, Working, files
<1> DEFINE pc == IF task[d[1]].config = "chunks" THEN "save" ELSE "chunk"
           new == [runs[r] EXCEPT !.pc = pc]
<1>8. /\ new \in RunRecords /\ new.pc = pc /\ new.doc = d /\ new.task = runs[r].task
      /\ new.todo = runs[r].todo /\ new.list = runs[r].list
      /\ new.seen = runs[r].seen /\ new.retry = runs[r].retry /\ new.status = runs[r].status
      /\ runs' = [runs EXCEPT ![r] = new]
  BY <1>1, <1>2 DEF RunRecords, PCs, Busy, Working, Mark, Goes
<1>9. PICK n \in RunRecords : n = new
  BY <1>8
<1> HIDE DEF new
<1>10. Relies(n, r)'
  BY <1>1, <1>2, <1>3, <1>4, <1>8, <1>9 DEF Relies, Working, Asking, HasRows, Told, Held
<1> QED
  BY <1>1, <1>2, <1>5, <1>6, <1>7, <1>8, <1>9, <1>10, AtWork DEF Busy, Working

LEMMA StartChunkOK ==
  ASSUME IInv, NEW r \in Ids, StartChunk(r)
  PROVE  IInv'
<1>1. PICK d \in Docs : d = runs[r].doc
  BY AtRun DEF StartChunk, IInv
<1>2. /\ Tables /\ r \in DOMAIN runs /\ runs[r] \in RunRecords /\ runs[r].pc = "chunk"
      /\ DocOK(d) /\ d[1] = runs[r].task /\ Relies(runs[r], r)
  BY <1>1, Work DEF StartChunk, Busy, Working
<1>3. UNCHANGED <<task, log, doc, qa, clean, emb, dataset, files, bounds, mixed>>
  BY DEF StartChunk
<1>4. PICK c \in runs[r].list : SetChunk(d, c, "doing") /\ runs' = [runs EXCEPT ![r].pc = "ask", ![r].chunk = c]
  BY <1>1 DEF StartChunk
<1>5. c \in Chunks /\ c[1] \in Parts(d)
  BY <1>1, <1>2 DEF Relies, Working, RunRecords
<1>6. /\ chunk' \in [Docs -> [Chunks -> RowStatus]]
      /\ chunk'[d][c] = (IF chunk[d][c] = "none" THEN "none" ELSE "doing")
      /\ \A x \in Chunks : x # c => chunk'[d][x] = chunk[d][x]
      /\ \A e \in Docs : e # d => chunk'[e] = chunk[e]
      /\ \A e \in Docs, x \in Chunks : chunk'[e][x] = "none" <=> chunk[e][x] = "none"
  BY <1>2, <1>4, <1>5, SetChunkEffect DEF RowStatus
<1>7. Tables' /\ TasksKept
  BY <1>2, <1>3, <1>6 DEF Tables, TasksKept, files
<1>8. \A e \in Docs : Grows(e) /\ (e # d => Same(e))
  BY <1>3, <1>6 DEF Grows, Same, files
<1>9. HasRows(d) <=> HasRows(d)'
  BY <1>6 DEF HasRows
<1>10. DocOK(d)'
  BY <1>2, <1>3, <1>6, <1>9 DEF DocOK, Held, Told, Whole, files
<1> DEFINE new == [runs[r] EXCEPT !.pc = "ask", !.chunk = c]
<1>11. /\ new \in RunRecords /\ new.pc = "ask" /\ new.doc = d /\ new.task = runs[r].task
       /\ new.todo = runs[r].todo /\ new.list = runs[r].list /\ new.chunk = c
       /\ new.seen = runs[r].seen /\ new.retry = runs[r].retry /\ new.status = runs[r].status
       /\ runs' = [runs EXCEPT ![r] = new]
  BY <1>1, <1>2, <1>4, <1>5 DEF RunRecords, PCs, Busy, Working
<1>12. PICK n \in RunRecords : n = new
  BY <1>11
<1> HIDE DEF new
<1>13. Relies(n, r)'
  BY <1>1, <1>2, <1>3, <1>5, <1>9, <1>11, <1>12 DEF Relies, Working, Asking, Told
<1> QED
  BY <1>1, <1>2, <1>7, <1>8, <1>10, <1>11, <1>12, <1>13, AtWork DEF Busy, Working

\* Whatever a failure leaves of the chunk and of the document.
LEMMA ChunkFailsOK ==
  ASSUME IInv, NEW r \in Ids, NEW pc \in {"ask", "embed"}, At(r, pc), ChunkFails(r),
         UNCHANGED <<task, log, qa, clean, emb, dataset, files, mixed>>
  PROVE  IInv'
<1>1. PICK d \in Docs : d = runs[r].doc
  BY AtRun DEF IInv
<1>2. /\ Tables /\ r \in DOMAIN runs /\ runs[r] \in RunRecords /\ runs[r].pc = pc
      /\ DocOK(d) /\ d[1] = runs[r].task /\ Relies(runs[r], r)
  BY <1>1, Work DEF Busy, Working
<1>3. PICK c \in Chunks : c = runs[r].chunk
  BY <1>2 DEF RunRecords
<1>4. /\ chunk' \in [Docs -> [Chunks -> RowStatus]]
      /\ chunk'[d][c] = chunk[d][c] \/ chunk'[d][c] \in {"none", "fail"}
      /\ \A x \in Chunks : x # c => chunk'[d][x] = chunk[d][x]
      /\ \A e \in Docs : e # d => chunk'[e] = chunk[e]
      /\ \A e \in Docs, x \in Chunks : chunk'[e][x] = "none" <=> chunk[e][x] = "none"
  <2>1. CASE SetChunk(d, c, "fail")
    BY <1>2, <2>1, SetChunkEffect DEF RowStatus
  <2>2. CASE UNCHANGED chunk
    BY <1>2, <2>2 DEF Tables
  <2> QED
    BY <1>1, <1>3, <2>1, <2>2 DEF ChunkFails
<1>5. /\ doc' \in [Docs -> RowStatus]
      /\ doc'[d] = doc[d] \/ doc'[d] \in {"none", "fail"}
      /\ \A e \in Docs : (e # d => doc'[e] = doc[e]) /\ (doc'[e] = "none" <=> doc[e] = "none")
  <2>1. CASE SetDoc(d, "fail")
    BY <1>2, <2>1, SetDocEffect DEF RowStatus
  <2>2. CASE UNCHANGED doc
    BY <1>2, <2>2 DEF Tables
  <2> QED
    BY <1>1, <2>1, <2>2 DEF ChunkFails
<1>6. Tables' /\ TasksKept
  BY <1>2, <1>4, <1>5 DEF Tables, TasksKept, files
<1>7. \A e \in Docs : Grows(e) /\ (e # d => Same(e))
  BY <1>4, <1>5 DEF Grows, Same, files
<1>8. HasRows(d) <=> HasRows(d)'
  BY <1>4 DEF HasRows
<1>9. doc[d] # "none" => HasRows(d)
  BY <1>1, <1>2 DEF Relies, Working
<1>10. \A x \in Chunks : chunk'[d][x] = "success" => chunk[d][x] = "success"
  BY <1>4
<1>11. DocOK(d)'
  BY <1>2, <1>4, <1>5, <1>8, <1>9, <1>10 DEF DocOK, Held, Told, Whole, files
<1>12. Bad(r)
  BY DEF ChunkFails
<1> QED
  BY <1>1, <1>2, <1>6, <1>7, <1>11, <1>12, BadOK DEF Busy, Working

LEMMA AskOK ==
  ASSUME IInv, NEW r \in Ids, Ask(r)
  PROVE  IInv'
<1>1. PICK d \in Docs : d = runs[r].doc
  BY AtRun DEF Ask, IInv
<1>2. /\ Tables /\ r \in DOMAIN runs /\ runs[r] \in RunRecords /\ runs[r].pc = "ask"
      /\ DocOK(d) /\ d[1] = runs[r].task /\ Relies(runs[r], r)
  BY <1>1, Work DEF Ask, Busy, Working
<1>3. UNCHANGED <<task, log, clean, emb, dataset, files, restarts, rare, mixed>>
  BY DEF Ask
<1>4. CASE ChunkFails(r) /\ UNCHANGED qa
  BY <1>3, <1>4, ChunkFailsOK DEF Ask
<1> DEFINE pc == IF task[runs[r].task].config = "dedup" THEN "embed" ELSE "answered"
<1>5. CASE /\ qa' = [qa EXCEPT ![d] = @ \cup {RowOf(r)}] /\ Goes(r, pc) /\ UNCHANGED <<doc, chunk>>
  <2>1. PICK x \in Rows : x = RowOf(r) /\ x = <<runs[r].chunk, r>> /\ PartOf(x) \in Parts(d)
    <3>1. runs[r].chunk \in Chunks /\ runs[r].chunk[1] \in Parts(d)
      BY <1>1, <1>2 DEF Relies, Asking, RunRecords
    <3>2. RowOf(r) \in Rows /\ RowOf(r) = <<runs[r].chunk, r>>
      BY <3>1 DEF RowOf, Rows
    <3>3. PartOf(RowOf(r)) = runs[r].chunk[1]
      BY DEF RowOf, PartOf
    <3> QED
      BY <3>1, <3>2, <3>3
  <2>2. /\ qa' \in [Docs -> SUBSET Rows] /\ qa'[d] = qa[d] \cup {x} /\ \A e \in Docs : e # d => qa'[e] = qa[e]
    BY <1>2, <1>5, <2>1 DEF Tables
  <2>3. Tables' /\ TasksKept
    BY <1>2, <1>3, <1>5, <2>2 DEF Tables, TasksKept, files
  <2>4. \A e \in Docs : Grows(e) /\ (e # d => Same(e))
    BY <1>3, <1>5, <2>2 DEF Grows, Same, files
  <2>5. \A p \in AnyPart : Told(d, p) => Told(d, p)'
    BY <2>2 DEF Told
  <2>6. Parts(d) \subseteq AnyPart
    BY DEF AnyPart
  <2>7. DocOK(d)'
    BY <1>2, <1>3, <1>5, <2>1, <2>2 DEF DocOK, Held, Told, HasRows, Whole, files
  <2>8. pc \in {"embed", "answered"}
    OBVIOUS
  <2> DEFINE new == [runs[r] EXCEPT !.pc = pc]
  <2>9. /\ new \in RunRecords /\ new.pc = pc /\ new.doc = d /\ new.task = runs[r].task
        /\ new.todo = runs[r].todo /\ new.list = runs[r].list /\ new.chunk = runs[r].chunk
        /\ new.seen = runs[r].seen /\ new.retry = runs[r].retry /\ new.status = runs[r].status
        /\ runs' = [runs EXCEPT ![r] = new]
    BY <1>1, <1>2, <1>5, <2>8 DEF RunRecords, PCs, Busy, Working, Goes
  <2>10. PICK n \in RunRecords : n = new
    BY <2>9
  <2> HIDE DEF new, pc
  <2>11. Relies(n, r)'
    BY <1>1, <1>2, <1>3, <1>5, <2>1, <2>2, <2>5, <2>6, <2>8, <2>9, <2>10 DEF Relies, Working, Asking, HasRows
  <2> QED
    BY <1>1, <1>2, <2>3, <2>4, <2>7, <2>8, <2>9, <2>10, <2>11, AtWork DEF Busy, Working
<1> QED
  BY <1>1, <1>4, <1>5 DEF Ask

LEMMA EmbedOK ==
  ASSUME IInv, NEW r \in Ids, Embed(r)
  PROVE  IInv'
<1>1. PICK d \in Docs : d = runs[r].doc
  BY AtRun DEF Embed, IInv
<1>2. /\ Tables /\ r \in DOMAIN runs /\ runs[r] \in RunRecords /\ runs[r].pc = "embed"
      /\ DocOK(d) /\ d[1] = runs[r].task /\ Relies(runs[r], r)
  BY <1>1, Work DEF Embed, Busy, Working
<1>3. UNCHANGED <<task, log, qa, clean, dataset, files, restarts, rare, mixed>>
  BY DEF Embed
<1>4. CASE ChunkFails(r) /\ UNCHANGED emb
  BY <1>3, <1>4, ChunkFailsOK DEF Embed
<1>5. CASE emb' = [emb EXCEPT ![d] = @ \cup {RowOf(r)}] /\ Goes(r, "answered") /\ UNCHANGED <<doc, chunk>>
  <2>1. RowOf(r) \in Rows
    BY <1>2 DEF RowOf, Rows, RunRecords
  <2>2. Tables' /\ TasksKept /\ \A e \in Docs : Grows(e) /\ Same(e)
    BY <1>2, <1>3, <1>5, <2>1, QuietGrows DEF Tables, TasksKept, files
  <2>3. DocOK(d)'
    BY <1>2, <2>2, SameDoc DEF TasksKept, Docs
  <2> DEFINE new == [runs[r] EXCEPT !.pc = "answered"]
  <2>4. /\ new \in RunRecords /\ new.pc = "answered" /\ new.doc = d /\ new.task = runs[r].task
        /\ new.todo = runs[r].todo /\ new.list = runs[r].list /\ new.chunk = runs[r].chunk
        /\ new.seen = runs[r].seen /\ new.retry = runs[r].retry /\ new.status = runs[r].status
        /\ runs' = [runs EXCEPT ![r] = new]
    BY <1>1, <1>2, <1>5 DEF RunRecords, PCs, Busy, Working, Goes
  <2>5. PICK n \in RunRecords : n = new
    BY <2>4
  <2> HIDE DEF new
  <2>6. Relies(n, r)'
    BY <1>1, <1>2, <1>3, <1>5, <2>4, <2>5 DEF Relies, Working, Asking, HasRows, Told, Held
  <2> QED
    BY <1>1, <1>2, <2>2, <2>3, <2>4, <2>5, <2>6, AtWork DEF Busy, Working
<1> QED
  BY <1>1, <1>4, <1>5 DEF Embed

LEMMA AnsweredOK ==
  ASSUME IInv, NEW r \in Ids, Answered(r)
  PROVE  IInv'
<1>1. PICK d \in Docs : d = runs[r].doc
  BY AtRun DEF Answered, IInv
<1>2. /\ Tables /\ r \in DOMAIN runs /\ runs[r] \in RunRecords /\ runs[r].pc = "answered"
      /\ DocOK(d) /\ d[1] = runs[r].task /\ Relies(runs[r], r)
  BY <1>1, Work DEF Answered, Busy, Working
<1>3. UNCHANGED <<task, log, doc, qa, clean, emb, dataset, files, bounds, mixed>>
  BY DEF Answered
<1>4. PICK c \in Chunks : c = runs[r].chunk /\ SetChunk(d, c, "success")
  BY <1>1, <1>2 DEF Answered, RunRecords
<1>5. /\ chunk' \in [Docs -> [Chunks -> RowStatus]]
      /\ chunk'[d][c] = (IF chunk[d][c] = "none" THEN "none" ELSE "success")
      /\ \A x \in Chunks : x # c => chunk'[d][x] = chunk[d][x]
      /\ \A e \in Docs : e # d => chunk'[e] = chunk[e]
      /\ \A e \in Docs, x \in Chunks : chunk'[e][x] = "none" <=> chunk[e][x] = "none"
  BY <1>2, <1>4, SetChunkEffect DEF RowStatus
<1>6. Tables' /\ TasksKept
  BY <1>2, <1>3, <1>5 DEF Tables, TasksKept, files
<1>7. \A e \in Docs : Grows(e) /\ (e # d => Same(e))
  BY <1>3, <1>5 DEF Grows, Same, files
<1>8. HasRows(d) <=> HasRows(d)'
  BY <1>5 DEF HasRows
<1>9. doc[d] # "none" => <<c, r>> \in qa[d]
  BY <1>1, <1>2, <1>4 DEF Relies
<1>10. PartOf(<<c, r>>) = c[1]
  BY DEF PartOf
<1>11. doc[d] # "none" => Told(d, c[1])
  BY <1>9, <1>10 DEF Told
<1>12. task[d[1]].config # "chunks"
  BY <1>1, <1>2 DEF Relies, Asking
<1>13. DocOK(d)'
  BY <1>2, <1>3, <1>5, <1>8, <1>11, <1>12 DEF DocOK, Held, Told, Whole, files
<1> DEFINE new == [runs[r] EXCEPT !.pc = "chunk", !.list = @ \ {runs[r].chunk}, !.chunk = <<1, 1>>]
<1>14. <<1, 1>> \in Chunks
  BY <1>2, EndedType DEF RunRecords, Ended
<1>15. /\ new \in RunRecords /\ new.pc = "chunk" /\ new.doc = d /\ new.task = runs[r].task
       /\ new.todo = runs[r].todo /\ new.list = runs[r].list \ {c}
       /\ new.seen = runs[r].seen /\ new.retry = runs[r].retry /\ new.status = runs[r].status
       /\ runs' = [runs EXCEPT ![r] = new]
  BY <1>1, <1>2, <1>4, <1>14 DEF RunRecords, PCs, Busy, Working, Answered
<1>16. PICK n \in RunRecords : n = new
  BY <1>15
<1> HIDE DEF new
<1>17. ASSUME doc[d] # "none", NEW p \in Parts(d)
       PROVE  Told(d, p) \/ \E x \in n.list : x[1] = p
  <2>1. Told(d, p) \/ \E x \in runs[r].list : x[1] = p
    BY <1>1, <1>2, <1>12, <1>17 DEF Relies, Working
  <2> QED
    BY <1>11, <1>15, <1>16, <1>17, <2>1
<1>18. Relies(n, r)'
  BY <1>1, <1>2, <1>3, <1>8, <1>12, <1>15, <1>16, <1>17 DEF Relies, Working, Asking, Told
<1> QED
  BY <1>1, <1>2, <1>6, <1>7, <1>13, <1>15, <1>16, <1>18, AtWork DEF Busy, Working

\* What is dropped has a duplicate that is not.
LEMMA DuplicatesType ==
  ASSUME NEW d \in Docs, DocOK(d), NEW S \in Duplicates(d)
  PROVE  S \subseteq qa[d] /\ \A x \in S : \E y \in qa[d] : y \notin S /\ PartOf(y) = PartOf(x)
<1>1. S \subseteq qa[d] \cap emb[d]
  BY DEF Duplicates
<1>2. ASSUME NEW x \in S
      PROVE  \E y \in qa[d] : y \notin S /\ PartOf(y) = PartOf(x)
  <2> DEFINE same == {y \in qa[d] \cap emb[d] : PartOf(y) = PartOf(x)}
  <2>1. x \in same /\ PartOf(x) \in Parts(d)
    BY <1>1 DEF DocOK
  <2>2. same = {} \/ Cardinality(same \ S) = 1
    BY <2>1 DEF Duplicates
  <2>3. same \ S # {}
    BY <2>1, <2>2, FS_EmptySet
  <2> QED
    BY <2>3
<1> QED
  BY <1>1, <1>2

LEMMA CleanOK ==
  ASSUME IInv, NEW r \in Ids, Clean(r)
  PROVE  IInv'
<1>1. PICK d \in Docs : d = runs[r].doc
  BY AtRun DEF Clean, IInv
<1>2. /\ Tables /\ r \in DOMAIN runs /\ runs[r] \in RunRecords /\ runs[r].pc = "chunk" /\ runs[r].list = {}
      /\ DocOK(d) /\ d[1] = runs[r].task /\ Relies(runs[r], r)
  BY <1>1, Work DEF Clean, Busy, Working
<1>3. UNCHANGED <<task, log, chunk, qa, dataset, files, restarts, rare, mixed>>
  BY DEF Clean
<1>4. TasksKept /\ task[d[1]].config # "chunks"
  BY <1>1, <1>2, <1>3 DEF TasksKept, Relies
<1>5. CASE /\ Bad(r) /\ UNCHANGED <<clean, emb>> /\ (SetDoc(d, "fail") \/ UNCHANGED doc)
  <2>1. /\ doc' \in [Docs -> RowStatus]
        /\ doc'[d] = doc[d] \/ doc'[d] \in {"none", "fail"}
        /\ \A e \in Docs : (e # d => doc'[e] = doc[e]) /\ (doc'[e] = "none" <=> doc[e] = "none")
    <3>1. CASE SetDoc(d, "fail")
      BY <1>2, <3>1, SetDocEffect DEF RowStatus
    <3>2. CASE UNCHANGED doc
      BY <1>2, <3>2 DEF Tables
    <3> QED
      BY <1>5, <3>1, <3>2
  <2>2. Tables' /\ \A e \in Docs : Grows(e) /\ (e # d => Same(e))
    BY <1>2, <1>3, <1>5, <2>1 DEF Tables, Grows, Same, files
  <2>3. doc[d] # "none" => HasRows(d)
    BY <1>1, <1>2 DEF Relies, Working
  <2>4. DocOK(d)'
    BY <1>2, <1>3, <1>5, <2>1, <2>3 DEF DocOK, Held, Told, Whole, HasRows, files
  <2> QED
    BY <1>1, <1>2, <1>4, <1>5, <2>2, <2>4, BadOK DEF Busy, Working
<1>6. CASE /\ Goes(r, "save") /\ UNCHANGED doc
           /\ \E S \in Duplicates(d) \cup {{}} : Cleaned(d, S)
           /\ emb' = emb \/ emb' = [emb EXCEPT ![d] = @ \ qa[d]]
  <2>1. PICK S : Cleaned(d, S) /\ S \subseteq qa[d] /\ \A x \in S : \E y \in qa[d] : y \notin S /\ PartOf(y) = PartOf(x)
    BY <1>2, <1>6, DuplicatesType
  <2> DEFINE kept == clean[d].kept
             dropped == clean[d].dropped
             new == [kept |-> kept \cup (qa[d] \ (kept \cup dropped \cup S)), dropped |-> dropped \cup (S \ (kept \cup dropped))]
  <2>2. /\ clean[d] \in [kept : SUBSET Rows, dropped : SUBSET Rows] /\ qa[d] \subseteq Rows
    BY <1>2 DEF Tables
  <2>3. clean' = [clean EXCEPT ![d] = new]
    BY <2>1, <2>2 DEF Cleaned
  <2>4. new \in [kept : SUBSET Rows, dropped : SUBSET Rows]
    BY <2>1, <2>2
  <2>5. /\ clean' \in [Docs -> [kept : SUBSET Rows, dropped : SUBSET Rows]] /\ clean'[d] = new
        /\ \A e \in Docs : e # d => clean'[e] = clean[e]
    BY <1>2, <2>3, <2>4 DEF Tables
  <2>6. emb' \in [Docs -> SUBSET Rows]
    <3>1. emb \in [Docs -> SUBSET Rows] /\ emb[d] \ qa[d] \in SUBSET Rows
      BY <1>2 DEF Tables
    <3> QED
      BY <1>6, <3>1
  <2>7. Tables'
    BY <1>2, <1>3, <1>6, <2>5, <2>6 DEF Tables, files
  <2>8. \A e \in Docs : Grows(e) /\ (e # d => Same(e))
    BY <1>3, <1>6, <2>5 DEF Grows, Same, files
  <2>9. ASSUME NEW x \in qa[d], x \notin S
        PROVE  Held(d, PartOf(x))'
    <3>1. CASE x \in dropped
      BY <1>2, <2>5, <3>1 DEF DocOK, Held
    <3>2. CASE x \notin dropped
      BY <2>5, <2>9, <3>2 DEF Held
    <3> QED
      BY <3>1, <3>2
  <2>10. ASSUME NEW x \in qa[d] \cup dropped
         PROVE  Held(d, PartOf(x))'
    <3>1. CASE x \in dropped
      BY <1>2, <2>5, <3>1 DEF DocOK, Held
    <3>2. CASE x \in qa[d] \ S
      BY <2>9, <3>2
    <3>3. CASE x \in S
      BY <2>1, <2>9, <3>3
    <3> QED
      BY <3>1, <3>2, <3>3
  <2>11. \A x \in clean'[d].dropped : x \in qa[d] \cup dropped
    BY <2>1, <2>5
  <2>12. \A x \in clean'[d].kept : PartOf(x) \in Parts(d)
    BY <1>2, <2>5 DEF DocOK
  <2>13. DocOK(d)'
    BY <1>2, <1>3, <1>6, <2>10, <2>11, <2>12 DEF DocOK, Told, Whole, HasRows, files
  <2>14. doc[d] # "none" => \A p \in Parts(d) : Held(d, p)'
    BY <1>1, <1>2, <1>4, <2>10 DEF Relies, Working, Told
  <2> DEFINE at == [runs[r] EXCEPT !.pc = "save"]
  <2>15. /\ at \in RunRecords /\ at.pc = "save" /\ at.doc = d /\ at.task = runs[r].task
         /\ at.todo = runs[r].todo /\ at.list = {}
         /\ at.seen = runs[r].seen /\ at.retry = runs[r].retry /\ at.status = runs[r].status
         /\ runs' = [runs EXCEPT ![r] = at]
    BY <1>1, <1>2, <1>6 DEF RunRecords, PCs, Busy, Working, Goes
  <2>16. PICK n \in RunRecords : n = at
    BY <2>15
  <2> HIDE DEF at, new
  <2>17. Relies(n, r)'
    BY <1>1, <1>2, <1>3, <1>4, <1>6, <2>14, <2>15, <2>16 DEF Relies, Working, Asking, HasRows
  <2> QED
    BY <1>1, <1>2, <1>4, <2>7, <2>8, <2>13, <2>15, <2>16, <2>17, AtWork DEF Busy, Working
<1> QED
  BY <1>1, <1>5, <1>6 DEF Clean

LEMMA SaveOK ==
  ASSUME IInv, NEW r \in Ids, Save(r)
  PROVE  IInv'
<1>1. PICK d \in Docs : d = runs[r].doc
  BY AtRun DEF Save, IInv
<1>2. /\ Tables /\ r \in DOMAIN runs /\ runs[r] \in RunRecords /\ runs[r].pc = "save" /\ runs[r].list \subseteq Chunks
      /\ DocOK(d) /\ d[1] = runs[r].task /\ Relies(runs[r], r)
  BY <1>1, Work DEF Save, Busy, Working, RunRecords
<1>3. UNCHANGED <<task, log, chunk, qa, clean, emb, dataset, bucket, restarts, rare, mixed>>
  BY DEF Save
<1>4. TasksKept
  BY <1>3 DEF TasksKept
<1>5. CASE Bad(r) /\ UNCHANGED <<doc, csv, folder>>
  <2>1. Tables' /\ \A e \in Docs : Same(e) /\ Grows(e)
    BY <1>2, <1>3, <1>5, QuietGrows DEF Tables
  <2>2. DocOK(d)'
    BY <1>2, <1>4, <2>1, SameDoc DEF TasksKept, Docs
  <2> QED
    BY <1>1, <1>2, <1>4, <1>5, <2>1, <2>2, BadOK DEF Busy, Working
<1> DEFINE chunks == task[d[1]].config = "chunks"
           said == IF chunks THEN runs[r].list \X {r} ELSE clean[d].kept
<1>6. CASE /\ Good(r) /\ SetDoc(d, "success") /\ folder' = folder \cup {d}
           /\ csv' = [csv EXCEPT ![d] = said]
  <2>1. /\ doc' \in [Docs -> RowStatus] /\ doc'[d] = (IF doc[d] = "none" THEN "none" ELSE "success")
        /\ \A e \in Docs : (e # d => doc'[e] = doc[e]) /\ (doc'[e] = "none" <=> doc[e] = "none")
    BY <1>2, <1>6, SetDocEffect DEF RowStatus
  <2>2. said \subseteq Rows
    BY <1>2 DEF Tables, Rows
  <2>3. doc[d] # "none" => HasRows(d) /\ {PartOf(x) : x \in said} = Parts(d)
    <3>1. SUFFICES ASSUME doc[d] # "none"
                   PROVE  HasRows(d) /\ {PartOf(x) : x \in said} = Parts(d)
      OBVIOUS
    <3>2. HasRows(d)
      BY <1>1, <1>2, <3>1 DEF Relies, Working
    <3>3. CASE chunks
      <4>1. \A c \in runs[r].list : <<c, r>> \in said /\ PartOf(<<c, r>>) = c[1]
        BY <3>3 DEF PartOf
      <4>2. \A x \in said : PartOf(x) \in Parts(d)
        BY <1>1, <1>2, <3>3 DEF PartOf, Relies, Working
      <4>3. \A p \in Parts(d) : \E c \in runs[r].list : c[1] = p
        BY <1>1, <1>2, <3>1, <3>3 DEF Relies, Working
      <4>4. \A p \in Parts(d) : \E x \in said : PartOf(x) = p
        BY <4>1, <4>3
      <4> QED
        BY <3>2, <4>2, <4>4
    <3>4. CASE ~chunks
      <4>1. \A p \in Parts(d) : Held(d, p)
        BY <1>1, <1>2, <3>1, <3>4 DEF Relies
      <4>2. \A x \in said : PartOf(x) \in Parts(d)
        BY <1>2, <3>4 DEF DocOK
      <4> QED
        BY <3>2, <3>4, <4>1, <4>2 DEF Held
    <3> QED
      BY <3>3, <3>4
  <2> HIDE DEF said
  <2>4. csv' \in [Docs -> SUBSET Rows] /\ csv'[d] = said /\ \A e \in Docs : e # d => csv'[e] = csv[e]
    BY <1>2, <1>6, <2>2 DEF Tables
  <2>5. Tables'
    BY <1>2, <1>3, <1>6, <2>1, <2>4 DEF Tables
  <2>6. \A e \in Docs : Grows(e) /\ (e # d => Same(e))
    BY <1>3, <2>1, <2>4 DEF Grows, Same
  <2>7. DocOK(d)'
    BY <1>2, <1>3, <2>1, <2>3, <2>4 DEF DocOK, Held, Told, Whole, HasRows
  <2> QED
    BY <1>1, <1>2, <1>4, <1>6, <2>5, <2>6, <2>7, BadOK DEF Busy, Working
<1> QED
  BY <1>1, <1>2, <1>5, <1>6 DEF Save

\* The rows of a task's documents are made once, and nobody is at work on them yet.
LEMMA AddDocsOK ==
  ASSUME IInv, NEW r \in Ids, AddDocs(r)
  PROVE  IInv'
<1>1. PICK t \in Tasks : t = runs[r].task
  BY AtRun DEF AddDocs, IInv
<1>2. /\ Tables /\ r \in DOMAIN runs /\ runs[r] \in RunRecords /\ runs[r].pc = "docs" /\ runs[r].doc \in Docs
  BY AtRun, TypesAre DEF AddDocs, IInv
<1>3. ~runs[r].retry /\ Newly(r)
  BY <1>2 DEF IInv, RunOK, Newly
<1>4. /\ \A d \in DocsOf(t) : Blank(d)
      /\ \A q \in DOMAIN runs : q # r /\ runs[q].task = t => Idle(q) /\ ~Newly(q)
  BY <1>1, <1>2, <1>3 DEF IInv, FreshOK, Idle, Newly
<1>5. UNCHANGED <<task, log, chunk, qa, clean, emb, dataset, files, restarts, rare, mixed>>
  BY DEF AddDocs
<1>6. CASE Goes(r, "caught") /\ UNCHANGED doc
  <2>1. Tables' /\ TasksKept
    BY <1>2, <1>5, <1>6 DEF Tables, TasksKept, files
  <2> QED
    BY <1>2, <1>5, <1>6, <2>1, QuietGoes DEF PCs, Busy, Working, files
<1>7. CASE /\ doc' = [d \in Docs |-> IF d[1] = t THEN "not_start" ELSE doc[d]]
           /\ runs' = [runs EXCEPT ![r].pc = "next", ![r].todo = 1..NDocs, ![r].status = "process_complete"]
  <2> DEFINE new == [runs[r] EXCEPT !.pc = "next", !.todo = 1..NDocs, !.status = "process_complete"]
  <2>1. /\ new \in RunRecords /\ new.pc = "next" /\ new.task = t /\ ~new.retry /\ new.status \in Ends
        /\ runs' = [runs EXCEPT ![r] = new]
    BY <1>1, <1>2, <1>3, <1>7 DEF RunRecords, PCs, Busy, Ends
  <2> HIDE DEF new
  <2>2. /\ runs' \in Seq(RunRecords) /\ DOMAIN runs' = DOMAIN runs /\ runs'[r] = new /\ Len(runs') <= MaxRuns
        /\ \A q \in DOMAIN runs : q # r => runs'[q] = runs[q]
    BY <1>2, <2>1, Moved DEF IInv
  <2>3. Types'
    BY <1>2, <1>5, <1>7, <2>2, TypesAre DEF Tables, Types, TypeOK, TaskRecords, RowStatus, files
  <2>4. \A d \in Docs : /\ d \in DocsOf(t) => doc'[d] = "not_start" /\ chunk'[d] = chunk[d] /\ Blank(d)
                        /\ d \notin DocsOf(t) => doc'[d] = doc[d]
    BY <1>4, <1>5, <1>7 DEF DocsOf
  <2>5. ASSUME NEW d \in Docs
        PROVE  DocOK(d)'
    <3>1. CASE d \in DocsOf(t)
      BY <1>5, <2>4, <3>1 DEF IInv, DocOK, Blank, Held, Told, files
    <3>2. CASE d \notin DocsOf(t)
      BY <1>5, <2>4, <3>2 DEF IInv, DocOK, Held, Told, HasRows, Whole, files
    <3> QED
      BY <3>1, <3>2
  <2>6. ASSUME NEW q \in DOMAIN runs
        PROVE  RunOK(q)'
    <3>1. CASE q = r
      BY <2>1, <2>2, <3>1 DEF RunOK, Relies, Busy, Working, Asking
    <3>2. CASE q # r /\ runs[q].task = t
      BY <1>4, <2>2, <3>2 DEF IInv, RunOK, Relies, Idle, Busy, Working, Asking
    <3>3. CASE q # r /\ runs[q].task # t
      <4>1. runs[q] \in RunRecords /\ runs'[q] = runs[q] /\ RunOK(q)
        BY <2>2, <3>3, IdsOfRuns DEF IInv
      <4>2. \A i \in runs[q].todo : doc'[<<runs[q].task, i>>] = doc[<<runs[q].task, i>>]
        <5>1. TAKE i \in runs[q].todo
        <5>2. <<runs[q].task, i>> \in Docs /\ <<runs[q].task, i>> \notin DocsOf(t)
          BY <3>3, <4>1, DocsType DEF RunRecords, DocsOf
        <5> QED
          BY <2>4, <5>2
      <4>3. runs[q].pc \in Working \cup {"load"} => doc'[runs[q].doc] = doc[runs[q].doc]
        BY <2>4, <3>3, <4>1 DEF RunRecords, DocsOf, RunOK, Relies
      <4> QED
        BY <1>5, <4>1, <4>2, <4>3 DEF RunOK, Relies, HasRows, Told, Held, Working, Asking
    <3> QED
      BY <3>1, <3>2, <3>3
  <2>7. ASSUME NEW q \in DOMAIN runs
        PROVE  FreshOK(q)'
    <3>1. SUFFICES ASSUME Newly(q)'
                   PROVE  /\ \A d \in DocsOf(runs'[q].task) : Blank(d)'
                          /\ \A s \in DOMAIN runs : s # q /\ runs'[s].task = runs'[q].task => Idle(s)'
      BY <2>2 DEF FreshOK, DocsOf
    <3>2. q # r /\ runs'[q] = runs[q] /\ Newly(q) /\ runs[q].task # t
      BY <1>4, <2>1, <2>2, <3>1 DEF Newly
    <3>3. /\ \A d \in DocsOf(runs[q].task) : Blank(d)
          /\ \A s \in DOMAIN runs : s # q /\ runs[s].task = runs[q].task => Idle(s)
      BY <3>2 DEF IInv, FreshOK
    <3>4. \A d \in DocsOf(runs[q].task) : Blank(d)'
      BY <1>5, <2>4, <3>2, <3>3 DEF Blank, DocsOf
    <3> QED
      BY <2>1, <2>2, <3>2, <3>3, <3>4 DEF Idle
  <2>8. ASSUME NEW u \in Tasks
        PROVE  TaskOK(u)'
    BY <1>1, <1>2, <1>5, <2>1, <2>2, <2>4 DEF IInv, TaskOK, Blank, DocsOf
  <2> QED
    BY <2>2, <2>3, <2>5, <2>6, <2>7, <2>8 DEF IInv
<1> QED
  BY <1>1, <1>6, <1>7 DEF AddDocs

-----------------------------------------------------------------------------
(* Requests and restarts *)

LEMMA NewRunType ==
  ASSUME NEW t \in Tasks, NEW retry \in BOOLEAN
  PROVE  /\ NewRun(t, retry) \in RunRecords /\ NewRun(t, retry).pc = "begin"
         /\ NewRun(t, retry).task = t /\ NewRun(t, retry).retry = retry
<1> DEFINE end == Ended(t)
<1>1. end \in RunRecords /\ end.task = t
  BY EndedType
<1>2. NewRun(t, retry) = [end EXCEPT !.pc = "begin", !.retry = retry]
  BY DEF NewRun
<1> HIDE DEF end
<1> QED
  BY <1>1, <1>2 DEF RunRecords, PCs

LEMMA Appended ==
  ASSUME Types, NEW new \in RunRecords, runs' = Append(runs, new), Len(runs) < MaxRuns
  PROVE  /\ runs' \in Seq(RunRecords) /\ Len(runs') <= MaxRuns
         /\ DOMAIN runs' = DOMAIN runs \cup {Len(runs) + 1} /\ Len(runs) + 1 \notin DOMAIN runs
         /\ runs'[Len(runs) + 1] = new /\ \A q \in DOMAIN runs : runs'[q] = runs[q]
<1>1. runs \in Seq(RunRecords) /\ Len(runs) \in Nat /\ DOMAIN runs = 1..Len(runs)
  BY LenProperties DEF Types
<1>2. /\ runs' \in Seq(RunRecords) /\ Len(runs') = Len(runs) + 1
      /\ \A q \in 1..Len(runs) : runs'[q] = runs[q]
      /\ runs'[Len(runs) + 1] = new
  BY <1>1, AppendProperties
<1>3. DOMAIN runs' = 1..(Len(runs) + 1)
  BY <1>2, LenProperties
<1> QED
  BY <1>1, <1>2, <1>3, SizesAssumption

LEMMA AddOK ==
  ASSUME IInv, NEW t \in Tasks, Add(t)
  PROVE  IInv'
<1> DEFINE n == Len(runs) + 1
           new == NewRun(t, FALSE)
<1>1. Types /\ Tables /\ task[t].status = "none" /\ Len(runs) < MaxRuns
  BY TypesAre DEF IInv, Add
<1>2. UNCHANGED <<log, doc, chunk, qa, clean, emb, dataset, files, bounds, mixed>> /\ runs' = Append(runs, new)
  BY DEF Add
<1>3. new \in RunRecords /\ new.pc = "begin" /\ new.task = t /\ ~new.retry
  BY NewRunType
<1> HIDE DEF new
<1>4. /\ runs' \in Seq(RunRecords) /\ Len(runs') <= MaxRuns
      /\ DOMAIN runs' = DOMAIN runs \cup {n} /\ n \notin DOMAIN runs
      /\ runs'[n] = new /\ \A q \in DOMAIN runs : runs'[q] = runs[q]
  BY <1>1, <1>2, <1>3, Appended
<1> HIDE DEF n
<1>5. PICK w \in Requests :
        task' = [task EXCEPT ![t] = [status |-> "processing", log |-> 0, config |-> w.config, kinds |-> w.kinds]]
  BY DEF Add
<1>6. /\ [status |-> "processing", log |-> 0, config |-> w.config, kinds |-> w.kinds] \in TaskRecords
      /\ [status |-> "processing", log |-> 0, config |-> w.config, kinds |-> w.kinds].status = "processing"
  BY RequestsAssumption, SizesAssumption DEF TaskRecords, TaskStatus
<1>7. /\ task' \in [Tasks -> TaskRecords] /\ task'[t].status = "processing"
      /\ \A u \in Tasks : u # t => task'[u] = task[u]
  BY <1>1, <1>5, <1>6 DEF Tables
<1>8. Types'
  BY <1>1, <1>2, <1>4, <1>7, TypesAre DEF Tables, Types, TypeOK, TaskRecords, files
<1>9. (\A d \in DocsOf(t) : Blank(d)) /\ \A q \in DOMAIN runs : runs[q].task # t
  BY <1>1 DEF IInv, TaskOK
<1>10. ASSUME NEW d \in Docs
       PROVE  DocOK(d)'
  <2>1. CASE d \in DocsOf(t)
    BY <1>2, <1>9, <2>1 DEF IInv, DocOK, Blank, Held, files
  <2>2. CASE d \notin DocsOf(t)
    <3>1. task'[d[1]].config = task[d[1]].config
      BY <1>7, <2>2 DEF DocsOf, Docs
    <3> QED
      BY <1>2, <3>1 DEF IInv, DocOK, Held, Told, HasRows, Whole, files
  <2> QED
    BY <2>1, <2>2
<1>11. ASSUME NEW q \in DOMAIN runs'
       PROVE  RunOK(q)'
  <2>1. CASE q = n
    BY <1>3, <1>4, <2>1 DEF RunOK, Relies, Busy, Working, Asking
  <2>2. CASE q \in DOMAIN runs
    <3>1. runs'[q] = runs[q] /\ RunOK(q) /\ runs[q].task # t /\ runs[q].task \in Tasks
      BY <1>1, <1>4, <1>9, <2>2, IdsOfRuns DEF IInv, RunRecords
    <3>2. runs[q].pc \in Working \cup {"load"} => task'[runs[q].doc[1]] = task[runs[q].doc[1]]
      BY <1>7, <3>1 DEF RunOK, Relies
    <3> QED
      BY <1>2, <3>1, <3>2 DEF RunOK, Relies, HasRows, Told, Held, Working, Asking
  <2> QED
    BY <1>4, <2>1, <2>2
<1>12. ASSUME NEW q \in DOMAIN runs'
       PROVE  FreshOK(q)'
  <2>1. CASE q = n
    BY <1>2, <1>3, <1>4, <1>9, <2>1 DEF FreshOK, Blank, DocsOf
  <2>2. CASE q \in DOMAIN runs
    BY <1>2, <1>3, <1>4, <1>9, <2>2 DEF IInv, FreshOK, Blank, DocsOf, Idle, Newly
  <2> QED
    BY <1>4, <2>1, <2>2
<1>13. ASSUME NEW u \in Tasks
       PROVE  TaskOK(u)'
  BY <1>2, <1>3, <1>4, <1>7 DEF IInv, TaskOK, Blank, DocsOf
<1> QED
  BY <1>8, <1>10, <1>11, <1>12, <1>13 DEF IInv

LEMMA RetryOK ==
  ASSUME IInv, NEW t \in Tasks, Retry(t)
  PROVE  IInv'
<1> DEFINE n == Len(runs) + 1
           new == NewRun(t, TRUE)
<1>1. Types /\ Tables /\ task[t].status # "none" /\ Len(runs) < MaxRuns
  BY TypesAre DEF IInv, Retry
<1>2. UNCHANGED <<tables, dataset, files, bounds>> /\ runs' = Append(runs, new) /\ mixed' \subseteq mixed \cup {t}
  BY DEF Retry
<1>3. new \in RunRecords /\ new.pc = "begin" /\ new.task = t /\ new.retry
  BY NewRunType
<1> HIDE DEF new
<1>4. /\ runs' \in Seq(RunRecords) /\ Len(runs') <= MaxRuns
      /\ DOMAIN runs' = DOMAIN runs \cup {n} /\ n \notin DOMAIN runs
      /\ runs'[n] = new /\ \A q \in DOMAIN runs : runs'[q] = runs[q]
  BY <1>1, <1>2, <1>3, Appended
<1> HIDE DEF n
<1>5. Types'
  BY <1>1, <1>2, <1>4, TypesAre DEF Tables, Types, TypeOK, TaskRecords, tables, files
<1>6. ASSUME NEW d \in Docs
      PROVE  DocOK(d)'
  BY <1>2 DEF IInv, DocOK, Held, Told, HasRows, Whole, tables, files
<1>7. ASSUME NEW q \in DOMAIN runs'
      PROVE  RunOK(q)'
  <2>1. CASE q = n
    BY <1>3, <1>4, <2>1 DEF RunOK, Relies, Busy, Working, Asking
  <2>2. CASE q \in DOMAIN runs
    <3>1. runs'[q] = runs[q] /\ RunOK(q)
      BY <1>4, <2>2 DEF IInv
    <3>2. UNCHANGED <<task, doc, chunk, qa, clean>>
      BY <1>2 DEF tables
    <3>3. Relies(runs[q], q)'
      BY <3>1, <3>2 DEF RunOK, Relies, HasRows, Told, Held
    <3> QED
      BY <3>1, <3>2, <3>3 DEF RunOK, HasRows
  <2> QED
    BY <1>4, <2>1, <2>2
<1>8. ASSUME NEW q \in DOMAIN runs'
      PROVE  FreshOK(q)'
  <2>1. CASE q = n
    BY <1>3, <1>4, <2>1 DEF FreshOK, Newly
  <2>2. CASE q \in DOMAIN runs
    BY <1>2, <1>3, <1>4, <2>2 DEF IInv, FreshOK, Blank, DocsOf, Idle, Newly, Busy, Working, tables
  <2> QED
    BY <1>4, <2>1, <2>2
<1>9. ASSUME NEW u \in Tasks
      PROVE  TaskOK(u)'
  BY <1>1, <1>2, <1>3, <1>4 DEF IInv, TaskOK, Blank, DocsOf, tables
<1> QED
  BY <1>5, <1>6, <1>7, <1>8, <1>9 DEF IInv

LEMMA DeleteOK ==
  ASSUME IInv, NEW t \in Tasks, Delete(t)
  PROVE  IInv'
<1>1. Types /\ Tables /\ UNCHANGED <<emb, dataset, files, runs, faults, restarts>>
  BY TypesAre DEF IInv, Delete
<1>2. /\ task' = [task EXCEPT ![t].status = "gone"]
      /\ log' = [r \in Ids |-> IF r \in DOMAIN runs /\ runs[r].task = t THEN "none" ELSE log[r]]
      /\ doc' = [d \in Docs |-> IF d[1] = t THEN "none" ELSE doc[d]]
      /\ chunk' = [d \in Docs |-> IF d[1] = t THEN [c \in Chunks |-> "none"] ELSE chunk[d]]
      /\ qa' = [d \in Docs |-> IF d[1] = t THEN {} ELSE qa[d]]
      /\ clean' = [d \in Docs |-> IF d[1] = t THEN [kept |-> {}, dropped |-> {}] ELSE clean[d]]
      /\ mixed' \subseteq mixed \cup {t}
  BY DEF Delete
<1>3. /\ task' \in [Tasks -> TaskRecords] /\ task'[t].status = "gone"
      /\ \A u \in Tasks : task'[u].config = task[u].config /\ (u # t => task'[u] = task[u])
  <2> DEFINE new == [task[t] EXCEPT !.status = "gone"]
  <2>1. new \in TaskRecords /\ new.status = "gone" /\ new.config = task[t].config
    <3>1. task[t] \in TaskRecords /\ "gone" \in TaskStatus
      BY <1>1 DEF Tables, TaskStatus
    <3> QED
      BY <3>1 DEF TaskRecords
  <2>2. task' = [task EXCEPT ![t] = new]
    BY <1>2
  <2> HIDE DEF new
  <2> QED
    BY <1>1, <2>1, <2>2 DEF Tables
<1>4. log' \in [Ids -> Ends \cup {"none", "open"}]
  BY <1>1, <1>2 DEF Tables
<1>5. doc' \in [Docs -> RowStatus] /\ chunk' \in [Docs -> [Chunks -> RowStatus]]
  BY <1>1, <1>2 DEF Tables, RowStatus
<1>6. qa' \in [Docs -> SUBSET Rows] /\ clean' \in [Docs -> [kept : SUBSET Rows, dropped : SUBSET Rows]]
  BY <1>1, <1>2 DEF Tables
<1>7. Types'
  BY <1>1, <1>2, <1>3, <1>4, <1>5, <1>6, TypesAre DEF Tables, Types, TypeOK, TaskRecords, files
<1>8. \A d \in Docs : d[1] = t => /\ doc'[d] = "none" /\ (\A c \in Chunks : chunk'[d][c] = "none") /\ qa'[d] = {}
                                  /\ clean'[d].kept = {} /\ clean'[d].dropped = {}
  BY <1>2
<1>9. \A d \in Docs : d[1] # t => Same(d)
  BY <1>1, <1>2 DEF Same, files
<1>10. ASSUME NEW d \in Docs
       PROVE  DocOK(d)' /\ (Blank(d) => Blank(d)')
  <2>1. CASE d[1] = t
    BY <1>8, <2>1 DEF DocOK, Blank
  <2>2. CASE d[1] # t
    BY <1>3, <1>9, <2>2, SameDoc DEF IInv, Docs
  <2> QED
    BY <2>1, <2>2
<1>11. ASSUME NEW q \in DOMAIN runs
       PROVE  RunOK(q)'
  <2>1. /\ runs'[q] = runs[q] /\ RunOK(q) /\ runs[q].task \in Tasks /\ runs[q].doc \in Docs /\ runs[q].doc[1] \in Tasks
        /\ runs[q].todo \subseteq 1..NDocs
    BY <1>1, IdsOfRuns DEF IInv, RunRecords, Docs
  <2>2. CASE runs[q].doc[1] = t
    <3>1. doc'[runs[q].doc] = "none"
      BY <1>8, <2>1, <2>2
    <3>2. Relies(runs[q], q)'
      BY <1>1, <1>3, <2>1, <3>1 DEF RunOK, Relies
    <3>3. \A i \in runs[q].todo : /\ doc'[<<runs[q].task, i>>] # "none" => doc[<<runs[q].task, i>>] # "none"
                                  /\ doc'[<<runs[q].task, i>>] # "none" /\ HasRows(<<runs[q].task, i>>)
                                        => HasRows(<<runs[q].task, i>>)'
      BY <1>8, <1>9, <2>1, DocsType DEF Same, HasRows
    <3> QED
      BY <1>1, <2>1, <3>2, <3>3 DEF RunOK
  <2>3. CASE runs[q].doc[1] # t
    <3>1. Same(runs[q].doc) /\ task'[runs[q].doc[1]].config = task[runs[q].doc[1]].config
      BY <1>3, <1>9, <2>1, <2>3
    <3>2. Relies(runs[q], q)'
      BY <1>1, <2>1, <3>1 DEF RunOK, Relies, Same, HasRows, Told, Held
    <3>3. \A i \in runs[q].todo : /\ doc'[<<runs[q].task, i>>] # "none" => doc[<<runs[q].task, i>>] # "none"
                                  /\ doc'[<<runs[q].task, i>>] # "none" /\ HasRows(<<runs[q].task, i>>)
                                        => HasRows(<<runs[q].task, i>>)'
      BY <1>8, <1>9, <2>1, DocsType DEF Same, HasRows
    <3> QED
      BY <1>1, <2>1, <3>2, <3>3 DEF RunOK
  <2> QED
    BY <2>2, <2>3
<1>12. ASSUME NEW q \in DOMAIN runs
       PROVE  FreshOK(q)'
  BY <1>1, <1>10 DEF IInv, FreshOK, DocsOf, Idle, Newly
<1>13. ASSUME NEW u \in Tasks
       PROVE  TaskOK(u)'
  BY <1>1, <1>3, <1>10 DEF IInv, TaskOK, DocsOf
<1> QED
  BY <1>1, <1>7, <1>10, <1>11, <1>12, <1>13 DEF IInv

LEMMA RestartOK ==
  ASSUME IInv, Restart
  PROVE  IInv'
<1>1. /\ Types /\ Tables /\ UNCHANGED <<tables, dataset, bucket, csv, faults, mixed>> /\ folder' = {}
      /\ runs' = [r \in DOMAIN runs |-> Ended(runs[r].task)]
  BY TypesAre DEF IInv, Restart
<1>2. /\ runs \in Seq(RunRecords) /\ Len(runs) \in Nat /\ DOMAIN runs = 1..Len(runs)
      /\ \A r \in DOMAIN runs : runs[r].task \in Tasks
  BY <1>1, LenProperties, IdsOfRuns DEF Types, RunRecords
<1>3. \A r \in DOMAIN runs : /\ Ended(runs[r].task) \in RunRecords /\ Ended(runs[r].task).pc = "done"
                             /\ Ended(runs[r].task).task = runs[r].task
  BY <1>2, EndedType
<1>4. runs' \in [1..Len(runs) -> RunRecords]
  BY <1>1, <1>2, <1>3
<1>5. runs' \in Seq(RunRecords) /\ Len(runs') = Len(runs) /\ DOMAIN runs' = DOMAIN runs
  BY <1>2, <1>4, SeqDef
<1>6. \A r \in DOMAIN runs : runs'[r].pc = "done" /\ runs'[r].task = runs[r].task
  BY <1>1, <1>3
<1>7. Types'
  BY <1>1, <1>5, TypesAre DEF Tables, Types, TypeOK, TaskRecords, tables
<1>8. ASSUME NEW d \in Docs
      PROVE  DocOK(d)'
  BY <1>1 DEF IInv, DocOK, Held, Told, HasRows, Whole, tables
<1>9. ASSUME NEW q \in DOMAIN runs
      PROVE  RunOK(q)' /\ FreshOK(q)'
  BY <1>5, <1>6 DEF RunOK, Relies, FreshOK, Newly, Busy, Working, Asking
<1>10. ASSUME NEW u \in Tasks
       PROVE  TaskOK(u)'
  BY <1>1, <1>5, <1>6 DEF IInv, TaskOK, Blank, DocsOf, tables
<1> QED
  BY <1>5, <1>7, <1>8, <1>9, <1>10 DEF IInv

-----------------------------------------------------------------------------
(* The theorems *)

LEMMA Initially ==
  ASSUME Init
  PROVE  IInv
<1>1. runs = <<>> /\ DOMAIN runs = {} /\ Len(runs) = 0 /\ runs \in Seq(RunRecords)
  BY EmptySeq, LenProperties DEF Init
<1>2. task \in [Tasks -> TaskRecords]
  BY SizesAssumption DEF Init, TaskRecords, TaskStatus
<1>3. Tables
  BY <1>2 DEF Init, Tables, RowStatus
<1>4. Types
  BY <1>1, <1>3, TypesAre, SizesAssumption
<1>5. \A d \in Docs : Blank(d) /\ DocOK(d)
  BY DEF Init, Blank, DocOK, Held, Told
<1> QED
  BY <1>1, <1>4, <1>5 DEF IInv, TaskOK, DocsOf

\* The invariant is kept by every step.
LEMMA Invariance ==
  ASSUME IInv, [Next]_vars
  PROVE  IInv'
<1>1. CASE \E t \in Tasks : Add(t) \/ Retry(t) \/ Delete(t)
  BY <1>1, AddOK, RetryOK, DeleteOK
<1>2. CASE \E r \in Ids : Run(r)
  <2>1. PICK r \in Ids : Run(r)
    BY <1>2
  <2>2. CASE Begin(r) \/ BeginGone(r) \/ AddDocs(r) \/ ListDocs(r)
    BY <2>2, BeginOK, BeginGoneOK, AddDocsOK, ListDocsOK
  <2>3. CASE Documents(r)
    <3>1. CASE Take(r) \/ Load(r) \/ Mark(r) \/ StartChunk(r)
      BY <3>1, TakeOK, LoadOK, MarkOK, StartChunkOK
    <3>2. CASE Ask(r) \/ Embed(r) \/ Answered(r) \/ Clean(r) \/ Save(r)
      BY <3>2, AskOK, EmbedOK, AnsweredOK, CleanOK, SaveOK
    <3> QED
      BY <2>3, <3>1, <3>2 DEF Documents
  <2>4. CASE Walk(r) \/ Put(r) \/ TellDataset(r) \/ End(r) \/ Caught(r)
    BY <2>4, WalkOK, PutOK, TellDatasetOK, EndOK, CaughtOK
  <2> QED
    BY <2>1, <2>2, <2>3, <2>4 DEF Run
<1>3. CASE Restart
  BY <1>3, RestartOK
<1>4. CASE UNCHANGED vars
  <2>1. UNCHANGED <<task, log, doc, chunk, qa, clean, emb, dataset, bucket, folder, csv, runs, mixed>>
    BY <1>4 DEF vars, tables, files
  <2>2. Types'
    BY <2>1 DEF IInv, Types, TypeOK
  <2>3. ASSUME NEW d \in Docs
        PROVE  DocOK(d)'
    BY <2>1 DEF IInv, DocOK, Held, Told, HasRows, Whole
  <2>4. ASSUME NEW q \in DOMAIN runs
        PROVE  RunOK(q)' /\ FreshOK(q)'
    <3>1. RunOK(q) /\ FreshOK(q) /\ runs' = runs
      BY <2>1 DEF IInv
    <3>2. Relies(runs[q], q)'
      BY <2>1, <3>1 DEF RunOK, Relies, HasRows, Told, Held
    <3>3. RunOK(q)'
      BY <2>1, <3>1, <3>2 DEF RunOK, HasRows
    <3>4. FreshOK(q)'
      BY <2>1, <3>1 DEF FreshOK, Blank, DocsOf, Idle, Newly
    <3> QED
      BY <3>3, <3>4
  <2>5. ASSUME NEW t \in Tasks
        PROVE  TaskOK(t)'
    BY <2>1 DEF IInv, TaskOK, Blank, DocsOf
  <2> QED
    BY <2>1, <2>2, <2>3, <2>4, <2>5 DEF IInv
<1> QED
  BY <1>1, <1>2, <1>3, <1>4 DEF Next

\* What the runs rely on holds in every state, whichever of them meet and whatever
\* fails: the invariant that the theorems below follow from.
THEOREM Inductive == Spec => []IInv
<1>1. Init => IInv
  BY Initially
<1>2. IInv /\ [Next]_vars => IInv'
  BY Invariance
<1> QED
  BY <1>1, <1>2, PTL DEF Spec

\* Type correctness of the tables, the files and the threads.
THEOREM TypeCorrect == Spec => []TypeOK
<1>1. IInv => TypeOK
  BY DEF IInv, Types
<1> QED
  BY <1>1, Inductive, PTL

\* The file of a document that succeeded speaks of every part of it: for every
\* number of runs of a task, at once or one after the other, of failures, restarts
\* and deletions.
THEOREM FilesAreWhole == Spec => []SuccessIsWhole
<1>1. IInv => SuccessIsWhole
  BY DEF IInv, DocOK, Whole, SuccessIsWhole
<1> QED
  BY <1>1, Inductive, PTL

-----------------------------------------------------------------------------
(* Files are not lost *)

\* A step that makes no document successful, and leaves the files.
LEMMA FilesStay ==
  ASSUME Delivered, UNCHANGED <<bucket, folder, restarts>>,
         \A d \in Docs : doc'[d] = "success" => doc[d] = "success"
  PROVE  Delivered'
BY DEF Delivered

\* A row takes the status it is given, if it is there.
LEMMA OnlyThis ==
  ASSUME Tables, NEW d, NEW s \in RowStatus \ {"success"}, SetDoc(d, s), NEW e \in Docs, doc'[e] = "success"
  PROVE  doc[e] = "success"
BY DEF Tables, SetDoc

\* The file is in the folder before its document succeeds.
LEMMA SaveKeeps ==
  ASSUME IInv, Delivered, NEW r \in Ids, Save(r)
  PROVE  Delivered'
<1>1. PICK d \in Docs : d = runs[r].doc
  BY AtRun DEF Save, IInv
<1>2. Tables /\ UNCHANGED <<bucket, restarts>>
  BY TypesAre DEF IInv, Save
<1>3. CASE UNCHANGED <<doc, folder>>
  BY <1>2, <1>3, FilesStay
<1>4. CASE folder' = folder \cup {d} /\ SetDoc(d, "success")
  <2>1. \A e \in Docs : e # d => doc'[e] = doc[e]
    BY <1>2, <1>4 DEF Tables, SetDoc
  <2> QED
    BY <1>2, <1>4, <2>1 DEF Delivered
<1> QED
  BY <1>1, <1>3, <1>4 DEF Save

\* And in the dataset before it leaves the folder.
LEMMA PutKeeps ==
  ASSUME IInv, Delivered, NEW r \in Ids, Put(r)
  PROVE  Delivered'
<1>1. PICK t \in Tasks : t = runs[r].task
  BY AtRun DEF Put, IInv
<1>2. Tables /\ doc' = doc /\ restarts' = restarts
  BY TypesAre DEF IInv, Put, tables
<1>3. PICK f \in runs[r].files :
        \/ bucket' = [bucket EXCEPT ![t] = @ \cup {f}] /\ folder' = folder \ {f}
        \/ UNCHANGED <<bucket, folder>>
  BY <1>1 DEF Put, StoreFails
<1>4. CASE UNCHANGED <<bucket, folder>>
  BY <1>2, <1>4, FilesStay
<1>5. CASE bucket' = [bucket EXCEPT ![t] = @ \cup {f}] /\ folder' = folder \ {f}
  <2>1. f \in bucket'[t] /\ \A u \in Tasks : bucket[u] \subseteq bucket'[u]
    BY <1>2, <1>5 DEF Tables
  <2> QED
    BY <1>2, <1>5, <2>1 DEF Delivered
<1> QED
  BY <1>3, <1>4, <1>5

LEMMA StepDelivers ==
  ASSUME IInv, Delivered, restarts \in Nat, [Next]_vars
  PROVE  Delivered' /\ restarts' \in Nat
<1>1. Tables
  BY TypesAre DEF IInv
<1> DEFINE NoneSucceeds == \A d \in Docs : doc'[d] = "success" => doc[d] = "success"
<1>2. CASE \E t \in Tasks : Add(t) \/ Retry(t) \/ Delete(t)
  <2>1. UNCHANGED <<bucket, folder, restarts>> /\ NoneSucceeds
    BY <1>2 DEF Add, Retry, Delete, tables, files, bounds
  <2> QED
    BY <2>1, FilesStay
<1>3. CASE \E r \in Ids : Run(r)
  <2>1. PICK r \in Ids : Run(r)
    BY <1>3
  <2>2. CASE Begin(r) \/ BeginGone(r) \/ ListDocs(r) \/ Take(r) \/ Load(r) \/ StartChunk(r) \/ Answered(r)
    <3>1. UNCHANGED <<bucket, folder, restarts, doc>>
      BY <2>2 DEF Begin, BeginGone, ListDocs, Take, Load, StartChunk, Answered, tables, files, bounds
    <3> QED
      BY <3>1, FilesStay
  <2>3. CASE Walk(r) \/ TellDataset(r) \/ End(r) \/ Caught(r)
    <3>1. UNCHANGED <<bucket, folder, restarts, doc>>
      BY <2>3 DEF Walk, TellDataset, End, Caught, tables, files, bounds
    <3> QED
      BY <3>1, FilesStay
  <2>4. CASE AddDocs(r)
    <3>1. UNCHANGED <<bucket, folder, restarts>> /\ NoneSucceeds
      BY <2>4 DEF AddDocs, files
    <3> QED
      BY <3>1, FilesStay
  <2>5. CASE Mark(r) \/ Ask(r) \/ Embed(r) \/ Clean(r)
    <3>1. UNCHANGED <<bucket, folder, restarts>>
      BY <2>5 DEF Mark, Ask, Embed, Clean, files, bounds
    <3>2. UNCHANGED doc \/ SetDoc(runs[r].doc, "doing") \/ SetDoc(runs[r].doc, "fail")
      BY <2>5 DEF Mark, Ask, Embed, Clean, ChunkFails
    <3>3. NoneSucceeds
      BY <1>1, <3>2, OnlyThis DEF RowStatus
    <3> QED
      BY <3>1, <3>3, FilesStay
  <2>6. CASE Save(r)
    BY <2>6, SaveKeeps DEF Save
  <2>7. CASE Put(r)
    BY <2>7, PutKeeps DEF Put
  <2> QED
    BY <2>1, <2>2, <2>3, <2>4, <2>5, <2>6, <2>7 DEF Run, Documents
<1>4. CASE Restart
  <2>1. restarts' = restarts + 1
    BY <1>4 DEF Restart
  <2>2. restarts' # 0 /\ restarts' \in Nat
    BY <2>1
  <2> QED
    BY <2>2 DEF Delivered
<1>5. CASE UNCHANGED vars
  <2>1. UNCHANGED <<bucket, folder, restarts, doc>>
    BY <1>5 DEF vars, tables, files, bounds
  <2> QED
    BY <2>1, FilesStay
<1> QED
  BY <1>2, <1>3, <1>4, <1>5 DEF Next

\* Without a restart, the file of a document that succeeded is in the folder or in a
\* dataset, although runs of all tasks upload from the folder and remove from it.
THEOREM NothingLost == Spec => []Delivered
<1>1. Init => Delivered /\ restarts \in Nat
  BY DEF Init, Delivered
<1>2. IInv /\ Delivered /\ restarts \in Nat /\ [Next]_vars => (Delivered /\ restarts \in Nat)'
  BY StepDelivers
<1> QED
  BY <1>1, <1>2, Inductive, PTL DEF Spec

-----------------------------------------------------------------------------
(* The ends of tasks *)

\* What a run that is still to end well has behind it: all documents but those to
\* do, and the one at hand, have succeeded or have no row, and before it writes the
\* end the dataset is told.
AtDoc(run) == IF run.pc \in Working \cup {"load"} THEN {run.doc[2]} ELSE {}
Settled(run) ==
  run.pc \in Busy \cup {"put", "rows"} /\ run.status = "process_complete" =>
    /\ \A i \in (1..NDocs) \ (run.todo \cup AtDoc(run)) : doc[<<run.task, i>>] \in {"none", "success"}
    /\ run.pc \in {"put", "rows"} => run.todo = {}
    /\ run.pc = "rows" => dataset[run.task] = "process_complete"

\* A task in processing has a run that is to end it.
Processing(t) == restarts = 0 /\ task[t].status = "processing" => Active(t) # {}

\* The end of a task is that of a run in its log; a run that has begun is in the log
\* of a task that is there.
Logged(t) ==
  /\ task[t].status \in Ends =>
       LET l == task[t].log IN
       l \in DOMAIN runs /\ runs[l].task = t /\ runs[l].pc = "done" /\ log[l] = task[t].status
  /\ Exists(t) => \A q \in Active(t) : runs[q].pc # "begin" => log[q] # "none"

\* Where two actors never met: one run at a time, and while it is under way the task
\* is in processing.
Lone(t) ==
  t \notin mixed =>
    /\ \A p, q \in Active(t) : p = q
    /\ \A q \in Active(t) :
         /\ (runs[q].pc = "begin" /\ runs[q].retry) \/ task[t].status = "processing"
         /\ Settled(runs[q])
    /\ task[t].status = "process_complete" =>
         dataset[t] = "process_complete" /\ \A d \in DocsOf(t) : doc[d] \in {"none", "success"}

TaskEnds(t) == Processing(t) /\ Logged(t) /\ Lone(t)
EndsInv == restarts \in Nat /\ \A t \in Tasks : TaskEnds(t)

\* A step of a run leaves other runs and other tasks alone.
Frame(r) ==
  /\ r \in DOMAIN runs /\ runs[r].pc # "done"
  /\ DOMAIN runs' = DOMAIN runs /\ (\A q \in DOMAIN runs : q # r => runs'[q] = runs[q])
  /\ runs'[r].task = runs[r].task
  /\ \A u \in Tasks : u # runs[r].task => task'[u] = task[u] /\ dataset'[u] = dataset[u]
  /\ \A d \in Docs : d[1] # runs[r].task => doc'[d] = doc[d]
  /\ \A q \in DOMAIN runs : q # r => log'[q] = log[q]
  /\ UNCHANGED <<mixed, restarts>>

\* It goes on, begins its work, or stops.
GoesOn(r) ==
  /\ runs[r].pc # "begin" /\ runs'[r].pc \notin {"begin", "done"}
  /\ task'[runs[r].task] = task[runs[r].task] /\ log'[r] = log[r]
  /\ Settled(runs[r]) => Settled(runs[r])'
Begins(r) ==
  /\ runs[r].pc = "begin" /\ runs'[r].pc \in {"list", "docs"} /\ log'[r] # "none"
  /\ \/ Exists(runs[r].task) /\ task'[runs[r].task].status = "processing"
     \/ ~runs[r].retry /\ task'[runs[r].task] = task[runs[r].task]
StopsWith(r, s) ==
  LET t == runs[r].task IN
  /\ task'[t].status = s /\ task'[t].log = r
  /\ log[r] # "none" \/ runs[r].pc = "begin" => log'[r] = s
  /\ s = "process_complete" =>
       /\ runs[r].pc = "rows" /\ runs[r].status = "process_complete"
       /\ dataset'[t] = dataset[t] /\ \A d \in DocsOf(t) : doc'[d] = doc[d]
Stops(r) ==
  /\ runs'[r].pc = "done"
  /\ IF Exists(runs[r].task) THEN \E s \in Ends : StopsWith(r, s)
     ELSE task'[runs[r].task] = task[runs[r].task]

LEMMA OthersEnd ==
  ASSUME IInv, EndsInv, NEW r, Frame(r), NEW u \in Tasks, u # runs[r].task
  PROVE  TaskEnds(u)'
<1>1. TaskEnds(u) /\ task'[u] = task[u] /\ dataset'[u] = dataset[u] /\ \A d \in DocsOf(u) : doc'[d] = doc[d]
  BY DEF EndsInv, Frame, DocsOf
<1>2. /\ \A q \in DOMAIN runs : runs[q].task = u => q # r /\ runs'[q] = runs[q] /\ log'[q] = log[q]
      /\ \A q \in DOMAIN runs : runs'[q].task = u <=> runs[q].task = u
      /\ DOMAIN runs' = DOMAIN runs
  BY DEF Frame
<1>3. Active(u)' = Active(u) /\ \A q \in Active(u) : q \in DOMAIN runs /\ runs[q].task = u
  BY <1>2 DEF Active
<1>4. Processing(u)'
  BY <1>1, <1>3 DEF TaskEnds, Processing, Frame
<1>5. Logged(u)'
  BY <1>1, <1>2, <1>3 DEF TaskEnds, Logged, Exists
<1>6. \A i \in 1..NDocs : <<u, i>> \in DocsOf(u)
  BY DocsType DEF DocsOf
<1>7. ASSUME NEW q \in Active(u), Settled(runs[q])
      PROVE  Settled(runs[q])'
  BY <1>1, <1>2, <1>3, <1>6, <1>7 DEF Settled, AtDoc
<1>8. Lone(u)'
  BY <1>1, <1>2, <1>3, <1>7 DEF TaskEnds, Lone, Frame, DocsOf
<1> QED
  BY <1>4, <1>5, <1>8 DEF TaskEnds

LEMMA OwnEnds ==
  ASSUME IInv, EndsInv, NEW r, Frame(r), NEW t \in Tasks, t = runs[r].task,
         GoesOn(r) \/ Begins(r) \/ Stops(r)
  PROVE  TaskEnds(t)'
<1>1. TaskEnds(t) /\ r \in Active(t) /\ runs'[r].task = t
  BY DEF EndsInv, Frame, Active
<1>2. \A q \in DOMAIN runs : q # r => runs'[q] = runs[q] /\ log'[q] = log[q]
  BY DEF Frame
<1>3. /\ Active(t)' \subseteq Active(t)
      /\ \A q \in Active(t) : q \in DOMAIN runs /\ runs[q].task = t
      /\ runs'[r].pc # "done" => r \in Active(t)'
      /\ runs'[r].pc = "done" => r \notin Active(t)'
  BY <1>1, <1>2 DEF Active, Frame
<1>4. task[t].status \in Ends => task[t].log # r
  BY <1>1 DEF TaskEnds, Logged, Frame
<1>5. CASE GoesOn(r)
  <2>1. task'[t] = task[t] /\ log'[r] = log[r] /\ r \in Active(t)' /\ runs[r].pc # "begin"
    BY <1>3, <1>5 DEF GoesOn
  <2>2. Processing(t)'
    BY <2>1 DEF Processing
  <2>3. Logged(t)'
    BY <1>1, <1>2, <1>3, <1>4, <2>1 DEF TaskEnds, Logged, Exists, Frame
  <2>4. t \notin mixed => task[t].status = "processing" /\ Settled(runs[r]) /\ Active(t)' \subseteq {r}
    BY <1>1, <1>3, <2>1 DEF TaskEnds, Lone
  <2>5. Lone(t)'
    BY <1>5, <2>1, <2>4 DEF Lone, Frame, GoesOn
  <2> QED
    BY <2>2, <2>3, <2>5 DEF TaskEnds
<1>6. CASE Begins(r)
  <2>1. r \in Active(t)' /\ log'[r] # "none"
    BY <1>3, <1>6 DEF Begins
  <2>2. Processing(t)'
    BY <2>1 DEF Processing
  <2>3. (Exists(t) /\ task'[t].status = "processing") \/ task'[t] = task[t]
    BY <1>6 DEF Begins
  <2>4. Logged(t)'
    <3>1. CASE task'[t] = task[t]
      BY <1>1, <1>2, <1>3, <1>4, <2>1, <3>1 DEF TaskEnds, Logged, Exists, Frame
    <3>2. CASE Exists(t) /\ task'[t].status = "processing"
      BY <1>1, <1>2, <1>3, <2>1, <3>2 DEF TaskEnds, Logged, Exists, Frame, Ends
    <3> QED
      BY <2>3, <3>1, <3>2
  <2>5. t \notin mixed => task'[t].status = "processing" /\ Active(t)' \subseteq {r}
    BY <1>1, <1>3, <1>6, <2>3 DEF TaskEnds, Lone, Begins
  <2>6. Settled(runs[r])'
    BY <1>6 DEF Begins, Settled, Busy, Working
  <2>7. Lone(t)'
    BY <2>5, <2>6 DEF Lone, Frame
  <2> QED
    BY <2>2, <2>4, <2>7 DEF TaskEnds
<1>7. CASE Stops(r)
  <2>1. runs'[r].pc = "done" /\ r \in DOMAIN runs'
    BY <1>7 DEF Stops, Frame
  <2>2. t \notin mixed => Active(t)' = {}
    BY <1>1, <1>3, <2>1 DEF TaskEnds, Lone
  <2>3. CASE ~Exists(t)
    <3>1. task'[t] = task[t] /\ task'[t].status \notin Ends \cup {"processing"}
      BY <1>7, <2>3 DEF Stops, Exists, Ends
    <3> QED
      BY <2>2, <2>3, <3>1 DEF TaskEnds, Processing, Logged, Lone, Exists, Frame, Ends
  <2>4. CASE Exists(t)
    <3>1. PICK s \in Ends : StopsWith(r, s)
      BY <1>7, <2>4 DEF Stops
    <3>2. task'[t].status = s /\ task'[t].log = r /\ s \in {"process_complete", "process_fail"}
      BY <3>1 DEF StopsWith, Ends
    <3>3. log'[r] = s
      BY <1>1, <2>4, <3>1 DEF TaskEnds, Logged, StopsWith
    <3>4. Logged(t)'
      BY <1>1, <1>2, <1>3, <2>1, <2>4, <3>2, <3>3 DEF TaskEnds, Logged, Exists
    <3>5. ASSUME t \notin mixed, s = "process_complete"
          PROVE  dataset'[t] = "process_complete" /\ \A d \in DocsOf(t) : doc'[d] \in {"none", "success"}
      <4>1. runs[r].pc = "rows" /\ runs[r].status = "process_complete"
            /\ dataset'[t] = dataset[t] /\ \A d \in DocsOf(t) : doc'[d] = doc[d]
        BY <3>1, <3>5 DEF StopsWith
      <4>2. Settled(runs[r])
        BY <1>1, <3>5 DEF TaskEnds, Lone
      <4>3. dataset[t] = "process_complete" /\ \A i \in 1..NDocs : doc[<<t, i>>] \in {"none", "success"}
        BY <4>1, <4>2 DEF Settled, AtDoc, Working
      <4>4. \A d \in DocsOf(t) : \E i \in 1..NDocs : d = <<t, i>>
        BY DEF DocsOf, Docs
      <4> QED
        BY <4>1, <4>3, <4>4
    <3>6. Lone(t)'
      BY <2>2, <3>2, <3>5 DEF Lone, Frame, DocsOf
    <3>7. Processing(t)'
      BY <3>2 DEF Processing
    <3> QED
      BY <3>4, <3>6, <3>7 DEF TaskEnds
  <2> QED
    BY <2>3, <2>4
<1> QED
  BY <1>5, <1>6, <1>7

\* A run that goes on.
LEMMA MovesOn ==
  ASSUME IInv, NEW r \in DOMAIN runs, NEW new \in RunRecords, runs' = [runs EXCEPT ![r] = new],
         new.task = runs[r].task, runs[r].pc \notin {"begin", "done"}, new.pc \notin {"begin", "done"},
         UNCHANGED <<task, log, mixed, restarts>>,
         \A u \in Tasks : u # runs[r].task => dataset'[u] = dataset[u],
         \A d \in Docs : d[1] # runs[r].task => doc'[d] = doc[d],
         Settled(runs[r]) => Settled(new)'
  PROVE  Frame(r) /\ GoesOn(r)
<1>1. /\ DOMAIN runs' = DOMAIN runs /\ runs'[r] = new /\ \A q \in DOMAIN runs : q # r => runs'[q] = runs[q]
  BY Moved DEF IInv
<1>2. Settled(runs[r]) => Settled(runs[r])'
  BY <1>1 DEF Settled, AtDoc
<1> QED
  BY <1>1, <1>2 DEF Frame, GoesOn

\* Nothing is claimed of a run that ends badly.
LEMMA MovesBadly ==
  ASSUME IInv, NEW r \in DOMAIN runs, Bad(r) \/ Goes(r, "caught"), runs[r].pc \notin {"begin", "done"},
         UNCHANGED <<task, log, dataset, mixed, restarts>>,
         \A d \in Docs : d[1] # runs[r].task => doc'[d] = doc[d]
  PROVE  Frame(r) /\ GoesOn(r)
<1>1. runs[r] \in RunRecords
  BY IdsOfRuns DEF IInv
<1>2. CASE Bad(r)
  <2> DEFINE left == Left(runs[r])
             new == [left EXCEPT !.todo = {}, !.status = "process_fail"]
  <2>1. runs' = [runs EXCEPT ![r] = new]
    BY <1>2 DEF Bad
  <2>2. left \in RunRecords /\ left.pc = "next" /\ left.task = runs[r].task
    BY <1>1, LeftType
  <2> HIDE DEF left
  <2>3. new \in RunRecords /\ new.pc = "next" /\ new.task = runs[r].task /\ new.status = "process_fail"
    BY <2>2 DEF RunRecords, Ends
  <2>4. PICK n \in RunRecords : n = new
    BY <2>3
  <2> HIDE DEF new
  <2>5. Settled(n)'
    BY <2>3, <2>4 DEF Settled
  <2> QED
    BY <2>1, <2>3, <2>4, <2>5, MovesOn
<1>3. CASE Goes(r, "caught")
  <2> DEFINE new == [runs[r] EXCEPT !.pc = "caught"]
  <2>0. /\ new \in RunRecords /\ new.pc = "caught" /\ new.task = runs[r].task
        /\ runs' = [runs EXCEPT ![r] = new]
    BY <1>3, GoesTo DEF IInv, PCs
  <2> HIDE DEF new
  <2>1. PICK n \in RunRecords : n.pc = "caught" /\ n.task = runs[r].task /\ runs' = [runs EXCEPT ![r] = n]
    BY <2>0
  <2>2. Settled(n)'
    BY <2>1 DEF Settled, Busy, Working
  <2> QED
    BY <2>1, <2>2, MovesOn
<1> QED
  BY <1>2, <1>3

\* Work on a document changes the document at hand only.
LEMMA MovesAtWork ==
  ASSUME IInv, NEW r \in DOMAIN runs, runs[r].pc \in Working \cup {"load"},
         NEW pc \in Working, NEW new \in RunRecords, runs' = [runs EXCEPT ![r] = new],
         new.task = runs[r].task, new.pc = pc, new.doc = runs[r].doc, new.todo = runs[r].todo,
         new.status = runs[r].status, UNCHANGED <<task, log, dataset, mixed, restarts>>,
         \A d \in Docs : d # runs[r].doc => doc'[d] = doc[d]
  PROVE  Frame(r) /\ GoesOn(r)
<1>1. runs[r] \in RunRecords /\ runs[r].task \in Tasks /\ runs[r].doc[1] = runs[r].task
  BY IdsOfRuns DEF IInv, RunOK, Relies, RunRecords
<1>2. \A d \in Docs : d[1] # runs[r].task => doc'[d] = doc[d]
  BY <1>1
<1>3. \A i \in 1..NDocs : i # runs[r].doc[2] => doc'[<<runs[r].task, i>>] = doc[<<runs[r].task, i>>]
  <2>1. TAKE i \in 1..NDocs
  <2>2. <<runs[r].task, i>> \in Docs /\ <<runs[r].task, i>>[2] = i
    BY <1>1, DocsType
  <2> QED
    BY <2>2
<1>4. AtDoc(new) = {runs[r].doc[2]} /\ AtDoc(runs[r]) = {runs[r].doc[2]}
  BY DEF AtDoc
<1>5. Settled(runs[r]) => Settled(new)'
  BY <1>3, <1>4 DEF Settled, AtDoc, Busy, Working
<1> QED
  BY <1>2, <1>5, MovesOn DEF Working

\* A thread that returns, with an end that it writes or with its task gone.
LEMMA MovesOut ==
  ASSUME IInv, NEW r \in DOMAIN runs, Quits(r), runs[r].pc # "done",
         NEW s \in Ends,
         (SetEnd(r, s) /\ runs[r].pc # "begin") \/ (runs[r].pc = "begin" /\ ~Exists(runs[r].task) /\ UNCHANGED task
                          /\ \A q \in DOMAIN runs : q # r => log'[q] = log[q]),
         \A u \in Tasks : u # runs[r].task => dataset'[u] = dataset[u],
         s = "process_complete" =>
           runs[r].pc = "rows" /\ runs[r].status = "process_complete" /\ UNCHANGED dataset,
         UNCHANGED <<doc, mixed, restarts>>
  PROVE  Frame(r) /\ Stops(r)
<1>1. Tables /\ runs[r].task \in Tasks /\ r \in Ids
  BY TypesAre, IdsOfRuns DEF IInv, RunRecords
<1>2. PICK new \in RunRecords : /\ new.pc = "done" /\ new.task = runs[r].task
                                /\ runs' = [runs EXCEPT ![r] = new]
  BY <1>1, EndedType DEF Quits
<1>3. /\ DOMAIN runs' = DOMAIN runs /\ runs'[r] = new /\ \A q \in DOMAIN runs : q # r => runs'[q] = runs[q]
  BY <1>2, Moved DEF IInv
<1>4. CASE SetEnd(r, s) /\ runs[r].pc # "begin"
  <2> DEFINE t == runs[r].task
             row == [task[t] EXCEPT !.status = s, !.log = r]
  <2>1. /\ log' = [log EXCEPT ![r] = IF @ = "none" THEN @ ELSE s]
        /\ task' = [task EXCEPT ![t] = IF Exists(t) THEN row ELSE task[t]]
    BY <1>4 DEF SetEnd
  <2>2. \A q \in DOMAIN runs : q # r => log'[q] = log[q]
    BY <1>1, <2>1 DEF Tables
  <2>3. log[r] # "none" => log'[r] = s
    BY <1>1, <2>1 DEF Tables
  <2>4. row.status = s /\ row.log = r
    BY <1>1 DEF Tables, TaskRecords
  <2> HIDE DEF row
  <2>5. task'[t] = (IF Exists(t) THEN row ELSE task[t]) /\ \A u \in Tasks : u # t => task'[u] = task[u]
    BY <1>1, <2>1 DEF Tables
  <2>6. Frame(r)
    BY <1>2, <1>3, <2>2, <2>5 DEF Frame
  <2>7. Stops(r)
    <3>1. CASE Exists(t)
      <4>1. task'[t].status = s /\ task'[t].log = r
        BY <2>4, <2>5, <3>1
      <4>2. StopsWith(r, s)
        BY <1>4, <2>3, <4>1 DEF StopsWith
      <4> QED
        BY <1>2, <1>3, <3>1, <4>2 DEF Stops
    <3>2. CASE ~Exists(t)
      BY <1>2, <1>3, <2>5, <3>2 DEF Stops
    <3> QED
      BY <3>1, <3>2
  <2> QED
    BY <2>6, <2>7
<1>5. CASE /\ runs[r].pc = "begin" /\ ~Exists(runs[r].task) /\ UNCHANGED task
           /\ \A q \in DOMAIN runs : q # r => log'[q] = log[q]
  BY <1>2, <1>3, <1>5 DEF Frame, Stops
<1> QED
  BY <1>4, <1>5

\* How a run takes each of its steps, for the task and for its documents.
Steps(r) == Frame(r) /\ (GoesOn(r) \/ Begins(r) \/ Stops(r))

LEMMA BeginSteps ==
  ASSUME IInv, NEW r \in Ids, Begin(r)
  PROVE  Steps(r)
<1> DEFINE t == runs[r].task
           retry == runs[r].retry
<1>1. /\ Tables /\ r \in DOMAIN runs /\ runs[r].pc = "begin" /\ t \in Tasks /\ retry \in BOOLEAN
      /\ (retry => Exists(t)) /\ UNCHANGED <<doc, mixed, restarts>>
  BY AtRun, TypesAre DEF Begin, IInv
<1>2. task[t] \in TaskRecords
  BY <1>1 DEF Tables
<1>3. CASE /\ Goes(r, IF retry THEN "list" ELSE "docs")
           /\ log' = [log EXCEPT ![r] = "open"] /\ dataset' = [dataset EXCEPT ![t] = "processing"]
           /\ task' = [task EXCEPT ![t] = IF retry THEN [@ EXCEPT !.status = "processing", !.log = 0] ELSE @]
  <2> DEFINE pc == IF retry THEN "list" ELSE "docs"
             new == [runs[r] EXCEPT !.pc = pc]
             to == [task[t] EXCEPT !.status = "processing", !.log = 0]
  <2>1. pc \in PCs /\ pc \in {"list", "docs"} /\ Goes(r, pc)
    BY <1>3 DEF PCs
  <2> HIDE DEF pc
  <2>2. new \in RunRecords /\ new.pc = pc /\ new.task = t /\ runs' = [runs EXCEPT ![r] = new]
    BY <1>1, <2>1, GoesTo DEF IInv
  <2>3. to.status = "processing" /\ task' = [task EXCEPT ![t] = IF retry THEN to ELSE task[t]]
    BY <1>2, <1>3 DEF TaskRecords
  <2> HIDE DEF new, to
  <2>4. /\ DOMAIN runs' = DOMAIN runs /\ runs'[r] = new /\ \A q \in DOMAIN runs : q # r => runs'[q] = runs[q]
    BY <1>1, <2>2, Moved DEF IInv
  <2>5. task'[t] = (IF retry THEN to ELSE task[t]) /\ \A u \in Tasks : u # t => task'[u] = task[u]
    BY <1>1, <2>3 DEF Tables
  <2>6. /\ log'[r] # "none" /\ \A q \in DOMAIN runs : q # r => log'[q] = log[q]
        /\ \A u \in Tasks : u # t => dataset'[u] = dataset[u]
    BY <1>1, <1>3 DEF Tables
  <2>7. Frame(r)
    BY <1>1, <2>2, <2>4, <2>5, <2>6 DEF Frame
  <2>8. Begins(r)
    BY <1>1, <2>1, <2>2, <2>3, <2>4, <2>5, <2>6 DEF Begins
  <2> QED
    BY <2>7, <2>8 DEF Steps
<1>4. CASE /\ Quits(r) /\ UNCHANGED dataset
           /\ log' = [log EXCEPT ![r] = "process_fail"]
           /\ task' = IF Exists(t) THEN [task EXCEPT ![t].status = "process_fail", ![t].log = r] ELSE task
  <2>1. /\ log'[r] = "process_fail" /\ \A q \in DOMAIN runs : q # r => log'[q] = log[q]
    BY <1>1, <1>4 DEF Tables
  <2>2. CASE ~Exists(t)
    <3>1. UNCHANGED task
      BY <1>4, <2>2
    <3> QED
      BY <1>1, <1>4, <2>1, <2>2, <3>1, MovesOut DEF Steps, Ends
  <2>3. CASE Exists(t)
    <3> DEFINE to == [task[t] EXCEPT !.status = "process_fail", !.log = r]
    <3>1. to.status = "process_fail" /\ to.log = r /\ task' = [task EXCEPT ![t] = to]
      BY <1>1, <1>2, <1>4, <2>3 DEF TaskRecords, Tables
    <3> HIDE DEF to
    <3>2. task'[t] = to /\ \A u \in Tasks : u # t => task'[u] = task[u]
      BY <1>1, <3>1 DEF Tables
    <3>3. PICK new \in RunRecords : new.pc = "done" /\ new.task = t /\ runs' = [runs EXCEPT ![r] = new]
      BY <1>1, <1>4, EndedType DEF Quits
    <3>4. /\ DOMAIN runs' = DOMAIN runs /\ runs'[r] = new /\ \A q \in DOMAIN runs : q # r => runs'[q] = runs[q]
      BY <1>1, <3>3, Moved DEF IInv
    <3>5. Frame(r)
      BY <1>1, <1>4, <2>1, <3>2, <3>3, <3>4 DEF Frame
    <3>6. StopsWith(r, "process_fail")
      BY <1>1, <2>1, <3>1, <3>2 DEF StopsWith
    <3> QED
      BY <2>3, <3>3, <3>4, <3>5, <3>6 DEF Steps, Stops, Ends
  <2> QED
    BY <2>2, <2>3
<1> QED
  BY <1>3, <1>4 DEF Begin

LEMMA EndSteps ==
  ASSUME IInv, NEW r \in Ids, BeginGone(r) \/ TellDataset(r) \/ End(r) \/ Caught(r)
  PROVE  Steps(r)
<1>1. Tables /\ r \in DOMAIN runs /\ runs[r] \in RunRecords /\ runs[r].task \in Tasks /\ runs[r].pc # "done"
  BY AtRun, TypesAre DEF BeginGone, TellDataset, End, Caught, IInv
<1>2. "process_fail" \in Ends /\ "process_fail" # "process_complete"
  BY DEF Ends
<1>3. CASE BeginGone(r)
  <2>1. /\ Quits(r) /\ runs[r].pc = "begin" /\ ~Exists(runs[r].task)
        /\ UNCHANGED <<task, log, doc, dataset, mixed, restarts>>
    BY <1>3 DEF BeginGone, At, tables, bounds
  <2> QED
    BY <1>1, <1>2, <2>1, MovesOut DEF Steps
<1>4. CASE TellDataset(r)
  <2>1. runs[r].pc = "put" /\ UNCHANGED <<doc, mixed, restarts>>
    BY <1>4 DEF TellDataset, At
  <2>2. CASE SetEnd(r, "process_fail") /\ Quits(r) /\ UNCHANGED dataset
    BY <1>1, <1>2, <2>1, <2>2, MovesOut DEF Steps
  <2>3. CASE dataset' = [dataset EXCEPT ![runs[r].task] = runs[r].status] /\ Goes(r, "rows") /\ UNCHANGED <<task, log>>
    <3> DEFINE new == [runs[r] EXCEPT !.pc = "rows"]
    <3>1. /\ new \in RunRecords /\ new.pc = "rows" /\ new.task = runs[r].task /\ new.todo = runs[r].todo
          /\ new.status = runs[r].status /\ runs' = [runs EXCEPT ![r] = new]
      BY <1>1, <2>3 DEF RunRecords, PCs, Goes
    <3>2. PICK n \in RunRecords : n = new
      BY <3>1
    <3> HIDE DEF new
    <3>3. dataset'[runs[r].task] = runs[r].status /\ \A u \in Tasks : u # runs[r].task => dataset'[u] = dataset[u]
      BY <1>1, <2>3 DEF Tables
    <3>4. Settled(runs[r]) => Settled(n)'
      BY <2>1, <3>1, <3>2, <3>3 DEF Settled, AtDoc, Busy, Working
    <3> QED
      BY <1>1, <2>1, <2>3, <3>1, <3>2, <3>3, <3>4, MovesOn DEF Steps
  <2> QED
    BY <1>4, <2>2, <2>3 DEF TellDataset
<1>5. CASE End(r)
  <2>1. /\ runs[r].pc = "rows" /\ SetEnd(r, runs[r].status) /\ Quits(r)
        /\ UNCHANGED <<doc, dataset, mixed, restarts>>
    BY <1>5 DEF End, At, bounds
  <2>2. runs[r].status \in Ends
    BY <1>1, <2>1 DEF IInv, RunOK
  <2> QED
    BY <1>1, <2>1, <2>2, MovesOut DEF Steps
<1>6. CASE Caught(r)
  <2>1. /\ runs[r].pc = "caught" /\ SetEnd(r, "process_fail") /\ Quits(r) /\ UNCHANGED <<doc, mixed, restarts>>
    BY <1>6 DEF Caught, At
  <2>2. \A u \in Tasks : u # runs[r].task => dataset'[u] = dataset[u]
    BY <1>1, <1>6 DEF Caught, Tables
  <2> QED
    BY <1>1, <1>2, <2>1, <2>2, MovesOut DEF Steps
<1> QED
  BY <1>3, <1>4, <1>5, <1>6

LEMMA ListSteps ==
  ASSUME IInv, NEW r \in Ids, AddDocs(r) \/ ListDocs(r)
  PROVE  Steps(r)
<1>1. Tables /\ r \in DOMAIN runs /\ runs[r] \in RunRecords /\ runs[r].task \in Tasks
  BY AtRun, TypesAre DEF AddDocs, ListDocs, IInv
<1>2. CASE AddDocs(r)
  <2>1. runs[r].pc = "docs" /\ UNCHANGED <<task, log, dataset, mixed, restarts>>
    BY <1>2 DEF AddDocs, At
  <2>2. \A d \in Docs : d[1] # runs[r].task => doc'[d] = doc[d]
    BY <1>1, <1>2 DEF AddDocs, Tables
  <2>3. CASE Goes(r, "caught")
    BY <1>1, <2>1, <2>2, <2>3, MovesBadly DEF Steps
  <2>4. CASE runs' = [runs EXCEPT ![r].pc = "next", ![r].todo = 1..NDocs, ![r].status = "process_complete"]
    <3> DEFINE new == [runs[r] EXCEPT !.pc = "next", !.todo = 1..NDocs, !.status = "process_complete"]
    <3>1. /\ new \in RunRecords /\ new.pc = "next" /\ new.task = runs[r].task /\ new.todo = 1..NDocs
          /\ runs' = [runs EXCEPT ![r] = new]
      BY <1>1, <2>4 DEF RunRecords, PCs, Busy, Ends
    <3>2. PICK n \in RunRecords : n = new
      BY <3>1
    <3> HIDE DEF new
    <3>3. Settled(n)'
      BY <3>1, <3>2 DEF Settled
    <3> QED
      BY <1>1, <2>1, <2>2, <3>1, <3>2, <3>3, MovesOn DEF Steps
  <2> QED
    BY <1>2, <2>3, <2>4 DEF AddDocs
<1>3. CASE ListDocs(r)
  <2> DEFINE t == runs[r].task
             left == {i \in 1..NDocs : doc[<<t, i>>] \notin {"none", "success"}}
             seen == [i \in 1..NDocs |-> doc[<<t, i>>]]
             new == [runs[r] EXCEPT !.pc = IF left = {} THEN "put" ELSE "next", !.todo = left, !.seen = seen,
                                    !.status = "process_complete"]
  <2>1. runs[r].pc = "list" /\ UNCHANGED <<task, log, doc, dataset, mixed, restarts>>
    BY <1>3 DEF ListDocs, At, tables, bounds
  <2>2. seen \in [1..NDocs -> RowStatus] /\ left \subseteq 1..NDocs
    BY <1>1, DocsType DEF Tables
  <2>3. /\ new \in RunRecords /\ new.pc = (IF left = {} THEN "put" ELSE "next") /\ new.task = t
        /\ new.todo = left /\ runs' = [runs EXCEPT ![r] = new]
    BY <1>1, <1>3, <2>2 DEF RunRecords, PCs, Busy, Ends, ListDocs
  <2>4. PICK n \in RunRecords : n = new
    BY <2>3
  <2>5. \A i \in (1..NDocs) \ left : doc[<<t, i>>] \in {"none", "success"}
    OBVIOUS
  <2> HIDE DEF new, left, seen
  <2>6. Settled(n)
    BY <2>3, <2>4, <2>5 DEF Settled
  <2>7. Settled(n)'
    BY <2>1, <2>6 DEF Settled, AtDoc
  <2> QED
    BY <1>1, <2>1, <2>3, <2>4, <2>7, MovesOn DEF Steps
<1> QED
  BY <1>2, <1>3

LEMMA TakeSteps ==
  ASSUME IInv, NEW r \in Ids, Take(r)
  PROVE  Steps(r)
<1> DEFINE t == runs[r].task
<1>1. /\ Tables /\ r \in DOMAIN runs /\ runs[r] \in RunRecords /\ t \in Tasks
      /\ runs[r].pc = "next" /\ runs[r].todo \subseteq 1..NDocs
  BY AtRun, TypesAre DEF Take, IInv
<1>2. UNCHANGED <<task, log, doc, dataset, mixed, restarts>>
  BY DEF Take, tables
<1>3. PICK i \in runs[r].todo :
        \/ \E pc \in {"mark", "load"}, l \in {Unsuccessful(<<t, i>>), {}} :
             runs' = [runs EXCEPT ![r].pc = pc, ![r].doc = <<t, i>>, ![r].list = l, ![r].todo = @ \ {i}]
        \/ Bad(r) \/ Goes(r, "caught")
  BY DEF Take
<1>4. PICK e \in Docs : e = <<t, i>> /\ e[2] = i
  BY <1>1, DocsType
<1>5. CASE Bad(r) \/ Goes(r, "caught")
  BY <1>1, <1>2, <1>5, MovesBadly DEF Steps
<1>6. ASSUME NEW pc \in {"mark", "load"}, NEW l \in {Unsuccessful(<<t, i>>), {}},
             runs' = [runs EXCEPT ![r].pc = pc, ![r].doc = <<t, i>>, ![r].list = l, ![r].todo = @ \ {i}]
      PROVE  Steps(r)
  <2> DEFINE new == [runs[r] EXCEPT !.pc = pc, !.doc = e, !.list = l, !.todo = @ \ {i}]
  <2>1. l \subseteq Chunks
    BY DEF Unsuccessful
  <2>2. /\ new \in RunRecords /\ new.pc = pc /\ new.doc = e /\ new.task = t /\ new.todo = runs[r].todo \ {i}
        /\ new.status = runs[r].status /\ runs' = [runs EXCEPT ![r] = new]
    BY <1>1, <1>4, <1>6, <2>1 DEF RunRecords, PCs, Busy, Working
  <2>3. PICK n \in RunRecords : n = new
    BY <2>2
  <2> HIDE DEF new
  <2>4. AtDoc(n) = {i} /\ AtDoc(runs[r]) = {}
    BY <1>1, <1>4, <2>2, <2>3 DEF AtDoc, Working
  <2>5. Settled(runs[r]) => Settled(n)
    BY <1>1, <2>2, <2>3, <2>4 DEF Settled, Busy, Working
  <2>6. Settled(n) => Settled(n)'
    BY <1>2 DEF Settled, AtDoc
  <2> QED
    BY <1>1, <1>2, <2>2, <2>3, <2>5, <2>6, MovesOn DEF Steps
<1> QED
  BY <1>3, <1>5, <1>6

LEMMA FileSteps ==
  ASSUME IInv, NEW r \in Ids, Walk(r) \/ Put(r)
  PROVE  Steps(r)
<1>1. Tables /\ r \in DOMAIN runs /\ runs[r] \in RunRecords /\ runs[r].task \in Tasks
  BY AtRun, TypesAre DEF Walk, Put, IInv
<1>2. UNCHANGED <<task, log, doc, dataset, mixed, restarts>>
  BY DEF Walk, Put, tables, bounds
<1>3. CASE Walk(r)
  <2> DEFINE new == [runs[r] EXCEPT !.pc = "put", !.files = folder, !.doc = <<runs[r].task, 1>>]
  <2>1. <<runs[r].task, 1>> \in Docs /\ folder \subseteq Docs /\ runs[r].pc = "next" /\ runs[r].todo = {}
    BY <1>1, <1>3, NDocsType, DocsType DEF Tables, Walk, At
  <2>2. /\ new \in RunRecords /\ new.pc = "put" /\ new.task = runs[r].task /\ new.todo = {}
        /\ new.status = runs[r].status /\ runs' = [runs EXCEPT ![r] = new]
    BY <1>1, <1>3, <2>1 DEF RunRecords, PCs, Walk
  <2>3. PICK n \in RunRecords : n = new
    BY <2>2
  <2> HIDE DEF new
  <2>4. Settled(runs[r]) => Settled(n)'
    BY <1>2, <2>1, <2>2, <2>3 DEF Settled, AtDoc, Busy, Working
  <2> QED
    BY <1>1, <1>2, <2>1, <2>2, <2>3, <2>4, MovesOn DEF Steps
<1>4. CASE Put(r)
  <2>1. runs[r].pc = "put"
    BY <1>4 DEF Put, At
  <2>2. PICK f : Goes(r, "caught") \/ runs' = [runs EXCEPT ![r].files = @ \ {f}]
    BY <1>4 DEF Put, StoreFails
  <2>3. CASE Goes(r, "caught")
    BY <1>1, <1>2, <2>1, <2>3, MovesBadly DEF Steps
  <2>4. CASE runs' = [runs EXCEPT ![r].files = @ \ {f}]
    <3> DEFINE new == [runs[r] EXCEPT !.files = @ \ {f}]
    <3>1. /\ new \in RunRecords /\ new.pc = "put" /\ new.task = runs[r].task /\ new.todo = runs[r].todo
          /\ new.status = runs[r].status /\ runs' = [runs EXCEPT ![r] = new]
      BY <1>1, <2>1, <2>4 DEF RunRecords
    <3>2. PICK n \in RunRecords : n = new
      BY <3>1
    <3> HIDE DEF new
    <3>3. Settled(runs[r]) => Settled(n)'
      BY <1>2, <2>1, <3>1, <3>2 DEF Settled, AtDoc, Busy, Working
    <3> QED
      BY <1>1, <1>2, <2>1, <3>1, <3>2, <3>3, MovesOn DEF Steps
  <2> QED
    BY <2>2, <2>3, <2>4
<1> QED
  BY <1>3, <1>4

\* What changes the row of the document at hand.
LEMMA OneRow ==
  ASSUME Tables, NEW d \in Docs, NEW s, UNCHANGED doc \/ SetDoc(d, s)
  PROVE  \A e \in Docs : e # d => doc'[e] = doc[e]
BY DEF Tables, SetDoc

\* How a run that is at work on a document goes on with it.
Follows(r, n) ==
  LET run == runs[r] IN
  /\ n.task = run.task /\ n.doc = run.doc /\ n.todo = run.todo /\ n.seen = run.seen
  /\ n.retry = run.retry /\ n.status = run.status /\ n.pc \in Working
  /\ run.pc = "load" => n.pc = "mark" /\ n.list = Parts(run.doc) \X {r}
  /\ run.pc \in {"mark", "chunk", "ask", "embed"} => n.list = run.list
  /\ run.pc = "mark" => n.pc \in {"chunk", "save"}
  /\ run.pc = "chunk" => n.pc = "save" \/ (n.pc = "ask" /\ n.chunk \in run.list)
  /\ run.pc \in {"ask", "embed"} => n.chunk = run.chunk
  /\ run.pc = "ask" => n.pc = IF task[run.task].config = "dedup" THEN "embed" ELSE "answered"
  /\ run.pc = "embed" => n.pc = "answered"
  /\ run.pc = "answered" => n.pc = "chunk" /\ n.list = run.list \ {run.chunk}

LEMMA WorkFollows ==
  ASSUME IInv, NEW r \in Ids, ~Bad(r),
         Load(r) \/ Mark(r) \/ StartChunk(r) \/ Ask(r) \/ Embed(r) \/ Answered(r) \/ Clean(r)
  PROVE  \E n \in RunRecords : runs' = [runs EXCEPT ![r] = n] /\ Follows(r, n)
<1>1. /\ r \in DOMAIN runs /\ runs[r] \in RunRecords /\ runs[r].task \in Tasks /\ runs[r].doc \in Docs
      /\ runs[r].chunk \in Chunks /\ runs[r].list \subseteq Chunks
  BY AtRun DEF Load, Mark, StartChunk, Ask, Embed, Answered, Clean, IInv
<1>2. ASSUME NEW pc \in Working, Goes(r, pc),
             LET run == runs[r] IN
               /\ run.pc \in {"mark", "chunk", "ask", "embed"}
               /\ run.pc = "mark" => pc \in {"chunk", "save"}
               /\ run.pc = "chunk" => pc = "save"
               /\ run.pc = "ask" => pc = IF task[run.task].config = "dedup" THEN "embed" ELSE "answered"
               /\ run.pc = "embed" => pc = "answered"
      PROVE  \E n \in RunRecords : runs' = [runs EXCEPT ![r] = n] /\ Follows(r, n)
  <2> DEFINE n == [runs[r] EXCEPT !.pc = pc]
  <2>1. /\ n \in RunRecords /\ n.pc = pc /\ n.task = runs[r].task /\ n.doc = runs[r].doc /\ n.todo = runs[r].todo
        /\ n.seen = runs[r].seen /\ n.retry = runs[r].retry /\ n.status = runs[r].status
        /\ n.list = runs[r].list /\ n.chunk = runs[r].chunk
    BY <1>1 DEF RunRecords, PCs, Busy
  <2>2. runs' = [runs EXCEPT ![r] = n]
    BY <1>2 DEF Goes
  <2> HIDE DEF n
  <2>3. Follows(r, n)
    BY <1>2, <2>1 DEF Follows
  <2> QED
    BY <2>1, <2>2, <2>3
<1>3. CASE Load(r)
  <2> DEFINE l == Parts(runs[r].doc) \X {r}
             n == [runs[r] EXCEPT !.pc = "mark", !.list = l]
  <2>1. l \subseteq Chunks /\ runs[r].pc = "load"
    BY <1>1, <1>3, PartsType DEF Load, At
  <2>2. runs' = [runs EXCEPT ![r] = n]
    BY <1>3 DEF Load
  <2> HIDE DEF l
  <2>3. /\ n \in RunRecords /\ n.pc = "mark" /\ n.task = runs[r].task /\ n.doc = runs[r].doc /\ n.todo = runs[r].todo
        /\ n.seen = runs[r].seen /\ n.retry = runs[r].retry /\ n.status = runs[r].status /\ n.list = l
    BY <1>1, <2>1 DEF RunRecords, PCs, Busy, Working
  <2> HIDE DEF n
  <2>4. Follows(r, n)
    BY <2>1, <2>3 DEF Follows, Working, l
  <2> QED
    BY <2>2, <2>3, <2>4
<1>4. CASE Mark(r)
  <2> DEFINE pc == IF task[runs[r].task].config = "chunks" THEN "save" ELSE "chunk"
  <2>1. Goes(r, pc) /\ runs[r].pc = "mark" /\ pc \in {"chunk", "save"}
    BY <1>4 DEF Mark, At
  <2> HIDE DEF pc
  <2> QED
    BY <1>2, <2>1 DEF Working
<1>5. CASE StartChunk(r)
  <2>1. PICK c \in runs[r].list : runs' = [runs EXCEPT ![r].pc = "ask", ![r].chunk = c]
    BY <1>5 DEF StartChunk
  <2> DEFINE n == [runs[r] EXCEPT !.pc = "ask", !.chunk = c]
  <2>2. runs' = [runs EXCEPT ![r] = n] /\ c \in Chunks /\ runs[r].pc = "chunk"
    BY <1>1, <1>5, <2>1 DEF StartChunk, At
  <2>3. /\ n \in RunRecords /\ n.pc = "ask" /\ n.task = runs[r].task /\ n.doc = runs[r].doc /\ n.todo = runs[r].todo
        /\ n.seen = runs[r].seen /\ n.retry = runs[r].retry /\ n.status = runs[r].status /\ n.list = runs[r].list
        /\ n.chunk = c
    BY <1>1, <2>2 DEF RunRecords, PCs, Busy, Working
  <2> HIDE DEF n
  <2>4. Follows(r, n)
    BY <2>1, <2>2, <2>3 DEF Follows, Working
  <2> QED
    BY <2>2, <2>3, <2>4
<1>6. CASE Ask(r)
  <2> DEFINE pc == IF task[runs[r].task].config = "dedup" THEN "embed" ELSE "answered"
  <2>1. Goes(r, pc) /\ runs[r].pc = "ask"
    BY <1>6 DEF Ask, At, ChunkFails
  <2>2. pc \in Working
    BY DEF Working
  <2> QED
    BY <1>2, <2>1, <2>2
<1>7. CASE Embed(r)
  BY <1>2, <1>7 DEF Embed, At, ChunkFails, Working
<1>8. CASE Answered(r)
  <2> DEFINE n == [runs[r] EXCEPT !.pc = "chunk", !.list = @ \ {runs[r].chunk}, !.chunk = <<1, 1>>]
  <2>1. <<1, 1>> \in Chunks /\ runs[r].pc = "answered"
    BY <1>1, <1>8, EndedType DEF RunRecords, Ended, Answered, At
  <2>2. runs' = [runs EXCEPT ![r] = n]
    BY <1>8 DEF Answered
  <2>3. /\ n \in RunRecords /\ n.pc = "chunk" /\ n.task = runs[r].task /\ n.doc = runs[r].doc /\ n.todo = runs[r].todo
        /\ n.seen = runs[r].seen /\ n.retry = runs[r].retry /\ n.status = runs[r].status
        /\ n.list = runs[r].list \ {runs[r].chunk}
    BY <1>1, <2>1 DEF RunRecords, PCs, Busy, Working
  <2> HIDE DEF n
  <2>4. Follows(r, n)
    BY <2>1, <2>3 DEF Follows, Working
  <2> QED
    BY <2>2, <2>3, <2>4
<1>9. CASE Clean(r)
  BY <1>2, <1>9 DEF Clean, At, Working
<1> QED
  BY <1>3, <1>4, <1>5, <1>6, <1>7, <1>8, <1>9

LEMMA WorkSteps ==
  ASSUME IInv, NEW r \in Ids,
         Load(r) \/ Mark(r) \/ StartChunk(r) \/ Ask(r) \/ Embed(r) \/ Answered(r) \/ Clean(r) \/ Save(r)
  PROVE  Steps(r)
<1>1. /\ Tables /\ r \in DOMAIN runs /\ runs[r] \in RunRecords /\ runs[r].task \in Tasks /\ runs[r].doc \in Docs
      /\ runs[r].pc \in Working \cup {"load"}
  BY AtRun, TypesAre DEF Load, Mark, StartChunk, Ask, Embed, Answered, Clean, Save, IInv, Working
<1>2. UNCHANGED <<task, log, dataset, mixed, restarts>>
  BY DEF Load, Mark, StartChunk, Ask, Embed, Answered, Clean, Save, bounds
<1>3. \A d \in Docs : d # runs[r].doc => doc'[d] = doc[d]
  <2>1. UNCHANGED doc \/ \E s \in RowStatus : SetDoc(runs[r].doc, s)
    BY DEF Load, Mark, StartChunk, Ask, Embed, Answered, Clean, Save, ChunkFails, RowStatus
  <2> QED
    BY <1>1, <2>1, OneRow
<1>4. runs[r].doc[1] = runs[r].task
  BY <1>1 DEF IInv, RunOK, Relies
<1>5. \A d \in Docs : d[1] # runs[r].task => doc'[d] = doc[d]
  BY <1>3, <1>4
<1>6. CASE Bad(r)
  BY <1>1, <1>2, <1>5, <1>6, MovesBadly DEF Steps, Working
<1>7. CASE ~Bad(r) /\ ~Save(r)
  <2>1. PICK n \in RunRecords : runs' = [runs EXCEPT ![r] = n] /\ Follows(r, n)
    BY <1>7, WorkFollows
  <2> QED
    BY <1>1, <1>2, <1>3, <2>1, MovesAtWork DEF Steps, Follows
<1>8. CASE ~Bad(r) /\ Save(r)
  <2> DEFINE new == Left(runs[r])
  <2>1. runs' = [runs EXCEPT ![r] = new] /\ runs[r].pc = "save" /\ SetDoc(runs[r].doc, "success")
    BY <1>8 DEF Save, Good, At
  <2>2. /\ new \in RunRecords /\ new.pc = "next" /\ new.task = runs[r].task /\ new.todo = runs[r].todo
        /\ new.status = runs[r].status
    BY <1>1, LeftType
  <2>3. PICK n \in RunRecords : n = new
    BY <2>2
  <2> HIDE DEF new
  <2>4. doc'[runs[r].doc] \in {"none", "success"}
    BY <1>1, <2>1 DEF SetDoc, Tables
  <2>5. AtDoc(n) = {} /\ AtDoc(runs[r]) = {runs[r].doc[2]}
    BY <2>1, <2>2, <2>3 DEF AtDoc, Working
  <2>6. ASSUME NEW i \in (1..NDocs) \ n.todo, Settled(runs[r]), n.status = "process_complete"
        PROVE  doc'[<<runs[r].task, i>>] \in {"none", "success"}
    <3>1. PICK e \in Docs : e = <<runs[r].task, i>>
      BY <1>1, DocsType
    <3>2. CASE e = runs[r].doc
      BY <2>4, <3>1, <3>2
    <3>3. CASE e # runs[r].doc
      <4>1. i # runs[r].doc[2]
        BY <1>1, <1>4, <3>1, <3>3 DEF Docs
      <4>2. doc[<<runs[r].task, i>>] \in {"none", "success"}
        BY <2>1, <2>2, <2>3, <2>5, <2>6, <4>1 DEF Settled, Busy, Working
      <4> QED
        BY <1>3, <3>1, <3>3, <4>2
    <3> QED
      BY <3>2, <3>3
  <2>7. Settled(runs[r]) => Settled(n)'
    BY <2>2, <2>3, <2>5, <2>6 DEF Settled, AtDoc
  <2> QED
    BY <1>1, <1>2, <1>5, <2>1, <2>2, <2>3, <2>7, MovesOn DEF Steps
<1> QED
  BY <1>6, <1>7, <1>8

LEMMA RunSteps ==
  ASSUME IInv, NEW r \in Ids, Run(r)
  PROVE  Steps(r)
BY BeginSteps, EndSteps, ListSteps, TakeSteps, FileSteps, WorkSteps DEF Run, Documents

\* A request for a task leaves the others as they are.
LEMMA RequestEnds ==
  ASSUME IInv, EndsInv, NEW t \in Tasks, NEW u \in Tasks, u # t,
         /\ task'[u] = task[u] /\ UNCHANGED <<dataset, restarts>> /\ (u \in mixed <=> u \in mixed')
         /\ \A d \in DocsOf(u) : doc'[d] = doc[d]
         /\ \A q \in DOMAIN runs : runs[q].task = u => log'[q] = log[q]
         /\ \A q \in DOMAIN runs : q \in DOMAIN runs' /\ runs'[q] = runs[q]
         /\ \A q \in DOMAIN runs' : q \notin DOMAIN runs => runs'[q].task = t
  PROVE  TaskEnds(u)'
<1>1. TaskEnds(u)
  BY DEF EndsInv
<1>2. Active(u)' = Active(u) /\ \A q \in Active(u) : q \in DOMAIN runs /\ runs[q].task = u /\ log'[q] = log[q]
  BY DEF Active
<1>3. Processing(u)'
  BY <1>1, <1>2 DEF TaskEnds, Processing
<1>4. Logged(u)'
  BY <1>1, <1>2 DEF TaskEnds, Logged, Exists
<1>5. \A i \in 1..NDocs : <<u, i>> \in DocsOf(u)
  BY DocsType DEF DocsOf
<1>6. ASSUME NEW q \in Active(u), Settled(runs[q])
      PROVE  Settled(runs[q])'
  BY <1>2, <1>5, <1>6 DEF Settled, AtDoc
<1>7. Lone(u)'
  BY <1>1, <1>2, <1>6 DEF TaskEnds, Lone, DocsOf
<1> QED
  BY <1>3, <1>4, <1>7 DEF TaskEnds

LEMMA AddEnds ==
  ASSUME IInv, EndsInv, NEW t \in Tasks, Add(t)
  PROVE  EndsInv'
<1> DEFINE n == Len(runs) + 1
           new == NewRun(t, FALSE)
<1>1. Types /\ Tables /\ task[t].status = "none" /\ Len(runs) < MaxRuns
  BY TypesAre DEF IInv, Add
<1>2. UNCHANGED <<log, doc, dataset, restarts, mixed>> /\ runs' = Append(runs, new)
  BY DEF Add, bounds
<1>3. new \in RunRecords /\ new.pc = "begin" /\ new.task = t
  BY NewRunType
<1> HIDE DEF new
<1>4. /\ DOMAIN runs' = DOMAIN runs \cup {n} /\ n \notin DOMAIN runs
      /\ runs'[n] = new /\ \A q \in DOMAIN runs : runs'[q] = runs[q]
  BY <1>1, <1>2, <1>3, Appended
<1> HIDE DEF n
<1>5. task'[t].status = "processing" /\ \A u \in Tasks : u # t => task'[u] = task[u]
  BY <1>1 DEF Add, Tables
<1>6. \A q \in DOMAIN runs : runs[q].task # t
  BY <1>1 DEF IInv, TaskOK
<1>7. Active(t)' = {n}
  BY <1>3, <1>4, <1>6 DEF Active
<1>8. TaskEnds(t)'
  BY <1>3, <1>4, <1>5, <1>7 DEF TaskEnds, Processing, Logged, Lone, Settled, Busy, Working, Ends
<1>9. ASSUME NEW u \in Tasks, u # t
      PROVE  TaskEnds(u)'
  BY <1>2, <1>3, <1>4, <1>5, <1>9, RequestEnds
<1> QED
  BY <1>2, <1>8, <1>9 DEF EndsInv

LEMMA RetryEnds ==
  ASSUME IInv, EndsInv, NEW t \in Tasks, Retry(t)
  PROVE  EndsInv'
<1> DEFINE n == Len(runs) + 1
           new == NewRun(t, TRUE)
<1>1. Types /\ Tables /\ task[t].status # "none" /\ Len(runs) < MaxRuns /\ TaskEnds(t)
  BY TypesAre DEF IInv, Retry, EndsInv
<1>2. UNCHANGED <<task, log, doc, dataset, restarts>> /\ runs' = Append(runs, new)
  BY DEF Retry, bounds, tables
<1>3. new \in RunRecords /\ new.pc = "begin" /\ new.task = t /\ new.retry
  BY NewRunType
<1> HIDE DEF new
<1>4. /\ DOMAIN runs' = DOMAIN runs \cup {n} /\ n \notin DOMAIN runs
      /\ runs'[n] = new /\ \A q \in DOMAIN runs : runs'[q] = runs[q]
  BY <1>1, <1>2, <1>3, Appended
<1> HIDE DEF n
<1>5. mixed' = IF Active(t) = {} THEN mixed ELSE mixed \cup {t}
  BY DEF Retry
<1>6. Active(t)' = Active(t) \cup {n}
  BY <1>3, <1>4 DEF Active
<1>7. Processing(t)'
  BY <1>6 DEF Processing
<1>8. Logged(t)'
  BY <1>1, <1>2, <1>3, <1>4, <1>6 DEF TaskEnds, Logged, Exists, Active
<1>9. Lone(t)'
  <2>1. SUFFICES ASSUME t \notin mixed'
                 PROVE  Lone(t)'
    BY DEF Lone
  <2>2. t \notin mixed /\ Active(t)' = {n}
    BY <1>5, <1>6, <2>1
  <2> QED
    BY <1>1, <1>2, <1>3, <1>4, <2>2 DEF TaskEnds, Lone, Settled, Busy, Working, DocsOf
<1>10. ASSUME NEW u \in Tasks, u # t
       PROVE  TaskEnds(u)'
  BY <1>2, <1>3, <1>4, <1>5, <1>10, RequestEnds
<1> QED
  BY <1>2, <1>7, <1>8, <1>9, <1>10 DEF EndsInv, TaskEnds

LEMMA DeleteEnds ==
  ASSUME IInv, EndsInv, NEW t \in Tasks, Delete(t)
  PROVE  EndsInv'
<1>1. Types /\ Tables /\ UNCHANGED <<dataset, runs, restarts>> /\ TaskEnds(t)
  BY TypesAre DEF IInv, Delete, EndsInv
<1>2. task'[t].status = "gone" /\ \A u \in Tasks : u # t => task'[u] = task[u]
  BY <1>1 DEF Delete, Tables, TaskRecords
<1>3. mixed' = IF Active(t) = {} THEN mixed ELSE mixed \cup {t}
  BY DEF Delete
<1>4. Active(t)' = Active(t)
  BY <1>1 DEF Active
<1>5. TaskEnds(t)'
  BY <1>2, <1>3, <1>4 DEF TaskEnds, Processing, Logged, Lone, Exists, Ends
<1>6. ASSUME NEW u \in Tasks, u # t
      PROVE  TaskEnds(u)'
  <2>1. \A d \in DocsOf(u) : doc'[d] = doc[d]
    BY <1>6 DEF Delete, DocsOf
  <2>2. \A q \in DOMAIN runs : q \in Ids /\ (runs[q].task = u => log'[q] = log[q])
    BY <1>1, <1>6, IdsOfRuns DEF Delete
  <2> QED
    BY <1>1, <1>2, <1>3, <1>6, <2>1, <2>2, RequestEnds
<1> QED
  BY <1>1, <1>5, <1>6 DEF EndsInv

\* After a restart nothing runs, and nothing is said of tasks in processing.
LEMMA RestartEnds ==
  ASSUME IInv, EndsInv, Restart
  PROVE  EndsInv'
<1>1. /\ restarts' = restarts + 1 /\ restarts \in Nat /\ UNCHANGED <<task, log, doc, dataset, mixed>>
      /\ runs' = [r \in DOMAIN runs |-> Ended(runs[r].task)]
  BY DEF Restart, EndsInv, tables
<1>2. restarts' # 0 /\ restarts' \in Nat
  BY <1>1
<1>3. \A q \in DOMAIN runs : runs'[q].pc = "done" /\ runs'[q].task = runs[q].task
  BY <1>1, IdsOfRuns, EndedType DEF IInv, RunRecords
<1>4. DOMAIN runs' = DOMAIN runs
  BY <1>1
<1>5. ASSUME NEW t \in Tasks
      PROVE  TaskEnds(t)'
  <2>1. Active(t)' = {} /\ TaskEnds(t)
    BY <1>3, <1>4 DEF Active, EndsInv
  <2>2. Processing(t)'
    BY <1>2 DEF Processing
  <2>3. Logged(t)'
    BY <1>1, <1>3, <1>4, <2>1 DEF TaskEnds, Logged
  <2>4. Lone(t)'
    BY <1>1, <2>1 DEF TaskEnds, Lone, DocsOf
  <2> QED
    BY <2>2, <2>3, <2>4 DEF TaskEnds
<1> QED
  BY <1>2, <1>5 DEF EndsInv

LEMMA StepEnds ==
  ASSUME IInv, EndsInv, [Next]_vars
  PROVE  EndsInv'
<1>1. CASE \E t \in Tasks : Add(t) \/ Retry(t) \/ Delete(t)
  BY <1>1, AddEnds, RetryEnds, DeleteEnds
<1>2. CASE \E r \in Ids : Run(r)
  <2>1. PICK r \in Ids : Steps(r)
    BY <1>2, RunSteps
  <2>2. ASSUME NEW u \in Tasks
        PROVE  TaskEnds(u)'
    BY <2>1, OthersEnd, OwnEnds DEF Steps
  <2> QED
    BY <2>1, <2>2 DEF EndsInv, Steps, Frame
<1>3. CASE Restart
  BY <1>3, RestartEnds
<1>4. CASE UNCHANGED vars
  <2>1. UNCHANGED <<task, log, doc, dataset, runs, restarts, mixed>>
    BY <1>4 DEF vars, tables, files, bounds
  <2>2. ASSUME NEW t \in Tasks
        PROVE  TaskEnds(t)'
    <3>1. TaskEnds(t) /\ Active(t)' = Active(t)
      BY <2>1 DEF EndsInv, Active
    <3>2. \A q \in Active(t) : Settled(runs[q]) => Settled(runs[q])'
      BY <2>1 DEF Settled, AtDoc
    <3> QED
      BY <2>1, <3>1, <3>2 DEF TaskEnds, Processing, Logged, Lone, Exists, DocsOf
  <2> QED
    BY <2>1, <2>2 DEF EndsInv
<1> QED
  BY <1>1, <1>2, <1>3, <1>4 DEF Next

LEMMA InitEnds ==
  ASSUME Init
  PROVE  EndsInv
<1>1. DOMAIN runs = {}
  BY EmptySeq, LenProperties DEF Init
<1>2. restarts \in Nat /\ \A t \in Tasks : task[t].status = "none"
  BY DEF Init
<1> QED
  BY <1>1, <1>2 DEF EndsInv, TaskEnds, Processing, Logged, Lone, Active, Exists, Ends

LEMMA EndsFollow ==
  ASSUME IInv, EndsInv
  PROVE  EndsAgree
<1>1. ASSUME NEW t \in Tasks, task[t].status \in Ends
      PROVE  task[t].log # 0 /\ log[task[t].log] = task[t].status
  <2>1. task[t].log \in DOMAIN runs /\ log[task[t].log] = task[t].status
    BY <1>1 DEF EndsInv, TaskEnds, Logged
  <2>2. task[t].log \in Ids
    BY <2>1, IdsOfRuns DEF IInv
  <2> QED
    BY <2>1, <2>2, SizesAssumption DEF Ids
<1> QED
  BY <1>1 DEF EndsAgree, EndsInv, TaskEnds, Processing, Lone

\* No task stays in processing without a run; a complete one that never had two actors
\* at a time has told its dataset, and its documents have succeeded; the log shows the
\* end that the task shows.
THEOREM TasksEnd == Spec => []EndsAgree
<1>1. Init => EndsInv
  BY InitEnds
<1>2. IInv /\ EndsInv /\ [Next]_vars => EndsInv'
  BY StepEnds
<1>3. IInv /\ EndsInv => EndsAgree
  BY EndsFollow
<1> QED
  BY <1>1, <1>2, <1>3, Inductive, PTL DEF Spec

-----------------------------------------------------------------------------
(* Files say nothing twice *)

Plain(t)  == restarts = 0 /\ t \notin mixed /\ task[t].config # "dedup"
Single(S) == \A x, y \in S : PartOf(x) = PartOf(y) => x = y
Blanks(d) == \A c \in Chunks : chunk[d][c] = "none"

\* A part of a document has one chunk and at most one row; a chunk with a row has
\* succeeded, or is about to; a document that is not begun has no chunks but those that
\* a run has just made.
OnceDoc(d) ==
  /\ \A b, c \in Chunks : chunk[d][b] # "none" /\ chunk[d][c] # "none" /\ b[1] = c[1] => b = c
  /\ Single(qa[d]) /\ Single(csv[d]) /\ clean[d].kept \subseteq qa[d]
  /\ \A x \in qa[d] :
       \/ chunk[d][x[1]] = "success"
       \/ \E q \in DOMAIN runs : runs[q].pc = "answered" /\ runs[q].doc = d /\ x = <<runs[q].chunk, q>>
  /\ doc[d] \in {"none", "not_start"} =>
       Blanks(d) \/ \E q \in DOMAIN runs : runs[q].pc = "mark" /\ runs[q].doc = d

\* A run does what has not succeeded, and what it has seen of its documents is so.
OnceRun(run) ==
  LET d == run.doc IN
  /\ run.pc = "list" => run.retry
  /\ run.pc = "load" => doc[d] = "not_start"
  /\ run.pc \in Working => doc[d] # "none" /\ run.list \subseteq Unsuccessful(d)
  /\ run.pc \in Asking => run.chunk \in run.list
  /\ run.pc # "embed"
  /\ run.pc \in Busy =>
       \A i \in run.todo : /\ doc[<<run.task, i>>] # "none"
                           /\ doc[<<run.task, i>>] = IF run.retry THEN run.seen[i] ELSE "not_start"
  /\ run.todo \cap AtDoc(run) = {}

OnceInv ==
  /\ \A d \in Docs : Plain(d[1]) => OnceDoc(d)
  /\ \A q \in DOMAIN runs : Plain(runs[q].task) => OnceRun(runs[q])
  /\ \A t \in Tasks : task[t].status = "none" => task[t].config = "qa"

\* Nothing is known of a run that is not at its documents.
LEMMA OnceIdle ==
  ASSUME NEW run, run.pc \notin Busy \cup {"list"} \/ (run.pc = "next" /\ run.todo = {})
  PROVE  OnceRun(run)
BY DEF OnceRun, AtDoc, Busy, Working, Asking

\* What is asked for stays.
LEMMA ConfigsStay ==
  ASSUME IInv, NEW r \in Ids, Run(r)
  PROVE  TasksKept
<1>1. Types /\ Tables
  BY TypesAre DEF IInv
<1>2. CASE Begin(r)
  <2>1. /\ r \in DOMAIN runs /\ runs[r].task \in Tasks /\ r \in 0..MaxRuns /\ 0 \in 0..MaxRuns
    BY <1>1, <1>2, AtRun, SizesAssumption DEF Begin, Ids
  <2>2. \/ UNCHANGED task
        \/ task' = [task EXCEPT ![runs[r].task] = [@ EXCEPT !.status = "processing", !.log = 0]]
        \/ task' = [task EXCEPT ![runs[r].task].status = "process_fail", ![runs[r].task].log = r]
    <3>1. task = [task EXCEPT ![runs[r].task] = @]
      BY <1>1, <2>1 DEF Tables
    <3> QED
      BY <1>2, <3>1 DEF Begin
  <2>3. CASE UNCHANGED task
    BY <2>3 DEF TasksKept
  <2>4. CASE task' = [task EXCEPT ![runs[r].task] = [@ EXCEPT !.status = "processing", !.log = 0]]
    BY <1>1, <2>1, <2>4, TaskEffect DEF TaskStatus
  <2>5. CASE task' = [task EXCEPT ![runs[r].task].status = "process_fail", ![runs[r].task].log = r]
    <3>1. task' = [task EXCEPT ![runs[r].task] = [@ EXCEPT !.status = "process_fail", !.log = r]]
      BY <1>1, <2>1, <2>5 DEF Tables
    <3> QED
      BY <1>1, <2>1, <3>1, TaskEffect DEF TaskStatus, Ends
  <2> QED
    BY <2>2, <2>3, <2>4, <2>5
<1>3. CASE TellDataset(r) \/ End(r) \/ Caught(r)
  <2>1. r \in DOMAIN runs
    BY <1>1, <1>3, AtRun DEF TellDataset, End, Caught
  <2>2. UNCHANGED task \/ \E s \in Ends : SetEnd(r, s)
    BY <1>3, <2>1 DEF TellDataset, End, Caught, At, IInv, RunOK, Ends
  <2>3. CASE UNCHANGED task
    BY <2>3 DEF TasksKept
  <2>4. CASE \E s \in Ends : SetEnd(r, s)
    BY <2>1, <2>4, EndEffect
  <2> QED
    BY <2>2, <2>3, <2>4
<1>4. CASE BeginGone(r) \/ AddDocs(r) \/ ListDocs(r) \/ Documents(r) \/ Walk(r) \/ Put(r)
  <2>1. UNCHANGED task
    BY <1>4 DEF BeginGone, AddDocs, ListDocs, Documents, Take, Load, Mark, StartChunk, Ask, Embed, Answered,
                Clean, Save, Walk, Put, tables
  <2> QED
    BY <2>1 DEF TasksKept
<1> QED
  BY <1>2, <1>3, <1>4 DEF Run

\* A document that is left alone by a run that is not about to mark or answer it.
LEMMA OnceElsewhere ==
  ASSUME NEW r, Frame(r), NEW e \in Docs, Same(e), OnceDoc(e),
         runs[r].doc # e \/ runs[r].pc \notin {"mark", "answered"}
  PROVE  OnceDoc(e)'
<1>1. \A q \in DOMAIN runs : runs[q].pc \in {"mark", "answered"} /\ runs[q].doc = e => q \in DOMAIN runs' /\ runs'[q] = runs[q]
  BY DEF Frame
<1>2. ASSUME NEW q \in DOMAIN runs, runs[q].pc \in {"mark", "answered"}, runs[q].doc = e
      PROVE  q \in DOMAIN runs' /\ runs'[q].pc = runs[q].pc /\ runs'[q].doc = e /\ runs'[q].chunk = runs[q].chunk
  BY <1>1, <1>2
<1>3. /\ doc'[e] = doc[e] /\ chunk'[e] = chunk[e] /\ qa'[e] = qa[e] /\ clean'[e] = clean[e] /\ csv'[e] = csv[e]
  BY DEF Same
<1>4. \A x \in qa'[e] :
        \/ chunk'[e][x[1]] = "success"
        \/ \E q \in DOMAIN runs' : runs'[q].pc = "answered" /\ runs'[q].doc = e /\ x = <<runs'[q].chunk, q>>
  BY <1>2, <1>3 DEF OnceDoc
<1>5. doc'[e] \in {"none", "not_start"} =>
        Blanks(e)' \/ \E q \in DOMAIN runs' : runs'[q].pc = "mark" /\ runs'[q].doc = e
  BY <1>2, <1>3 DEF OnceDoc, Blanks
<1> QED
  BY <1>3, <1>4, <1>5 DEF OnceDoc, Single

\* A run is not touched by what is done to the documents of another task.
LEMMA OnceOther ==
  ASSUME IInv, NEW q \in DOMAIN runs, runs'[q] = runs[q], OnceRun(runs[q]), NEW t, runs[q].task # t,
         \A e \in Docs : e[1] # t => Same(e)
  PROVE  OnceRun(runs[q])'
<1>1. runs[q] \in RunRecords
  BY IdsOfRuns DEF IInv
<1>2. \A i \in runs[q].todo : <<runs[q].task, i>> \in Docs /\ doc'[<<runs[q].task, i>>] = doc[<<runs[q].task, i>>]
  <2>1. TAKE i \in runs[q].todo
  <2>2. runs[q].task \in Tasks /\ i \in 1..NDocs
    BY <1>1 DEF RunRecords
  <2>3. <<runs[q].task, i>> \in Docs /\ <<runs[q].task, i>>[1] = runs[q].task
    BY <2>2, DocsType
  <2> QED
    BY <2>3 DEF Same
<1>3. runs[q].pc \in Working \cup {"load"} =>
        doc'[runs[q].doc] = doc[runs[q].doc] /\ Unsuccessful(runs[q].doc)' = Unsuccessful(runs[q].doc)
  <2>1. SUFFICES ASSUME runs[q].pc \in Working \cup {"load"}
                 PROVE  doc'[runs[q].doc] = doc[runs[q].doc] /\ Unsuccessful(runs[q].doc)' = Unsuccessful(runs[q].doc)
    OBVIOUS
  <2>2. runs[q].doc \in Docs /\ runs[q].doc[1] = runs[q].task
    BY <1>1, <2>1 DEF IInv, RunOK, Relies, RunRecords
  <2>3. Same(runs[q].doc)
    BY <2>2
  <2> QED
    BY <2>3 DEF Same, Unsuccessful
<1> QED
  BY <1>2, <1>3 DEF OnceRun, AtDoc, Working

\* What is left to show of a step of a run: what is known of the run and of the
\* document at hand.
LEMMA OnceStep ==
  ASSUME IInv, EndsInv, OnceInv, NEW r, Frame(r), TasksKept, NEW d, d = runs[r].doc,
         \A e \in Docs : e # d \/ runs[r].pc \notin Working \cup {"load"} => Same(e),
         Plain(runs[r].task) => OnceRun(runs[r])',
         Plain(runs[r].task) /\ runs[r].pc \in Working \cup {"load"} => OnceDoc(d)'
  PROVE  OnceInv'
<1>1. r \in DOMAIN runs /\ runs[r] \in RunRecords /\ runs[r].task \in Tasks /\ d \in Docs
  BY IdsOfRuns DEF IInv, Frame, RunRecords
<1>2. \A t \in Tasks : Plain(t)' <=> Plain(t)
  BY DEF Frame, TasksKept, Plain
<1>3. ASSUME NEW e \in Docs, Plain(e[1])
      PROVE  OnceDoc(e)'
  <2>1. OnceDoc(e) /\ e[1] \in Tasks
    BY <1>3 DEF OnceInv, Docs
  <2>2. CASE e # d \/ runs[r].pc \notin Working \cup {"load"}
    BY <2>1, <2>2, OnceElsewhere DEF Working
  <2>3. CASE e = d /\ runs[r].pc \in Working \cup {"load"}
    <3>1. e[1] = runs[r].task
      BY <1>1, <2>3 DEF IInv, RunOK, Relies
    <3> QED
      BY <1>3, <2>3, <3>1
  <2> QED
    BY <2>2, <2>3
<1>4. ASSUME NEW q \in DOMAIN runs, Plain(runs[q].task), q # r
      PROVE  OnceRun(runs[q])'
  <2>1. runs'[q] = runs[q] /\ runs[q] \in RunRecords /\ runs[q].task \in Tasks /\ OnceRun(runs[q])
    BY <1>4, IdsOfRuns DEF Frame, OnceInv, IInv, RunRecords
  <2>2. CASE runs[q].task = runs[r].task
    <3>1. r \in Active(runs[r].task)
      BY DEF Frame, Active
    <3>2. q \notin Active(runs[r].task)
      BY <1>1, <1>4, <2>2, <3>1 DEF EndsInv, TaskEnds, Lone, Plain
    <3>3. runs[q].pc = "done"
      BY <2>2, <3>2 DEF Active
    <3> QED
      BY <2>1, <3>3 DEF OnceRun, AtDoc, Busy, Working, Asking
  <2>3. CASE runs[q].task # runs[r].task
    <3>1. \A e \in Docs : e[1] # runs[r].task => Same(e)
      BY <1>1 DEF IInv, RunOK, Relies
    <3> QED
      BY <2>1, <2>3, <3>1, OnceOther
  <2> QED
    BY <2>2, <2>3
<1>5. \A t \in Tasks : task'[t].status = "none" => task'[t].config = "qa"
  BY DEF TasksKept, OnceInv
<1>6. DOMAIN runs' = DOMAIN runs /\ \A q \in DOMAIN runs : runs'[q].task = runs[q].task /\ runs[q].task \in Tasks
  BY IdsOfRuns DEF Frame, IInv, RunRecords
<1>7. \A e \in Docs : e[1] \in Tasks
  BY DEF Docs
<1> QED
  BY <1>2, <1>3, <1>4, <1>5, <1>6, <1>7 DEF OnceInv

\* A run that leaves its documents, or returns.
LEMMA OnceLeaves ==
  ASSUME IInv, EndsInv, OnceInv, NEW r, Frame(r), TasksKept, NEW d, d = runs[r].doc,
         Bad(r) \/ Goes(r, "caught") \/ Goes(r, "rows") \/ Quits(r),
         \A e \in Docs : e # d \/ runs[r].pc \notin Working \cup {"load"} => Same(e),
         Plain(runs[r].task) /\ runs[r].pc \in Working \cup {"load"} => OnceDoc(d)'
  PROVE  OnceInv'
<1>1. /\ r \in DOMAIN runs /\ runs[r] \in RunRecords /\ runs[r].task \in Tasks
      /\ {"caught", "rows"} \subseteq PCs
  BY IdsOfRuns DEF IInv, Frame, RunRecords, PCs
<1>2. PICK n \in RunRecords : /\ runs' = [runs EXCEPT ![r] = n]
                              /\ n.pc \notin Busy \cup {"list"} \/ (n.pc = "next" /\ n.todo = {})
  <2>1. CASE Bad(r)
    <3> DEFINE left == Left(runs[r])
               new == [left EXCEPT !.todo = {}, !.status = "process_fail"]
    <3>1. runs' = [runs EXCEPT ![r] = new]
      BY <2>1 DEF Bad
    <3>2. left \in RunRecords /\ left.pc = "next"
      BY <1>1, LeftType
    <3> HIDE DEF left
    <3>3. new \in RunRecords /\ new.pc = "next" /\ new.todo = {}
      BY <3>2 DEF RunRecords, Ends
    <3> HIDE DEF new
    <3> QED
      BY <3>1, <3>3
  <2>2. ASSUME NEW pc \in {"caught", "rows"}, Goes(r, pc)
        PROVE  \E n \in RunRecords : runs' = [runs EXCEPT ![r] = n] /\ n.pc \notin Busy \cup {"list"}
    <3> DEFINE new == [runs[r] EXCEPT !.pc = pc]
    <3>1. /\ new \in RunRecords /\ new.pc = pc /\ runs' = [runs EXCEPT ![r] = new]
      BY <1>1, <2>2, GoesTo DEF IInv
    <3> HIDE DEF new
    <3> QED
      BY <3>1 DEF Busy, Working
  <2>3. CASE Quits(r)
    <3> DEFINE new == Ended(runs[r].task)
    <3>1. new \in RunRecords /\ new.pc = "done" /\ runs' = [runs EXCEPT ![r] = new]
      BY <1>1, <2>3, EndedType DEF Quits
    <3> HIDE DEF new
    <3> QED
      BY <3>1 DEF Busy, Working
  <2> QED
    BY <2>1, <2>2, <2>3
<1>3. runs'[r] = n
  BY <1>1, <1>2, Moved DEF IInv
<1>4. OnceRun(runs[r])'
  BY <1>2, <1>3 DEF OnceRun, AtDoc, Busy, Working, Asking
<1> QED
  BY <1>4, OnceStep

\* A run that goes on between documents.
LEMMA OnceGoes ==
  ASSUME IInv, EndsInv, OnceInv, NEW r, Frame(r), TasksKept, runs[r].pc \notin Working \cup {"load"},
         UNCHANGED <<doc, chunk, qa, clean, csv>>,
         NEW n \in RunRecords, runs' = [runs EXCEPT ![r] = n], Plain(runs[r].task) => OnceRun(n)
  PROVE  OnceInv'
<1>1. \A e \in Docs : Same(e)
  BY QuietGrows
<1>2. runs'[r] = n
  BY Moved DEF IInv, Frame
<1>3. OnceRun(n) => OnceRun(runs[r])'
  BY <1>2 DEF OnceRun, AtDoc, Unsuccessful
<1> QED
  BY <1>1, <1>3, OnceStep

LEMMA BeginOnce ==
  ASSUME IInv, EndsInv, OnceInv, NEW r \in Ids, Begin(r), Frame(r), TasksKept
  PROVE  OnceInv'
<1>1. /\ r \in DOMAIN runs /\ runs[r] \in RunRecords /\ runs[r].pc = "begin" /\ UNCHANGED <<doc, chunk, qa, clean, csv>>
      /\ \A e \in Docs : Same(e)
  BY AtRun, QuietGrows DEF Begin, files, IInv
<1>2. CASE Quits(r)
  BY <1>1, <1>2, OnceLeaves DEF Working
<1>3. CASE Goes(r, IF runs[r].retry THEN "list" ELSE "docs")
  <2> DEFINE pc == IF runs[r].retry THEN "list" ELSE "docs"
             new == [runs[r] EXCEPT !.pc = pc]
  <2>1. pc \in PCs /\ pc \in {"list", "docs"} /\ (pc = "list" => runs[r].retry) /\ Goes(r, pc)
    BY <1>3 DEF PCs
  <2> HIDE DEF pc
  <2>2. new \in RunRecords /\ new.pc = pc /\ new.retry = runs[r].retry /\ runs' = [runs EXCEPT ![r] = new]
    BY <1>1, <2>1, GoesTo DEF IInv
  <2>3. PICK n \in RunRecords : n = new
    BY <2>2
  <2> HIDE DEF new
  <2>4. OnceRun(n)
    BY <2>1, <2>2, <2>3 DEF OnceRun, AtDoc, Busy, Working, Asking
  <2> QED
    BY <1>1, <2>2, <2>3, <2>4, OnceGoes DEF Working
<1> QED
  BY <1>2, <1>3 DEF Begin

LEMMA EndOnce ==
  ASSUME IInv, EndsInv, OnceInv, NEW r \in Ids, Frame(r), TasksKept,
         BeginGone(r) \/ TellDataset(r) \/ End(r) \/ Caught(r)
  PROVE  OnceInv'
<1>1. /\ runs[r].pc \in {"begin", "put", "rows", "caught"} /\ UNCHANGED <<doc, chunk, qa, clean, csv>>
      /\ Quits(r) \/ Goes(r, "rows")
  BY DEF BeginGone, TellDataset, End, Caught, At, files, tables
<1>2. \A e \in Docs : Same(e)
  BY <1>1, QuietGrows
<1> QED
  BY <1>1, <1>2, OnceLeaves DEF Working

LEMMA ListOnce ==
  ASSUME IInv, EndsInv, OnceInv, NEW r \in Ids, Frame(r), TasksKept, ListDocs(r)
  PROVE  OnceInv'
<1> DEFINE t == runs[r].task
           left == {i \in 1..NDocs : doc[<<t, i>>] \notin {"none", "success"}}
           seen == [i \in 1..NDocs |-> doc[<<t, i>>]]
           new == [runs[r] EXCEPT !.pc = IF left = {} THEN "put" ELSE "next", !.todo = left, !.seen = seen,
                                  !.status = "process_complete"]
<1>1. /\ Tables /\ r \in DOMAIN runs /\ runs[r] \in RunRecords /\ t \in Tasks /\ runs[r].pc = "list"
      /\ UNCHANGED <<doc, chunk, qa, clean, csv>>
  BY AtRun, TypesAre DEF ListDocs, IInv, tables, files
<1>2. seen \in [1..NDocs -> RowStatus] /\ left \subseteq 1..NDocs
  BY <1>1, DocsType DEF Tables
<1>3. /\ new \in RunRecords /\ new.pc = (IF left = {} THEN "put" ELSE "next") /\ new.task = t
      /\ new.todo = left /\ new.seen = seen /\ new.retry = runs[r].retry /\ runs' = [runs EXCEPT ![r] = new]
  BY <1>1, <1>2 DEF RunRecords, PCs, Busy, Ends, ListDocs
<1>4. PICK n \in RunRecords : n = new
  BY <1>3
<1>5. \A i \in left : doc[<<t, i>>] # "none" /\ doc[<<t, i>>] = seen[i]
  BY <1>2
<1> HIDE DEF new, left, seen
<1>6. Plain(t) => n.retry
  BY <1>1, <1>3, <1>4 DEF OnceInv, OnceRun
<1>7. Plain(t) => OnceRun(n)
  BY <1>3, <1>4, <1>5, <1>6 DEF OnceRun, AtDoc, Busy, Working, Asking
<1> QED
  BY <1>1, <1>3, <1>4, <1>7, OnceGoes DEF Working

LEMMA FileOnce ==
  ASSUME IInv, EndsInv, OnceInv, NEW r \in Ids, Frame(r), TasksKept, Walk(r) \/ Put(r)
  PROVE  OnceInv'
<1>1. /\ Tables /\ r \in DOMAIN runs /\ runs[r] \in RunRecords /\ runs[r].task \in Tasks
      /\ runs[r].pc \in {"next", "put"} /\ UNCHANGED <<doc, chunk, qa, clean, csv>>
  BY AtRun, TypesAre DEF Walk, Put, At, IInv, tables, files
<1>2. CASE Goes(r, "caught")
  <2>1. \A e \in Docs : Same(e)
    BY <1>1, QuietGrows
  <2> QED
    BY <1>1, <1>2, <2>1, OnceLeaves DEF Working
<1>3. ASSUME NEW n \in RunRecords, runs' = [runs EXCEPT ![r] = n], n.pc = "put"
      PROVE  OnceInv'
  <2>1. OnceRun(n)
    BY <1>3 DEF OnceRun, AtDoc, Busy, Working, Asking
  <2> QED
    BY <1>1, <1>3, <2>1, OnceGoes DEF Working
<1>4. CASE Walk(r)
  <2> DEFINE new == [runs[r] EXCEPT !.pc = "put", !.files = folder, !.doc = <<runs[r].task, 1>>]
  <2>1. <<runs[r].task, 1>> \in Docs /\ folder \subseteq Docs
    BY <1>1, NDocsType, DocsType DEF Tables
  <2>2. new \in RunRecords /\ new.pc = "put" /\ runs' = [runs EXCEPT ![r] = new]
    BY <1>1, <1>4, <2>1 DEF RunRecords, PCs, Walk
  <2> HIDE DEF new
  <2> QED
    BY <1>3, <2>2
<1>5. CASE Put(r)
  <2>1. PICK f : Goes(r, "caught") \/ runs' = [runs EXCEPT ![r].files = @ \ {f}]
    BY <1>5 DEF Put, StoreFails
  <2>2. CASE runs' = [runs EXCEPT ![r].files = @ \ {f}]
    <3> DEFINE new == [runs[r] EXCEPT !.files = @ \ {f}]
    <3>1. new \in RunRecords /\ new.pc = runs[r].pc /\ runs' = [runs EXCEPT ![r] = new]
      BY <1>1, <2>2 DEF RunRecords
    <3>2. runs[r].pc = "put"
      BY <1>5 DEF Put, At
    <3> HIDE DEF new
    <3> QED
      BY <1>3, <3>1, <3>2
  <2> QED
    BY <1>2, <2>1, <2>2
<1> QED
  BY <1>4, <1>5

LEMMA TakeOnce ==
  ASSUME IInv, EndsInv, OnceInv, NEW r \in Ids, Frame(r), TasksKept, Take(r)
  PROVE  OnceInv'
<1> DEFINE t == runs[r].task
<1>1. /\ Tables /\ r \in DOMAIN runs /\ runs[r] \in RunRecords /\ t \in Tasks
      /\ runs[r].pc = "next" /\ runs[r].todo \subseteq 1..NDocs /\ runs[r].retry \in BOOLEAN
      /\ UNCHANGED <<doc, chunk, qa, clean, csv>>
  BY AtRun, TypesAre DEF Take, IInv, tables, files
<1>2. PICK i \in runs[r].todo :
        \/ /\ runs[r].retry /\ runs[r].seen[i] # "not_start"
           /\ runs' = [runs EXCEPT ![r].pc = "mark", ![r].doc = <<t, i>>,
                                   ![r].list = Unsuccessful(<<t, i>>), ![r].todo = @ \ {i}]
        \/ /\ ~runs[r].retry \/ runs[r].seen[i] = "not_start"
           /\ runs' = [runs EXCEPT ![r].pc = "load", ![r].doc = <<t, i>>, ![r].list = {}, ![r].todo = @ \ {i}]
        \/ Bad(r) \/ Goes(r, "caught")
  BY DEF Take
<1>3. PICK e \in Docs : e = <<t, i>> /\ e[2] = i
  BY <1>1, DocsType
<1>4. CASE Bad(r) \/ Goes(r, "caught")
  <2>1. \A x \in Docs : Same(x)
    BY <1>1, QuietGrows
  <2> QED
    BY <1>1, <1>4, <2>1, OnceLeaves DEF Working
<1>5. Plain(t) => /\ doc[e] # "none" /\ doc[e] = (IF runs[r].retry THEN runs[r].seen[i] ELSE "not_start")
                  /\ OnceRun(runs[r])
  BY <1>1, <1>3 DEF OnceInv, OnceRun, Busy
<1>6. ASSUME NEW pc \in {"mark", "load"}, NEW l \in SUBSET Chunks,
             Plain(t) => (pc = "load" => doc[e] = "not_start"),
             pc = "mark" => l = Unsuccessful(e),
             runs' = [runs EXCEPT ![r].pc = pc, ![r].doc = e, ![r].list = l, ![r].todo = @ \ {i}]
      PROVE  OnceInv'
  <2> DEFINE new == [runs[r] EXCEPT !.pc = pc, !.doc = e, !.list = l, !.todo = @ \ {i}]
  <2>1. /\ new \in RunRecords /\ new.pc = pc /\ new.doc = e /\ new.task = t /\ new.todo = runs[r].todo \ {i}
        /\ new.list = l /\ new.seen = runs[r].seen /\ new.retry = runs[r].retry
        /\ runs' = [runs EXCEPT ![r] = new]
    BY <1>1, <1>3, <1>6 DEF RunRecords, PCs, Busy, Working
  <2>2. PICK n \in RunRecords : n = new
    BY <2>1
  <2> HIDE DEF new
  <2>3. Plain(t) => OnceRun(n)
    BY <1>1, <1>3, <1>5, <1>6, <2>1, <2>2 DEF OnceRun, AtDoc, Busy, Working, Asking
  <2> QED
    BY <1>1, <2>1, <2>2, <2>3, OnceGoes DEF Working
<1>7. CASE runs' = [runs EXCEPT ![r].pc = "mark", ![r].doc = e, ![r].list = Unsuccessful(e), ![r].todo = @ \ {i}]
  <2>1. Unsuccessful(e) \in SUBSET Chunks
    BY DEF Unsuccessful
  <2> QED
    BY <1>6, <1>7, <2>1
<1>8. CASE /\ ~runs[r].retry \/ runs[r].seen[i] = "not_start"
           /\ runs' = [runs EXCEPT ![r].pc = "load", ![r].doc = e, ![r].list = {}, ![r].todo = @ \ {i}]
  <2>1. Plain(t) => doc[e] = "not_start"
    BY <1>5, <1>8
  <2>2. {} \in SUBSET Chunks
    OBVIOUS
  <2> QED
    BY <1>6, <1>8, <2>1, <2>2
<1> QED
  BY <1>2, <1>3, <1>4, <1>7, <1>8

\* What is known at a document where two actors never met: nobody else is at it.
LEMMA OnceAt ==
  ASSUME IInv, EndsInv, OnceInv, NEW r \in DOMAIN runs, NEW d, d = runs[r].doc,
         runs[r].pc \in Working \cup {"load"}, Plain(runs[r].task)
  PROVE  /\ d \in Docs /\ d[1] = runs[r].task /\ OnceDoc(d) /\ OnceRun(runs[r]) /\ runs[r] \in RunRecords
         /\ \A q \in DOMAIN runs : runs[q].doc = d /\ runs[q].pc \in {"mark", "answered"} => q = r
<1>1. runs[r] \in RunRecords /\ runs[r].task \in Tasks /\ d \in Docs
  BY IdsOfRuns DEF IInv, RunRecords
<1>2. d[1] = runs[r].task
  BY DEF IInv, RunOK, Relies
<1>3. OnceDoc(d) /\ OnceRun(runs[r])
  BY <1>1, <1>2 DEF OnceInv
<1>4. ASSUME NEW q \in DOMAIN runs, runs[q].doc = d, runs[q].pc \in {"mark", "answered"}
      PROVE  q = r
  <2>1. runs[q].task = runs[r].task
    BY <1>2, <1>4 DEF IInv, RunOK, Relies, Working
  <2>2. q \in Active(runs[r].task) /\ r \in Active(runs[r].task)
    BY <1>4, <2>1 DEF Active, Working
  <2> QED
    BY <1>1, <2>2 DEF EndsInv, TaskEnds, Lone, Plain
<1> QED
  BY <1>1, <1>2, <1>3, <1>4

\* No chunk of the document is made, and none that succeeded is begun again.
LEMMA OnceKept ==
  ASSUME Tables, NEW d \in Docs, OnceDoc(d),
         \A q \in DOMAIN runs : runs[q].doc = d => runs[q].pc # "answered",
         \A c \in Chunks : /\ chunk'[d][c] = "none" <=> chunk[d][c] = "none"
                           /\ chunk[d][c] = "success" => chunk'[d][c] = "success",
         doc'[d] \in {"none", "not_start"} => Blanks(d),
         qa'[d] = qa[d], Single(csv'[d]), clean'[d].kept \subseteq qa[d]
  PROVE  OnceDoc(d)'
<1>1. \A x \in qa[d] : x[1] \in Chunks
  BY DEF Tables, Rows
<1>2. \A x \in qa'[d] : chunk'[d][x[1]] = "success"
  BY <1>1 DEF OnceDoc
<1>3. doc'[d] \in {"none", "not_start"} => Blanks(d)'
  BY DEF Blanks
<1>4. Single(qa[d])' /\ Single(csv[d])'
  BY DEF OnceDoc, Single
<1> QED
  BY <1>2, <1>3, <1>4 DEF OnceDoc

\* A run that goes on with its document.
LEMMA OnceAtWork ==
  ASSUME IInv, EndsInv, OnceInv, NEW r, Frame(r), TasksKept, NEW d, d = runs[r].doc,
         runs[r].pc \in {"load"} \cup (Working \ {"save"}), \A e \in Docs : e # d => Same(e),
         NEW n \in RunRecords, runs' = [runs EXCEPT ![r] = n], Follows(r, n),
         Plain(runs[r].task) =>
           /\ OnceDoc(d)' /\ doc'[d] # "none" /\ n.list \subseteq Unsuccessful(d)'
           /\ n.pc \in Asking => n.chunk \in n.list
  PROVE  OnceInv'
<1>1. r \in DOMAIN runs /\ runs'[r] = n
  BY Moved DEF IInv, Frame
<1>2. ASSUME Plain(runs[r].task)
      PROVE  OnceRun(runs[r])'
  <2>1. /\ d \in Docs /\ d[1] = runs[r].task /\ OnceRun(runs[r]) /\ runs[r].task \in Tasks
        /\ runs[r].todo \subseteq 1..NDocs
    BY <1>1, <1>2, OnceAt DEF RunRecords
  <2>2. n.task = runs[r].task /\ n.doc = d /\ n.todo = runs[r].todo /\ n.seen = runs[r].seen
        /\ n.retry = runs[r].retry /\ n.pc \in Working
    BY DEF Follows
  <2>3. \A i \in n.todo : /\ doc'[<<n.task, i>>] # "none"
                          /\ doc'[<<n.task, i>>] = IF n.retry THEN n.seen[i] ELSE "not_start"
    <3>1. TAKE i \in n.todo
    <3>2. <<n.task, i>> \in Docs /\ <<n.task, i>>[2] = i
      BY <2>1, <2>2, DocsType
    <3>3. i # d[2] /\ <<n.task, i>> # d
      BY <2>1, <2>2, <3>2 DEF OnceRun, AtDoc
    <3>4. Same(<<n.task, i>>)
      BY <3>2, <3>3
    <3> QED
      BY <2>1, <2>2, <3>4 DEF OnceRun, Same, Busy
  <2>4. n.pc # "embed"
    BY <1>2, <2>1, <2>2 DEF Follows, Plain, OnceRun, Working
  <2>5. n.todo \cap AtDoc(n) = {}
    BY <2>1, <2>2 DEF OnceRun, AtDoc
  <2> QED
    BY <1>1, <1>2, <2>1, <2>2, <2>3, <2>4, <2>5 DEF OnceRun, AtDoc, Working
<1> QED
  BY <1>2, OnceStep

\* A run that leaves its document as one that did not succeed.
LEMMA OnceFails ==
  ASSUME IInv, EndsInv, OnceInv, NEW r, Frame(r), TasksKept, NEW d, d = runs[r].doc, Bad(r),
         runs[r].pc \in {"load", "chunk", "ask", "embed", "save"},
         UNCHANGED doc \/ SetDoc(d, "fail"), UNCHANGED chunk \/ (runs[r].pc \in Asking /\ SetChunk(d, runs[r].chunk, "fail")),
         UNCHANGED <<qa, clean, csv>>
  PROVE  OnceInv'
<1>1. /\ Tables /\ r \in DOMAIN runs /\ runs[r] \in RunRecords /\ d \in Docs /\ runs[r].chunk \in Chunks
      /\ runs[r].pc \in Working \cup {"load"}
  BY IdsOfRuns, TypesAre DEF IInv, Frame, RunRecords, Working
<1>2. \A e \in Docs : e # d => Same(e)
  <2>1. \A e \in Docs : e # d => doc'[e] = doc[e] /\ chunk'[e] = chunk[e]
    BY <1>1 DEF SetDoc, SetChunk, Tables
  <2> QED
    BY <2>1 DEF Same
<1>3. ASSUME Plain(runs[r].task)
      PROVE  OnceDoc(d)'
  <2>1. /\ OnceDoc(d) /\ OnceRun(runs[r])
        /\ \A q \in DOMAIN runs : runs[q].doc = d /\ runs[q].pc \in {"mark", "answered"} => q = r
    BY <1>1, <1>3, OnceAt
  <2>2. \A c \in Chunks : /\ chunk'[d][c] = "none" <=> chunk[d][c] = "none"
                          /\ chunk[d][c] = "success" => chunk'[d][c] = "success"
    <3>1. CASE UNCHANGED chunk
      BY <3>1
    <3>2. CASE runs[r].pc \in Asking /\ SetChunk(d, runs[r].chunk, "fail")
      <4>1. chunk[d][runs[r].chunk] # "success"
        BY <2>1, <3>2 DEF OnceRun, Unsuccessful, Asking, Working
      <4>2. "fail" \in RowStatus \ {"none"}
        BY DEF RowStatus
      <4> QED
        BY <1>1, <3>2, <4>1, <4>2, SetChunkEffect
    <3> QED
      BY <3>1, <3>2
  <2>3. doc'[d] \in {"none", "not_start"} => doc'[d] = doc[d]
    BY <1>1 DEF SetDoc, Tables
  <2>4. doc[d] \in {"none", "not_start"} => Blanks(d)
    BY <2>1 DEF OnceDoc
  <2>5. Single(csv'[d]) /\ clean'[d].kept \subseteq qa[d] /\ qa'[d] = qa[d]
    BY <2>1 DEF OnceDoc
  <2> QED
    BY <1>1, <2>1, <2>2, <2>3, <2>4, <2>5, OnceKept
<1> QED
  BY <1>1, <1>2, <1>3, OnceLeaves

LEMMA BadNext ==
  ASSUME IInv, NEW r \in DOMAIN runs, Bad(r)
  PROVE  runs'[r].pc = "next"
<1>1. runs[r] \in RunRecords
  BY IdsOfRuns DEF IInv
<1> DEFINE left == Left(runs[r])
           new == [left EXCEPT !.todo = {}, !.status = "process_fail"]
<1>2. left \in RunRecords /\ left.pc = "next" /\ runs' = [runs EXCEPT ![r] = new]
  BY <1>1, LeftType DEF Bad
<1> HIDE DEF left
<1>3. new.pc = "next"
  BY <1>2 DEF RunRecords
<1> QED
  BY <1>2, <1>3

LEMMA LoadOnce ==
  ASSUME IInv, EndsInv, OnceInv, NEW r \in Ids, Frame(r), TasksKept, Load(r)
  PROVE  OnceInv'
<1>1. PICK d : d = runs[r].doc
  OBVIOUS
<1>2. /\ Tables /\ r \in DOMAIN runs /\ runs[r] \in RunRecords /\ runs[r].pc = "load" /\ d \in Docs /\ UNCHANGED <<doc, qa, clean, csv>>
  BY <1>1, AtRun, TypesAre DEF Load, IInv, files
<1> DEFINE made == [chunk EXCEPT ![d] = [c \in Chunks |-> IF c \in Parts(d) \X {r} THEN "not_start" ELSE @[c]]]
<1>3. \/ Bad(r) /\ UNCHANGED chunk
      \/ chunk' = made /\ runs' = [runs EXCEPT ![r].pc = "mark", ![r].list = Parts(d) \X {r}]
  BY <1>1 DEF Load
<1> HIDE DEF made
<1>4. CASE Bad(r) /\ UNCHANGED chunk
  BY <1>1, <1>2, <1>4, OnceFails
<1>5. CASE chunk' = made /\ runs' = [runs EXCEPT ![r].pc = "mark", ![r].list = Parts(d) \X {r}]
  <2>0. ~Bad(r)
    BY <1>2, <1>5, BadNext DEF RunRecords
  <2>1. PICK n \in RunRecords : runs' = [runs EXCEPT ![r] = n] /\ Follows(r, n)
    BY <2>0, WorkFollows
  <2> DEFINE new == Parts(d) \X {r}
  <2>2. chunk' = [chunk EXCEPT ![d] = [c \in Chunks |-> IF c \in new THEN "not_start" ELSE @[c]]]
    BY <1>5 DEF made
  <2>3. \A c \in Chunks : chunk'[d][c] = IF c \in new THEN "not_start" ELSE chunk[d][c]
    BY <1>2, <2>2 DEF Tables
  <2>4. \A e \in Docs : e # d => Same(e)
    BY <1>2, <2>2 DEF Same, Tables
  <2>5. n.list = new /\ n.pc = "mark" /\ n.doc = d
    BY <1>1, <1>2, <2>1 DEF Follows
  <2>6. new \subseteq Chunks /\ \A b, c \in new : b[1] = c[1] => b = c
    BY <1>2, PartsType
  <2> HIDE DEF new
  <2>7. runs'[r] = n /\ DOMAIN runs' = DOMAIN runs
    BY <1>2, <2>1, Moved DEF IInv
  <2>8. ASSUME Plain(runs[r].task)
        PROVE  OnceDoc(d)' /\ doc'[d] # "none" /\ n.list \subseteq Unsuccessful(d)'
    <3>1. /\ OnceDoc(d) /\ doc[d] = "not_start"
          /\ \A q \in DOMAIN runs : runs[q].doc = d /\ runs[q].pc \in {"mark", "answered"} => q = r
      BY <1>1, <1>2, <2>8, OnceAt DEF OnceRun
    <3>2. Blanks(d)
      BY <1>2, <3>1 DEF OnceDoc
    <3>3. \A c \in Chunks : chunk'[d][c] # "none" <=> c \in new
      BY <2>3, <3>2 DEF Blanks
    <3>4. qa[d] = {}
      <4>1. \A x \in qa[d] : x[1] \in Chunks /\ chunk[d][x[1]] # "success"
        BY <1>2, <3>2 DEF Tables, Rows, Blanks
      <4> QED
        BY <1>2, <3>1, <4>1 DEF OnceDoc
    <3>5. runs'[r].pc = "mark" /\ runs'[r].doc = d /\ r \in DOMAIN runs'
      BY <1>2, <2>5, <2>7
    <3>6. OnceDoc(d)'
      BY <1>2, <2>6, <3>1, <3>3, <3>4, <3>5 DEF OnceDoc, Single
    <3>7. new \subseteq Unsuccessful(d)'
      BY <2>3, <2>6 DEF Unsuccessful
    <3> QED
      BY <1>2, <2>5, <3>1, <3>6, <3>7
  <2> QED
    BY <1>1, <1>2, <2>1, <2>4, <2>5, <2>8, OnceAtWork DEF Asking
<1> QED
  BY <1>3, <1>4, <1>5

LEMMA MarkOnce ==
  ASSUME IInv, EndsInv, OnceInv, NEW r \in Ids, Frame(r), TasksKept, Mark(r)
  PROVE  OnceInv'
<1>1. PICK d : d = runs[r].doc
  OBVIOUS
<1>2. /\ Tables /\ r \in DOMAIN runs /\ runs[r] \in RunRecords /\ runs[r].pc = "mark" /\ d \in Docs
      /\ SetDoc(d, "doing") /\ UNCHANGED <<chunk, qa, clean, csv>>
  BY <1>1, AtRun, TypesAre DEF Mark, IInv, files
<1>3. ~Bad(r)
  BY <1>2, BadNext DEF Mark, Goes, RunRecords
<1>4. PICK n \in RunRecords : runs' = [runs EXCEPT ![r] = n] /\ Follows(r, n)
  BY <1>3, WorkFollows
<1>5. n.list = runs[r].list /\ n.pc \in {"chunk", "save"}
  BY <1>2, <1>4 DEF Follows
<1>6. doc'[d] = (IF doc[d] = "none" THEN "none" ELSE "doing") /\ \A e \in Docs : e # d => Same(e)
  BY <1>2, SetDocEffect DEF Same, RowStatus
<1>7. ASSUME Plain(runs[r].task)
      PROVE  OnceDoc(d)' /\ doc'[d] # "none" /\ n.list \subseteq Unsuccessful(d)'
  <2>1. /\ OnceDoc(d) /\ doc[d] # "none" /\ runs[r].list \subseteq Unsuccessful(d)
        /\ \A q \in DOMAIN runs : runs[q].doc = d => runs[q].pc # "answered"
    BY <1>1, <1>2, <1>7, OnceAt DEF OnceRun, Working
  <2>2. OnceDoc(d)'
    BY <1>2, <1>6, <2>1, OnceKept DEF OnceDoc
  <2>3. Unsuccessful(d)' = Unsuccessful(d)
    BY <1>2 DEF Unsuccessful
  <2> QED
    BY <1>5, <1>6, <2>1, <2>2, <2>3
<1> QED
  BY <1>1, <1>2, <1>4, <1>5, <1>6, <1>7, OnceAtWork DEF Working, Asking

LEMMA StartOnce ==
  ASSUME IInv, EndsInv, OnceInv, NEW r \in Ids, Frame(r), TasksKept, StartChunk(r)
  PROVE  OnceInv'
<1>1. PICK d : d = runs[r].doc
  OBVIOUS
<1>2. /\ Tables /\ r \in DOMAIN runs /\ runs[r] \in RunRecords /\ runs[r].pc = "chunk" /\ d \in Docs
      /\ runs[r].list \subseteq Chunks /\ UNCHANGED <<doc, qa, clean, csv>>
  BY <1>1, AtRun, TypesAre DEF StartChunk, IInv, files
<1>3. PICK c \in runs[r].list : SetChunk(d, c, "doing") /\ runs' = [runs EXCEPT ![r].pc = "ask", ![r].chunk = c]
  BY <1>1 DEF StartChunk
<1>4. runs'[r].pc = "ask" /\ runs'[r].chunk = c
  BY <1>2, <1>3 DEF RunRecords
<1>5. ~Bad(r)
  BY <1>2, <1>4, BadNext
<1>6. PICK n \in RunRecords : runs' = [runs EXCEPT ![r] = n] /\ Follows(r, n)
  BY <1>5, WorkFollows
<1>7. n.list = runs[r].list /\ n.chunk \in n.list
  <2>1. runs'[r] = n
    BY <1>2, <1>6
  <2> QED
    BY <1>2, <1>3, <1>4, <1>6, <2>1 DEF Follows
<1>8. /\ chunk'[d][c] = (IF chunk[d][c] = "none" THEN "none" ELSE "doing")
      /\ \A x \in Chunks : x # c => chunk'[d][x] = chunk[d][x]
      /\ \A x \in Chunks : chunk'[d][x] = "none" <=> chunk[d][x] = "none"
      /\ \A e \in Docs : e # d => Same(e)
  <2>1. c \in Chunks /\ "doing" \in RowStatus \ {"none"}
    BY <1>2 DEF RowStatus
  <2> QED
    BY <1>2, <1>3, <2>1, SetChunkEffect DEF Same
<1>9. ASSUME Plain(runs[r].task)
      PROVE  OnceDoc(d)' /\ doc'[d] # "none" /\ n.list \subseteq Unsuccessful(d)'
  <2>1. /\ OnceDoc(d) /\ doc[d] # "none" /\ runs[r].list \subseteq Unsuccessful(d)
        /\ \A q \in DOMAIN runs : runs[q].doc = d => runs[q].pc \notin {"mark", "answered"}
    BY <1>1, <1>2, <1>9, OnceAt DEF OnceRun, Working
  <2>2. chunk[d][c] # "success"
    BY <2>1 DEF Unsuccessful
  <2>3. \A x \in Chunks : chunk[d][x] = "success" => chunk'[d][x] = "success"
    BY <1>8, <2>2
  <2>4. doc'[d] \in {"none", "not_start"} => Blanks(d)
    BY <1>2, <2>1 DEF OnceDoc
  <2>5. OnceDoc(d)'
    BY <1>2, <1>8, <2>1, <2>3, <2>4, OnceKept DEF OnceDoc
  <2>6. Unsuccessful(d) \subseteq Unsuccessful(d)'
    BY <1>8 DEF Unsuccessful
  <2> QED
    BY <1>2, <1>7, <2>1, <2>5, <2>6
<1> QED
  BY <1>1, <1>2, <1>6, <1>7, <1>8, <1>9, OnceAtWork DEF Working

LEMMA AskOnce ==
  ASSUME IInv, EndsInv, OnceInv, NEW r \in Ids, Frame(r), TasksKept, Ask(r)
  PROVE  OnceInv'
<1>1. PICK d : d = runs[r].doc
  OBVIOUS
<1>2. /\ Tables /\ r \in DOMAIN runs /\ runs[r] \in RunRecords /\ runs[r].pc = "ask" /\ d \in Docs
      /\ runs[r].chunk \in Chunks /\ UNCHANGED <<clean, csv>>
  BY <1>1, AtRun, TypesAre DEF Ask, IInv, files
<1>3. CASE Bad(r) /\ UNCHANGED qa
  <2>1. (UNCHANGED doc \/ SetDoc(d, "fail")) /\ (UNCHANGED chunk \/ SetChunk(d, runs[r].chunk, "fail"))
    BY <1>1 DEF Ask, ChunkFails
  <2> QED
    BY <1>1, <1>2, <1>3, <2>1, OnceFails DEF Asking
<1>4. CASE ~Bad(r)
  <2>1. PICK n \in RunRecords : runs' = [runs EXCEPT ![r] = n] /\ Follows(r, n)
    BY <1>4, WorkFollows
  <2> DEFINE row == <<runs[r].chunk, r>>
  <2>2. qa' = [qa EXCEPT ![d] = @ \cup {row}] /\ UNCHANGED <<doc, chunk>>
    BY <1>1, <1>4 DEF Ask, ChunkFails, RowOf
  <2>3. qa'[d] = qa[d] \cup {row} /\ \A e \in Docs : e # d => Same(e)
    BY <1>2, <2>2 DEF Tables, Same
  <2>4. /\ n.list = runs[r].list /\ n.chunk = runs[r].chunk /\ n.doc = d
        /\ n.pc = IF task[runs[r].task].config = "dedup" THEN "embed" ELSE "answered"
    BY <1>1, <1>2, <2>1 DEF Follows
  <2>5. runs'[r] = n /\ DOMAIN runs' = DOMAIN runs
    BY <1>2, <2>1, Moved DEF IInv
  <2>6. ASSUME Plain(runs[r].task)
        PROVE  OnceDoc(d)' /\ doc'[d] # "none" /\ n.list \subseteq Unsuccessful(d)' /\ n.chunk \in n.list
    <3>1. /\ OnceDoc(d) /\ doc[d] # "none" /\ runs[r].list \subseteq Unsuccessful(d) /\ runs[r].chunk \in runs[r].list
          /\ \A q \in DOMAIN runs : runs[q].doc = d => runs[q].pc \notin {"mark", "answered"}
      BY <1>1, <1>2, <2>6, OnceAt DEF OnceRun, Working, Asking
    <3>2. chunk[d][runs[r].chunk] \notin {"none", "success"}
      BY <3>1 DEF Unsuccessful
    <3>3. \A x \in qa[d] : x[1] \in Chunks /\ chunk[d][x[1]] = "success"
      BY <1>2, <3>1 DEF OnceDoc, Tables, Rows
    <3>4. \A x \in qa[d] : x[1] # runs[r].chunk /\ PartOf(x) # PartOf(row)
      <4>1. \A x \in qa[d] : x[1] # runs[r].chunk
        BY <3>2, <3>3
      <4>2. \A x \in qa[d] : x[1][1] = runs[r].chunk[1] => x[1] = runs[r].chunk
        BY <1>2, <3>1, <3>2, <3>3 DEF OnceDoc
      <4> QED
        BY <4>1, <4>2 DEF PartOf
    <3>5. Single(qa[d])'
      BY <2>3, <3>1, <3>4 DEF OnceDoc, Single
    <3>6. \A x \in qa'[d] :
            \/ chunk'[d][x[1]] = "success"
            \/ \E q \in DOMAIN runs' : runs'[q].pc = "answered" /\ runs'[q].doc = d /\ x = <<runs'[q].chunk, q>>
      <4>1. runs'[r].pc = "answered" /\ runs'[r].doc = d /\ row = <<runs'[r].chunk, r>> /\ r \in DOMAIN runs'
        BY <1>2, <2>4, <2>5, <2>6 DEF Plain
      <4> QED
        BY <2>2, <2>3, <3>3, <4>1
    <3>7. doc[d] \in {"none", "not_start"} => Blanks(d)'
      BY <2>2, <3>1 DEF OnceDoc, Blanks
    <3>8. clean'[d].kept \subseteq qa'[d] /\ Single(csv[d])'
      BY <1>2, <2>3, <3>1 DEF OnceDoc, Single
    <3>9. \A b, c \in Chunks : chunk'[d][b] # "none" /\ chunk'[d][c] # "none" /\ b[1] = c[1] => b = c
      BY <2>2, <3>1 DEF OnceDoc
    <3>10. OnceDoc(d)'
      BY <2>2, <3>5, <3>6, <3>7, <3>8, <3>9 DEF OnceDoc
    <3>11. Unsuccessful(d)' = Unsuccessful(d)
      BY <2>2 DEF Unsuccessful
    <3> QED
      BY <2>2, <2>4, <3>1, <3>10, <3>11
  <2> QED
    BY <1>1, <1>2, <2>1, <2>3, <2>6, OnceAtWork DEF Working
<1> QED
  BY <1>3, <1>4, BadNext, <1>2 DEF Ask, ChunkFails, Goes, RunRecords

\* Nothing is turned into a vector here.
LEMMA EmbedOnce ==
  ASSUME IInv, EndsInv, OnceInv, NEW r \in Ids, Frame(r), TasksKept, Embed(r)
  PROVE  OnceInv'
<1>1. PICK d : d = runs[r].doc
  OBVIOUS
<1>2. /\ Tables /\ r \in DOMAIN runs /\ runs[r] \in RunRecords /\ runs[r].pc = "embed" /\ d \in Docs
      /\ runs[r].chunk \in Chunks /\ UNCHANGED <<qa, clean, csv>>
  BY <1>1, AtRun, TypesAre DEF Embed, IInv, files
<1>3. ~Plain(runs[r].task)
  BY <1>2 DEF OnceInv, OnceRun
<1>4. CASE Bad(r)
  <2>1. (UNCHANGED doc \/ SetDoc(d, "fail")) /\ (UNCHANGED chunk \/ SetChunk(d, runs[r].chunk, "fail"))
    BY <1>1 DEF Embed, ChunkFails
  <2> QED
    BY <1>1, <1>2, <1>4, <2>1, OnceFails DEF Asking
<1>5. CASE ~Bad(r)
  <2>1. PICK n \in RunRecords : runs' = [runs EXCEPT ![r] = n] /\ Follows(r, n)
    BY <1>5, WorkFollows
  <2>2. \A e \in Docs : Same(e)
    BY <1>2, <1>5, QuietGrows DEF Embed, ChunkFails
  <2> QED
    BY <1>1, <1>2, <1>3, <2>1, <2>2, OnceAtWork DEF Working
<1> QED
  BY <1>4, <1>5

LEMMA AnsweredOnce ==
  ASSUME IInv, EndsInv, OnceInv, NEW r \in Ids, Frame(r), TasksKept, Answered(r)
  PROVE  OnceInv'
<1>1. PICK d : d = runs[r].doc
  OBVIOUS
<1>2. PICK a \in Chunks : a = runs[r].chunk
  BY AtRun DEF Answered, IInv
<1>3. /\ Tables /\ r \in DOMAIN runs /\ runs[r] \in RunRecords /\ runs[r].pc = "answered" /\ d \in Docs
      /\ SetChunk(d, a, "success") /\ UNCHANGED <<doc, qa, clean, csv>>
  BY <1>1, <1>2, AtRun, TypesAre DEF Answered, IInv, files
<1>4. runs'[r].pc = "chunk"
  BY <1>3 DEF Answered, RunRecords
<1>5. PICK n \in RunRecords : runs' = [runs EXCEPT ![r] = n] /\ Follows(r, n)
  BY <1>3, <1>4, BadNext, WorkFollows
<1>6. n.pc = "chunk" /\ n.list = runs[r].list \ {a} /\ n.doc = d
  BY <1>1, <1>2, <1>3, <1>5 DEF Follows
<1>7. /\ chunk'[d][a] = (IF chunk[d][a] = "none" THEN "none" ELSE "success")
      /\ \A x \in Chunks : x # a => chunk'[d][x] = chunk[d][x]
      /\ \A x \in Chunks : chunk'[d][x] = "none" <=> chunk[d][x] = "none"
      /\ \A e \in Docs : e # d => Same(e)
  BY <1>3, SetChunkEffect DEF RowStatus, Same
<1>8. ASSUME Plain(runs[r].task)
      PROVE  OnceDoc(d)' /\ doc'[d] # "none" /\ n.list \subseteq Unsuccessful(d)'
  <2>1. /\ OnceDoc(d) /\ doc[d] # "none" /\ runs[r].list \subseteq Unsuccessful(d) /\ a \in runs[r].list
        /\ \A q \in DOMAIN runs : runs[q].doc = d /\ runs[q].pc \in {"mark", "answered"} => q = r
    BY <1>1, <1>2, <1>3, <1>8, OnceAt DEF OnceRun, Working, Asking
  <2>2. chunk'[d][a] = "success"
    BY <1>7, <2>1 DEF Unsuccessful
  <2>3. \A x \in qa[d] : x[1] \in Chunks /\ (chunk[d][x[1]] = "success" \/ x[1] = a)
    BY <1>2, <1>3, <2>1 DEF OnceDoc, Tables, Rows
  <2>4. \A x \in qa'[d] : chunk'[d][x[1]] = "success"
    BY <1>3, <1>7, <2>2, <2>3
  <2>5. doc'[d] \in {"none", "not_start"} => Blanks(d)'
    BY <1>3, <1>7, <2>1 DEF OnceDoc, Blanks
  <2>6. clean'[d].kept \subseteq qa'[d] /\ Single(csv[d])' /\ Single(qa[d])'
    BY <1>3, <2>1 DEF OnceDoc, Single
  <2>7. \A b, c \in Chunks : chunk'[d][b] # "none" /\ chunk'[d][c] # "none" /\ b[1] = c[1] => b = c
    BY <1>7, <2>1 DEF OnceDoc
  <2>8. OnceDoc(d)'
    BY <2>4, <2>5, <2>6, <2>7 DEF OnceDoc
  <2>9. n.list \subseteq Unsuccessful(d)'
    BY <1>6, <1>7, <2>1 DEF Unsuccessful
  <2> QED
    BY <1>3, <2>1, <2>8, <2>9
<1> QED
  BY <1>1, <1>3, <1>5, <1>6, <1>7, <1>8, OnceAtWork DEF Working, Asking

LEMMA CleanOnce ==
  ASSUME IInv, EndsInv, OnceInv, NEW r \in Ids, Frame(r), TasksKept, Clean(r)
  PROVE  OnceInv'
<1>1. PICK d : d = runs[r].doc
  OBVIOUS
<1>2. /\ Tables /\ r \in DOMAIN runs /\ runs[r] \in RunRecords /\ runs[r].pc = "chunk" /\ d \in Docs
      /\ UNCHANGED <<chunk, qa, csv>>
  BY <1>1, AtRun, TypesAre DEF Clean, IInv, files
<1>3. \/ Bad(r) /\ UNCHANGED clean /\ (UNCHANGED doc \/ SetDoc(d, "fail"))
      \/ /\ Goes(r, "save") /\ UNCHANGED doc
         /\ task[runs[r].task].config # "dedup" => Cleaned(d, {})
         /\ \E S : Cleaned(d, S)
  BY <1>1 DEF Clean
<1>4. CASE Bad(r) /\ UNCHANGED clean /\ (UNCHANGED doc \/ SetDoc(d, "fail"))
  BY <1>1, <1>2, <1>4, OnceFails
<1>5. CASE /\ Goes(r, "save") /\ UNCHANGED doc
           /\ task[runs[r].task].config # "dedup" => Cleaned(d, {})
           /\ \E S : Cleaned(d, S)
  <2>1. ~Bad(r)
    BY <1>2, <1>5, BadNext DEF Goes, RunRecords
  <2>2. PICK n \in RunRecords : runs' = [runs EXCEPT ![r] = n] /\ Follows(r, n)
    BY <2>1, WorkFollows
  <2>3. n.list = runs[r].list /\ n.pc \notin Asking
    <3>1. runs'[r].pc = "save" /\ runs'[r] = n
      BY <1>2, <1>5, <2>2 DEF Goes, RunRecords
    <3> QED
      BY <1>2, <2>2, <3>1 DEF Follows, Asking
  <2>4. \A e \in Docs : e # d => clean'[e] = clean[e]
    BY <1>2, <1>5 DEF Tables, Cleaned
  <2>5. \A e \in Docs : e # d => Same(e)
    BY <1>2, <1>5, <2>4 DEF Same
  <2>6. ASSUME Plain(runs[r].task)
        PROVE  OnceDoc(d)' /\ doc'[d] # "none" /\ n.list \subseteq Unsuccessful(d)'
    <3>1. /\ OnceDoc(d) /\ doc[d] # "none" /\ runs[r].list \subseteq Unsuccessful(d)
          /\ \A q \in DOMAIN runs : runs[q].doc = d /\ runs[q].pc \in {"mark", "answered"} => q = r
      BY <1>1, <1>2, <2>6, OnceAt DEF OnceRun, Working
    <3>2. Cleaned(d, {})
      BY <1>5, <2>6 DEF Plain
    <3>3. clean'[d].kept = clean[d].kept \cup (qa[d] \ (clean[d].kept \cup clean[d].dropped))
      BY <1>2, <3>2 DEF Tables, Cleaned
    <3>4. clean'[d].kept \subseteq qa[d] /\ Single(csv'[d])
      BY <1>2, <3>1, <3>3 DEF OnceDoc
    <3>5. doc'[d] \in {"none", "not_start"} => Blanks(d)
      BY <1>2, <1>5, <3>1 DEF OnceDoc
    <3>6. \A q \in DOMAIN runs : runs[q].doc = d => runs[q].pc # "answered"
      BY <1>2, <3>1
    <3>7. OnceDoc(d)'
      BY <1>2, <3>1, <3>4, <3>5, <3>6, OnceKept
    <3>8. Unsuccessful(d)' = Unsuccessful(d)
      BY <1>2 DEF Unsuccessful
    <3> QED
      BY <1>5, <2>3, <3>1, <3>7, <3>8
  <2> QED
    BY <1>1, <1>2, <2>2, <2>3, <2>5, <2>6, OnceAtWork DEF Working
<1> QED
  BY <1>3, <1>4, <1>5

LEMMA SaveOnce ==
  ASSUME IInv, EndsInv, OnceInv, NEW r \in Ids, Frame(r), TasksKept, Save(r)
  PROVE  OnceInv'
<1>1. PICK d : d = runs[r].doc
  OBVIOUS
<1>2. /\ Tables /\ r \in DOMAIN runs /\ runs[r] \in RunRecords /\ runs[r].pc = "save" /\ d \in Docs
      /\ runs[r].list \subseteq Chunks /\ UNCHANGED <<chunk, qa, clean>>
  BY <1>1, AtRun, TypesAre DEF Save, IInv
<1> DEFINE said == IF task[runs[r].task].config = "chunks" THEN runs[r].list \X {r} ELSE clean[d].kept
<1>3. \/ Good(r) /\ csv' = [csv EXCEPT ![d] = said] /\ SetDoc(d, "success")
      \/ Bad(r) /\ UNCHANGED <<doc, csv>>
  BY <1>1 DEF Save
<1>4. CASE Bad(r) /\ UNCHANGED <<doc, csv>>
  BY <1>1, <1>2, <1>4, OnceFails
<1>5. CASE Good(r) /\ csv' = [csv EXCEPT ![d] = said] /\ SetDoc(d, "success")
  <2>1. csv'[d] = said /\ \A e \in Docs : e # d => csv'[e] = csv[e]
    BY <1>2, <1>5 DEF Tables
  <2>2. doc'[d] = (IF doc[d] = "none" THEN "none" ELSE "success") /\ \A e \in Docs : e # d => Same(e)
    BY <1>2, <1>5, <2>1, SetDocEffect DEF Same, RowStatus
  <2>3. ASSUME Plain(runs[r].task)
        PROVE  OnceDoc(d)'
    <3>1. /\ OnceDoc(d) /\ doc[d] # "none" /\ runs[r].list \subseteq Unsuccessful(d)
          /\ \A q \in DOMAIN runs : runs[q].doc = d /\ runs[q].pc \in {"mark", "answered"} => q = r
      BY <1>1, <1>2, <2>3, OnceAt DEF OnceRun, Working
    <3>2. Single(runs[r].list \X {r})
      <4>1. \A b, c \in runs[r].list : b[1] = c[1] => b = c
        BY <3>1 DEF OnceDoc, Unsuccessful
      <4> QED
        BY <4>1 DEF Single, PartOf
    <3>3. Single(clean[d].kept)
      BY <3>1 DEF OnceDoc, Single
    <3>4. Single(csv'[d])
      BY <2>1, <3>2, <3>3
    <3>5. clean'[d].kept \subseteq qa[d] /\ qa'[d] = qa[d]
      BY <1>2, <3>1 DEF OnceDoc
    <3>6. \A q \in DOMAIN runs : runs[q].doc = d => runs[q].pc # "answered"
      BY <1>2, <3>1
    <3> QED
      BY <1>2, <2>2, <3>1, <3>4, <3>5, <3>6, OnceKept
  <2>4. PICK n \in RunRecords :
          /\ runs' = [runs EXCEPT ![r] = n] /\ n.pc = "next" /\ n.task = runs[r].task
          /\ n.todo = runs[r].todo /\ n.seen = runs[r].seen /\ n.retry = runs[r].retry
    <3> DEFINE left == Left(runs[r])
    <3>1. runs' = [runs EXCEPT ![r] = left]
      BY <1>5 DEF Good
    <3>2. /\ left \in RunRecords /\ left.pc = "next" /\ left.task = runs[r].task
          /\ left.todo = runs[r].todo /\ left.seen = runs[r].seen /\ left.retry = runs[r].retry
      BY <1>2, LeftType
    <3> HIDE DEF left
    <3> QED
      BY <3>1, <3>2
  <2>5. runs'[r] = n
    BY <1>2, <2>4, Moved DEF IInv
  <2>6. ASSUME Plain(runs[r].task)
        PROVE  OnceRun(runs[r])'
    <3>1. d[1] = runs[r].task /\ OnceRun(runs[r]) /\ runs[r].task \in Tasks /\ runs[r].todo \subseteq 1..NDocs
      BY <1>1, <1>2, <2>6, OnceAt DEF RunRecords, Working
    <3>2. \A i \in n.todo : /\ doc'[<<n.task, i>>] # "none"
                            /\ doc'[<<n.task, i>>] = IF n.retry THEN n.seen[i] ELSE "not_start"
      <4>1. TAKE i \in n.todo
      <4>2. <<n.task, i>> \in Docs /\ <<n.task, i>>[2] = i
        BY <2>4, <3>1, DocsType
      <4>3. i # d[2] /\ <<n.task, i>> # d
        BY <1>1, <1>2, <2>4, <3>1, <4>2 DEF OnceRun, AtDoc, Working
      <4>4. Same(<<n.task, i>>)
        BY <2>2, <4>2, <4>3
      <4> QED
        BY <1>2, <2>4, <3>1, <4>4 DEF OnceRun, Same, Busy, Working
    <3> QED
      BY <2>4, <2>5, <3>1, <3>2 DEF OnceRun, AtDoc, Working, Asking
  <2> QED
    BY <1>1, <1>2, <2>2, <2>3, <2>6, OnceStep DEF Working
<1> QED
  BY <1>3, <1>4, <1>5

LEMMA AddDocsOnce ==
  ASSUME IInv, EndsInv, OnceInv, NEW r \in Ids, Frame(r), TasksKept, AddDocs(r)
  PROVE  OnceInv'
<1>1. PICK t \in Tasks : t = runs[r].task
  BY AtRun DEF AddDocs, IInv
<1>2. /\ Tables /\ r \in DOMAIN runs /\ runs[r] \in RunRecords /\ runs[r].pc = "docs"
      /\ UNCHANGED <<chunk, qa, clean, csv>>
  BY AtRun, TypesAre DEF AddDocs, IInv, files
<1>3. \/ Goes(r, "caught") /\ UNCHANGED doc
      \/ /\ doc' = [d \in Docs |-> IF d[1] = t THEN "not_start" ELSE doc[d]]
         /\ runs' = [runs EXCEPT ![r].pc = "next", ![r].todo = 1..NDocs, ![r].status = "process_complete"]
  BY <1>1 DEF AddDocs
<1>4. CASE Goes(r, "caught") /\ UNCHANGED doc
  <2>1. \A e \in Docs : Same(e)
    BY <1>2, <1>4, QuietGrows
  <2> QED
    BY <1>2, <1>4, <2>1, OnceLeaves DEF Working
<1>5. CASE /\ doc' = [d \in Docs |-> IF d[1] = t THEN "not_start" ELSE doc[d]]
           /\ runs' = [runs EXCEPT ![r].pc = "next", ![r].todo = 1..NDocs, ![r].status = "process_complete"]
  <2>1. ~runs[r].retry /\ \A d \in DocsOf(t) : Blank(d)
    BY <1>1, <1>2 DEF IInv, RunOK, FreshOK, Newly
  <2>2. \A e \in Docs : e[1] # t => Same(e)
    BY <1>2, <1>5 DEF Same
  <2>3. \A u \in Tasks : Plain(u)' <=> Plain(u)
    BY DEF Frame, TasksKept, Plain
  <2>4. ASSUME NEW e \in Docs, Plain(e[1])
        PROVE  OnceDoc(e)'
    <3>1. OnceDoc(e)
      BY <2>3, <2>4 DEF OnceInv, Docs
    <3>2. CASE e[1] # t
      <4>1. runs[r].doc # e \/ runs[r].pc \notin {"mark", "answered"}
        BY <1>2
      <4> QED
        BY <2>2, <3>1, <3>2, <4>1, OnceElsewhere
    <3>3. CASE e[1] = t
      <4>1. qa'[e] = {} /\ \A c \in Chunks : chunk'[e][c] = "none"
        BY <1>2, <2>1, <3>3 DEF Blank, DocsOf
      <4>2. clean'[e].kept \subseteq qa'[e] /\ Single(csv[e])' /\ Single(qa[e])'
        BY <1>2, <3>1, <4>1 DEF OnceDoc, Single
      <4> QED
        BY <4>1, <4>2 DEF OnceDoc, Blanks
    <3> QED
      BY <3>2, <3>3
  <2>5. OnceRun(runs[r])'
    <3> DEFINE new == [runs[r] EXCEPT !.pc = "next", !.todo = 1..NDocs, !.status = "process_complete"]
    <3>1. /\ new \in RunRecords /\ new.pc = "next" /\ new.todo = 1..NDocs /\ new.task = t
          /\ ~new.retry /\ runs' = [runs EXCEPT ![r] = new]
      BY <1>1, <1>2, <1>5, <2>1 DEF RunRecords, PCs, Busy, Ends
    <3>2. PICK n \in RunRecords : n = new
      BY <3>1
    <3> HIDE DEF new
    <3>3. runs'[r] = n
      BY <1>2, <3>1, <3>2
    <3>4. \A i \in n.todo : doc'[<<n.task, i>>] = "not_start"
      BY <1>5, <3>1, <3>2, DocsType
    <3> QED
      BY <3>1, <3>2, <3>3, <3>4 DEF OnceRun, AtDoc, Working, Asking
  <2>6. ASSUME NEW q \in DOMAIN runs, Plain(runs[q].task), q # r
        PROVE  OnceRun(runs[q])'
    <3>1. runs'[q] = runs[q] /\ OnceRun(runs[q])
      BY <2>6 DEF Frame, OnceInv
    <3>2. CASE runs[q].task # t
      BY <2>2, <3>1, <3>2, OnceOther
    <3>3. CASE runs[q].task = t
      <4>1. r \in Active(t)
        BY <1>1 DEF Frame, Active
      <4>2. q \notin Active(t)
        BY <2>6, <3>3, <4>1 DEF EndsInv, TaskEnds, Lone, Plain
      <4>3. runs[q].pc = "done"
        BY <3>3, <4>2 DEF Active
      <4> QED
        BY <3>1, <4>3 DEF OnceRun, AtDoc, Busy, Working, Asking
    <3> QED
      BY <3>2, <3>3
  <2>7. \A u \in Tasks : task'[u].status = "none" => task'[u].config = "qa"
    BY DEF TasksKept, OnceInv
  <2>8. DOMAIN runs' = DOMAIN runs /\ \A q \in DOMAIN runs : runs'[q].task = runs[q].task /\ runs[q].task \in Tasks
    BY IdsOfRuns DEF Frame, IInv, RunRecords
  <2>9. \A e \in Docs : e[1] \in Tasks
    BY DEF Docs
  <2> QED
    BY <2>3, <2>4, <2>5, <2>6, <2>7, <2>8, <2>9 DEF OnceInv
<1> QED
  BY <1>3, <1>4, <1>5

LEMMA RunOnce ==
  ASSUME IInv, EndsInv, OnceInv, NEW r \in Ids, Run(r)
  PROVE  OnceInv'
<1>1. Frame(r) /\ TasksKept
  BY RunSteps, ConfigsStay DEF Steps
<1> QED
  BY <1>1, BeginOnce, EndOnce, AddDocsOnce, ListOnce, FileOnce, TakeOnce, LoadOnce, MarkOnce, StartOnce,
     AskOnce, EmbedOnce, AnsweredOnce, CleanOnce, SaveOnce DEF Run, Documents

\* A document that a request leaves alone.
LEMMA OnceSame ==
  ASSUME NEW e \in Docs, Same(e), OnceDoc(e), \A q \in DOMAIN runs : q \in DOMAIN runs' /\ runs'[q] = runs[q]
  PROVE  OnceDoc(e)'
<1>1. /\ doc'[e] = doc[e] /\ chunk'[e] = chunk[e] /\ qa'[e] = qa[e] /\ clean'[e] = clean[e] /\ csv'[e] = csv[e]
  BY DEF Same
<1>2. \A x \in qa'[e] :
        \/ chunk'[e][x[1]] = "success"
        \/ \E q \in DOMAIN runs' : runs'[q].pc = "answered" /\ runs'[q].doc = e /\ x = <<runs'[q].chunk, q>>
  <2>1. TAKE x \in qa'[e]
  <2>2. CASE chunk[e][x[1]] = "success"
    BY <1>1, <2>2
  <2>3. CASE \E q \in DOMAIN runs : runs[q].pc = "answered" /\ runs[q].doc = e /\ x = <<runs[q].chunk, q>>
    <3>1. PICK q \in DOMAIN runs : runs[q].pc = "answered" /\ runs[q].doc = e /\ x = <<runs[q].chunk, q>>
      BY <2>3
    <3> QED
      BY <3>1
  <2> QED
    BY <1>1, <2>2, <2>3 DEF OnceDoc
<1>3. doc'[e] \in {"none", "not_start"} =>
        Blanks(e)' \/ \E q \in DOMAIN runs' : runs'[q].pc = "mark" /\ runs'[q].doc = e
  BY <1>1 DEF OnceDoc, Blanks
<1> QED
  BY <1>1, <1>2, <1>3 DEF OnceDoc, Single

\* A request for a task leaves the others as they are.
LEMMA OnceRequest ==
  ASSUME IInv, OnceInv, NEW t \in Tasks, UNCHANGED restarts,
         \A u \in Tasks : u # t => task'[u] = task[u] /\ (u \in mixed <=> u \in mixed'),
         \A e \in Docs : e[1] # t => Same(e),
         \A q \in DOMAIN runs : q \in DOMAIN runs' /\ runs'[q] = runs[q],
         \A q \in DOMAIN runs' : q \notin DOMAIN runs => runs'[q].task = t /\ runs'[q].pc = "begin",
         task'[t].status # "none",
         Plain(t)' => Active(t) = {} /\ \A e \in DocsOf(t) : OnceDoc(e)'
  PROVE  OnceInv'
<1>1. \A u \in Tasks : u # t => (Plain(u)' <=> Plain(u))
  BY DEF Plain
<1>2. ASSUME NEW e \in Docs, Plain(e[1])'
      PROVE  OnceDoc(e)'
  <2>1. CASE e[1] = t
    BY <1>2, <2>1 DEF DocsOf
  <2>2. CASE e[1] # t
    <3>1. e[1] \in Tasks
      BY DEF Docs
    <3>2. OnceDoc(e)
      BY <1>1, <1>2, <2>2, <3>1 DEF OnceInv
    <3> QED
      BY <2>2, <3>2, OnceSame
  <2> QED
    BY <2>1, <2>2
<1>3. ASSUME NEW q \in DOMAIN runs', Plain(runs[q].task)'
      PROVE  OnceRun(runs[q])'
  <2>1. CASE q \notin DOMAIN runs
    BY <2>1 DEF OnceRun, AtDoc, Busy, Working, Asking
  <2>2. CASE q \in DOMAIN runs /\ runs[q].task = t
    <3>1. runs'[q] = runs[q] /\ Active(t) = {}
      BY <1>3, <2>2
    <3>2. runs'[q].pc = "done"
      BY <2>2, <3>1 DEF Active
    <3> QED
      BY <3>2 DEF OnceRun, AtDoc, Busy, Working, Asking
  <2>3. CASE q \in DOMAIN runs /\ runs[q].task # t
    <3>1. runs'[q] = runs[q] /\ runs[q].task \in Tasks
      BY <2>3, IdsOfRuns DEF IInv, RunRecords
    <3>2. OnceRun(runs[q])
      BY <1>1, <1>3, <2>3, <3>1 DEF OnceInv
    <3> QED
      BY <2>3, <3>1, <3>2, OnceOther
  <2> QED
    BY <2>1, <2>2, <2>3
<1>4. \A u \in Tasks : task'[u].status = "none" => task'[u].config = "qa"
  BY DEF OnceInv
<1> QED
  BY <1>2, <1>3, <1>4 DEF OnceInv

LEMMA AddOnce ==
  ASSUME IInv, EndsInv, OnceInv, NEW t \in Tasks, Add(t)
  PROVE  OnceInv'
<1> DEFINE n == Len(runs) + 1
           new == NewRun(t, FALSE)
<1>1. Types /\ Tables /\ task[t].status = "none" /\ Len(runs) < MaxRuns
  BY TypesAre DEF IInv, Add
<1>2. UNCHANGED <<doc, chunk, qa, clean, csv, restarts, mixed>> /\ runs' = Append(runs, new)
  BY DEF Add, bounds, files
<1>3. new \in RunRecords /\ new.pc = "begin" /\ new.task = t
  BY NewRunType
<1> HIDE DEF new
<1>4. /\ DOMAIN runs' = DOMAIN runs \cup {n} /\ n \notin DOMAIN runs
      /\ runs'[n] = new /\ \A q \in DOMAIN runs : runs'[q] = runs[q]
  BY <1>1, <1>2, <1>3, Appended
<1> HIDE DEF n
<1>5. task'[t].status = "processing" /\ \A u \in Tasks : u # t => task'[u] = task[u]
  BY <1>1 DEF Add, Tables
<1>6. Active(t) = {}
  BY <1>1 DEF IInv, TaskOK, Active
<1>7. \A e \in Docs : Same(e)
  BY <1>2, QuietGrows
<1>8. ASSUME Plain(t)', NEW e \in DocsOf(t)
      PROVE  OnceDoc(e)'
  <2>1. Plain(t) /\ e \in Docs /\ e[1] = t
    BY <1>1, <1>2, <1>8 DEF Plain, OnceInv, DocsOf
  <2>2. OnceDoc(e)
    BY <2>1 DEF OnceInv
  <2>3. \A q \in DOMAIN runs : q \in DOMAIN runs' /\ runs'[q] = runs[q]
    BY <1>4
  <2> QED
    BY <1>7, <2>1, <2>2, <2>3, OnceSame
<1> QED
  BY <1>2, <1>3, <1>4, <1>5, <1>6, <1>7, <1>8, OnceRequest

LEMMA RetryOnce ==
  ASSUME IInv, EndsInv, OnceInv, NEW t \in Tasks, Retry(t)
  PROVE  OnceInv'
<1> DEFINE n == Len(runs) + 1
           new == NewRun(t, TRUE)
<1>1. Types /\ task[t].status # "none" /\ Len(runs) < MaxRuns
  BY DEF IInv, Retry
<1>2. UNCHANGED <<task, doc, chunk, qa, clean, csv, restarts>> /\ runs' = Append(runs, new)
  BY DEF Retry, bounds, tables, files
<1>3. new \in RunRecords /\ new.pc = "begin" /\ new.task = t
  BY NewRunType
<1> HIDE DEF new
<1>4. /\ DOMAIN runs' = DOMAIN runs \cup {n} /\ n \notin DOMAIN runs
      /\ runs'[n] = new /\ \A q \in DOMAIN runs : runs'[q] = runs[q]
  BY <1>1, <1>2, <1>3, Appended
<1> HIDE DEF n
<1>5. mixed' = IF Active(t) = {} THEN mixed ELSE mixed \cup {t}
  BY DEF Retry
<1>6. \A e \in Docs : Same(e)
  BY <1>2, QuietGrows
<1>7. ASSUME Plain(t)'
      PROVE  Active(t) = {} /\ \A e \in DocsOf(t) : OnceDoc(e)'
  <2>1. Active(t) = {} /\ Plain(t)
    BY <1>2, <1>5, <1>7 DEF Plain
  <2>2. \A e \in DocsOf(t) : e \in Docs /\ OnceDoc(e)
    BY <2>1 DEF OnceInv, DocsOf
  <2>3. \A q \in DOMAIN runs : q \in DOMAIN runs' /\ runs'[q] = runs[q]
    BY <1>4
  <2> QED
    BY <1>6, <2>1, <2>2, <2>3, OnceSame
<1> QED
  BY <1>1, <1>2, <1>3, <1>4, <1>5, <1>6, <1>7, OnceRequest

LEMMA DeleteOnce ==
  ASSUME IInv, EndsInv, OnceInv, NEW t \in Tasks, Delete(t)
  PROVE  OnceInv'
<1>1. Tables /\ UNCHANGED <<csv, runs, restarts>>
  BY TypesAre DEF IInv, Delete, files
<1>2. /\ task'[t].status = "gone" /\ task'[t].config = task[t].config
      /\ \A u \in Tasks : u # t => task'[u] = task[u]
  BY <1>1 DEF Delete, Tables, TaskRecords
<1>3. mixed' = IF Active(t) = {} THEN mixed ELSE mixed \cup {t}
  BY DEF Delete
<1>4. \A e \in Docs : e[1] # t => Same(e)
  BY <1>1 DEF Delete, Same
<1>5. ASSUME Plain(t)', NEW e \in DocsOf(t)
      PROVE  OnceDoc(e)'
  <2>1. Plain(t) /\ e \in Docs /\ e[1] = t
    BY <1>1, <1>2, <1>3, <1>5 DEF Plain, DocsOf
  <2>2. OnceDoc(e)
    BY <2>1 DEF OnceInv
  <2>3. /\ qa'[e] = {} /\ clean'[e].kept = {} /\ csv'[e] = csv[e]
        /\ \A c \in Chunks : chunk'[e][c] = "none"
    BY <1>1, <2>1 DEF Delete
  <2> QED
    BY <2>2, <2>3 DEF OnceDoc, Single, Blanks
<1>6. Plain(t)' => Active(t) = {}
  BY <1>3 DEF Plain
<1> QED
  BY <1>1, <1>2, <1>3, <1>4, <1>5, <1>6, OnceRequest

LEMMA StepOnce ==
  ASSUME IInv, EndsInv, OnceInv, [Next]_vars
  PROVE  OnceInv'
<1>1. CASE \E t \in Tasks : Add(t) \/ Retry(t) \/ Delete(t)
  BY <1>1, AddOnce, RetryOnce, DeleteOnce
<1>2. CASE \E r \in Ids : Run(r)
  BY <1>2, RunOnce
<1>3. CASE Restart
  <2>1. UNCHANGED task /\ restarts' = restarts + 1 /\ restarts \in Nat
    BY <1>3 DEF Restart, tables, EndsInv
  <2>2. restarts' # 0
    BY <2>1
  <2> QED
    BY <2>1, <2>2 DEF OnceInv, Plain
<1>4. CASE UNCHANGED vars
  <2>1. UNCHANGED <<task, doc, chunk, qa, clean, csv, runs, restarts, mixed>>
    BY <1>4 DEF vars, tables, files, bounds
  <2>2. \A t \in Tasks : Plain(t)' <=> Plain(t)
    BY <2>1 DEF Plain
  <2>3. \A d \in Docs : d[1] \in Tasks /\ Same(d)
    BY <2>1, QuietGrows DEF Docs
  <2>4. \A d \in Docs : Plain(d[1])' => OnceDoc(d)'
    BY <2>1, <2>2, <2>3, OnceSame DEF OnceInv
  <2>5. \A q \in DOMAIN runs : runs[q].task \in Tasks
    BY IdsOfRuns DEF IInv, RunRecords
  <2>6. \A q \in DOMAIN runs : Plain(runs[q].task)' => OnceRun(runs[q])'
    <3>1. \A q \in DOMAIN runs : OnceRun(runs[q]) => OnceRun(runs[q])'
      BY <2>1 DEF OnceRun, AtDoc, Unsuccessful
    <3> QED
      BY <2>1, <2>2, <2>5, <3>1 DEF OnceInv
  <2> QED
    BY <2>1, <2>4, <2>6 DEF OnceInv
<1> QED
  BY <1>1, <1>2, <1>3, <1>4 DEF Next

LEMMA InitOnce ==
  ASSUME Init
  PROVE  OnceInv
<1>1. DOMAIN runs = {}
  BY EmptySeq, LenProperties DEF Init
<1>2. \A t \in Tasks : task[t].config = "qa"
  BY DEF Init
<1>3. \A d \in Docs : /\ qa[d] = {} /\ csv[d] = {} /\ clean[d].kept = {}
                      /\ \A c \in Chunks : chunk[d][c] = "none"
  BY DEF Init
<1>4. \A d \in Docs : OnceDoc(d)
  BY <1>3 DEF OnceDoc, Single, Blanks
<1> QED
  BY <1>1, <1>2, <1>4 DEF OnceInv

\* A file says nothing twice: where no two actors met and the service was not
\* restarted, what a failed run leaves of a chunk is nothing that its retry repeats.
THEOREM SaidOnce == Spec => []OnceOnly
<1>1. Init => EndsInv /\ OnceInv
  BY InitEnds, InitOnce
<1>2. IInv /\ EndsInv /\ OnceInv /\ [Next]_vars => EndsInv' /\ OnceInv'
  BY StepEnds, StepOnce
<1>3. OnceInv => OnceOnly
  BY DEF OnceInv, Plain, OnceDoc, Single, OnceOnly
<1> QED
  BY <1>1, <1>2, <1>3, Inductive, PTL DEF Spec
=============================================================================
