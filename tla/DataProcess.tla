------------------------------ MODULE DataProcess ------------------------------
(***************************************************************************)
(* The data processing service (pypi/data-processing): a task takes files  *)
(* of a version of a dataset, splits each into chunks, has a model write   *)
(* questions and answers about every chunk, may remove the duplicates, and *)
(* puts a csv file per document back into the dataset.                     *)
(*                                                                         *)
(* Every add and every retry starts a thread of its own, here a run.  All  *)
(* that runs share is the database, where each statement commits by        *)
(* itself, the condition of the dataset in the cluster, the object store   *)
(* and one local folder for the csv files of all tasks.  Nothing keeps two *)
(* runs of a task apart, and a restart of the service ends them all.       *)
(***************************************************************************)
EXTENDS Naturals, Sequences, FiniteSets

CONSTANTS
  Tasks,
  NParts,       \* for each file of a task, the chunks that it is split into
  Requests,     \* what tasks are asked for: config "qa", "dedup" (qa without
                \* duplicates) or "chunks", and each file's kind "text" (pdf and
                \* docx), "web" or "other"
  MaxRuns,
  MaxFaults,    \* calls that fail
  MaxRare       \* restarts and deletions

VARIABLES
  task,         \* data_process_task
  log,          \* data_process_task_log, a row per run
  doc,          \* the status in data_process_task_document
  chunk,        \* the status in data_process_task_document_chunk
  qa,           \* data_process_task_question_answer
  clean,        \* the table of the same name with _clean: the rows kept and dropped
  emb,          \* the vectors of _remove_duplicate_tmp
  dataset,      \* the DataProcessing condition of the task's dataset
  bucket,       \* the csv files in the task's dataset
  folder,       \* the csv files in the local folder "final"
  csv,          \* what the last one of a document contains
  runs,         \* the threads
  faults, restarts, rare,
  mixed         \* history: the tasks that two actors worked at together

tables == <<task, log, doc, chunk, qa, clean, emb>>
files  == <<bucket, folder, csv>>
bounds == <<faults, restarts, rare>>
vars   == <<tables, dataset, files, runs, bounds, mixed>>

NDocs == Len(NParts)
Docs  == Tasks \X (1..NDocs)
Parts(d) == 1..NParts[d[2]]
AnyPart  == UNION {Parts(d) : d \in Docs}
Ids   == 1..MaxRuns
\* A chunk has an id of its own: the part of the text, and the run that made the
\* split.  So has a question and answer: the chunk it is about, and its run.
Chunks == AnyPart \X Ids
Rows   == Chunks \X Ids
PartOf(row) == row[1][1]

ASSUME SizesAssumption ==
  /\ NParts \in Seq(Nat \ {0}) /\ NParts # <<>>
  /\ MaxRuns \in Nat \ {0} /\ {MaxFaults, MaxRare} \subseteq Nat
ASSUME RequestsAssumption ==
  Requests \subseteq [config : {"qa", "dedup", "chunks"}, kinds : [1..NDocs -> {"text", "web", "other"}]]

Ends      == {"process_complete", "process_fail"}
TaskStatus == Ends \cup {"none", "processing", "gone"}
RowStatus == {"none", "not_start", "doing", "success", "fail"}

Exists(t) == task[t].status \notin {"none", "gone"}
DocsOf(t) == {d \in Docs : d[1] = t}
Active(t) == {r \in DOMAIN runs : runs[r].task = t /\ runs[r].pc # "done"}

-----------------------------------------------------------------------------
(* Statements and calls *)

\* An update by id finds nothing once the row is deleted.
SetDoc(d, s) == doc' = [doc EXCEPT ![d] = IF @ = "none" THEN @ ELSE s]
SetChunk(d, c, s) == chunk' = [chunk EXCEPT ![d][c] = IF @ = "none" THEN @ ELSE s]
SetEnd(r, s) ==
  LET t == runs[r].task IN
  /\ log' = [log EXCEPT ![r] = IF @ = "none" THEN @ ELSE s]
  /\ task' = [task EXCEPT ![t] = IF Exists(t) THEN [@ EXCEPT !.status = s, !.log = r] ELSE @]

Fault == faults < MaxFaults /\ faults' = faults + 1
Fine  == UNCHANGED faults

At(r, pc) == r \in DOMAIN runs /\ runs[r].pc = pc
Goes(r, pc) == runs' = [runs EXCEPT ![r].pc = pc]
\* The end of a thread: all that it knew is gone.
Ended(t) == [pc |-> "done", task |-> t, retry |-> FALSE, todo |-> {}, seen |-> [i \in 1..NDocs |-> "none"],
             doc |-> <<t, 1>>, list |-> {}, chunk |-> <<1, 1>>, files |-> {}, status |-> "none"]
Quits(r) == runs' = [runs EXCEPT ![r] = Ended(@.task)]

\* What handling a document returns: on anything but 200 the loop over the
\* documents is left.
Left(run) == [run EXCEPT !.pc = "next", !.list = {}, !.chunk = <<1, 1>>]
Good(r) == runs' = [runs EXCEPT ![r] = Left(@)]
\* The status of a row for that of a task.
BadStatus(r) == runs' = [runs EXCEPT ![r] = [Left(@) EXCEPT !.todo = {}, !.status = "fail"]]
\* The loop is left without a mark.
BadUnmarked(r) == runs' = [runs EXCEPT ![r] = [Left(@) EXCEPT !.todo = {}]]
Bad(r)  == runs' = [runs EXCEPT ![r] = [Left(@) EXCEPT !.todo = {}, !.status = "process_fail"]]

-----------------------------------------------------------------------------
(* The requests *)

NewRun(t, retry) ==
  [Ended(t) EXCEPT !.pc = "begin", !.retry = retry]

Add(t) ==
  /\ task[t].status = "none" /\ Len(runs) < MaxRuns
  /\ \E q \in Requests :
       task' = [task EXCEPT ![t] = [status |-> "processing", log |-> 0, config |-> q.config, kinds |-> q.kinds]]
  /\ runs' = Append(runs, NewRun(t, FALSE))
  /\ UNCHANGED <<log, doc, chunk, qa, clean, emb, dataset, files, bounds, mixed>>

\* The service does not look for the task, at its status, or for a run of it.
Retry(t) ==
  /\ task[t].status # "none" /\ Len(runs) < MaxRuns
  /\ runs' = Append(runs, NewRun(t, TRUE))
  /\ mixed' = IF Active(t) = {} THEN mixed ELSE mixed \cup {t}
  /\ UNCHANGED <<tables, dataset, files, bounds>>

\* One statement per table; a run goes on, and what it inserts stays.
Delete(t) ==
  /\ Exists(t) /\ rare < MaxRare /\ rare' = rare + 1
  /\ task' = [task EXCEPT ![t].status = "gone"]
  /\ log' = [r \in Ids |-> IF r \in DOMAIN runs /\ runs[r].task = t THEN "none" ELSE log[r]]
  /\ doc' = [d \in Docs |-> IF d[1] = t THEN "none" ELSE doc[d]]
  /\ chunk' = [d \in Docs |-> IF d[1] = t THEN [c \in Chunks |-> "none"] ELSE chunk[d]]
  /\ qa' = [d \in Docs |-> IF d[1] = t THEN {} ELSE qa[d]]
  /\ clean' = [d \in Docs |-> IF d[1] = t THEN [kept |-> {}, dropped |-> {}] ELSE clean[d]]
  /\ mixed' = IF Active(t) = {} THEN mixed ELSE mixed \cup {t}
  /\ UNCHANGED <<emb, dataset, files, runs, faults, restarts>>

-----------------------------------------------------------------------------
(* A run: before the documents *)

\* The log row and the condition of the dataset; on failure the run writes its
\* end and returns.  A retry reads the task first, outside of its try, and
\* writes that the task is processing.
Begin(r) ==
  LET t == runs[r].task
      retry == runs[r].retry
      processing(s, l) == [task EXCEPT ![t] = IF retry THEN [@ EXCEPT !.status = s, !.log = l] ELSE @]
  IN
  /\ At(r, "begin") /\ (retry => Exists(t))
  /\ \/ Fine /\ Goes(r, IF retry THEN "list" ELSE "docs") /\ dataset' = [dataset EXCEPT ![t] = "processing"]
        /\ log' = [log EXCEPT ![r] = "open"] /\ task' = processing("processing", 0)
     \/ Fault /\ Quits(r) /\ UNCHANGED dataset
        /\ log' = [log EXCEPT ![r] = "process_fail"]
        /\ task' = IF Exists(t) THEN [task EXCEPT ![t].status = "process_fail", ![t].log = r] ELSE task
  /\ UNCHANGED <<doc, chunk, qa, clean, emb, files, restarts, rare, mixed>>

BeginGone(r) ==
  /\ At(r, "begin") /\ runs[r].retry /\ ~Exists(runs[r].task)
  /\ Quits(r)
  /\ UNCHANGED <<tables, dataset, files, bounds, mixed>>

\* A new run: a row per file.
AddDocs(r) ==
  LET t == runs[r].task IN
  /\ At(r, "docs")
  /\ \/ /\ Fine
        /\ doc' = [d \in Docs |-> IF d[1] = t THEN "not_start" ELSE doc[d]]
        /\ runs' = [runs EXCEPT ![r].pc = "next", ![r].todo = 1..NDocs, ![r].status = "process_complete"]
     \/ Fault /\ Goes(r, "caught") /\ UNCHANGED doc
  /\ UNCHANGED <<task, log, chunk, qa, clean, emb, dataset, files, restarts, rare, mixed>>

\* A retry: the documents that did not succeed, as they are now.  Without any,
\* nothing is uploaded either.
ListDocs(r) ==
  LET t == runs[r].task
      left == {i \in 1..NDocs : doc[<<t, i>>] \notin {"none", "success"}}
  IN
  /\ At(r, "list")
  /\ runs' = [runs EXCEPT ![r].pc = IF left = {} THEN "put" ELSE "next", ![r].todo = left,
                          ![r].seen = [i \in 1..NDocs |-> doc[<<t, i>>]],
                          ![r].status = "process_complete"]
  /\ UNCHANGED <<tables, dataset, files, bounds, mixed>>

-----------------------------------------------------------------------------
(* A run: the documents *)

\* What the comment of list_by_status names: in progress and failed.
BegunAndFailed(d) == {c \in Chunks : chunk[d][c] \in {"doing", "fail"}}
\* All chunks once more.
AllChunks(d) == {c \in Chunks : chunk[d][c] # "none"}
Unsuccessful(d) == {c \in Chunks : chunk[d][c] \notin {"none", "success"}}

\* The next document is downloaded, or, when a retry has found it begun, its
\* chunks that did not succeed are read.  A new run takes the files in order.
\* A retry that has to begin a file that is not pdf or docx meets a name that
\* is not defined.
Take(r) ==
  LET t == runs[r].task
      to(d, pc, cs) == runs' = [runs EXCEPT ![r].pc = pc, ![r].doc = d, ![r].list = cs, ![r].todo = @ \ {d[2]}]
      first(i) == runs[r].retry \/ \A j \in runs[r].todo : i <= j
  IN
  /\ At(r, "next")
  /\ \E i \in runs[r].todo :
       LET d == <<t, i>>  kind == task[t].kinds[i] IN
       /\ first(i)
       /\ IF runs[r].retry /\ runs[r].seen[i] # "not_start"
          THEN /\ Fine
               /\ IF Unsuccessful(d) = {} THEN Bad(r) ELSE to(d, "mark", Unsuccessful(d))
          ELSE \/ Fault /\ Goes(r, "caught")
               \/ /\ Fine
                  /\ CASE kind = "text" \/ (kind = "web" /\ ~runs[r].retry) -> to(d, "load", {})
                       [] kind = "other" /\ ~runs[r].retry -> Bad(r)
                       [] OTHER -> Goes(r, "caught")
  /\ UNCHANGED <<tables, dataset, files, restarts, rare, mixed>>

\* The file is read and split, and every part gets a row.
Load(r) ==
  LET d == runs[r].doc
      new == Parts(d) \X {r}
  IN
  /\ At(r, "load")
  /\ \/ /\ Fine
        /\ chunk' = [chunk EXCEPT ![d] = [c \in Chunks |-> IF c \in new THEN "not_start" ELSE @[c]]]
        /\ runs' = [runs EXCEPT ![r].pc = "mark", ![r].list = new]
     \/ Fault /\ Bad(r) /\ UNCHANGED chunk
  /\ UNCHANGED <<task, log, doc, qa, clean, emb, dataset, files, restarts, rare, mixed>>

\* Without questions and answers, cleaning the chunks is all there is to do.
Mark(r) ==
  /\ At(r, "mark")
  /\ SetDoc(runs[r].doc, "doing")
  /\ Goes(r, IF task[runs[r].task].config = "chunks" THEN "save" ELSE "chunk")
  /\ UNCHANGED <<task, log, chunk, qa, clean, emb, dataset, files, bounds, mixed>>

StartChunk(r) ==
  /\ At(r, "chunk")
  /\ \E c \in runs[r].list :
       SetChunk(runs[r].doc, c, "doing") /\ runs' = [runs EXCEPT ![r].pc = "ask", ![r].chunk = c]
  /\ UNCHANGED <<task, log, doc, qa, clean, emb, dataset, files, bounds, mixed>>

\* A failure that is told leaves the chunk and the document failed; one that is
\* raised leaves both as they are.
ChunkFails(r) ==
  /\ Fault /\ Bad(r)
  /\ \/ SetDoc(runs[r].doc, "fail") /\ SetChunk(runs[r].doc, runs[r].chunk, "fail")
     \/ UNCHANGED <<doc, chunk>>

RowOf(r) == <<runs[r].chunk, r>>

\* The model is asked, and what it answers is inserted.
Ask(r) ==
  LET d == runs[r].doc IN
  /\ At(r, "ask")
  /\ \/ /\ Fine
        /\ qa' = [qa EXCEPT ![d] = @ \cup {RowOf(r)}]
        /\ Goes(r, IF task[runs[r].task].config = "dedup" THEN "embed" ELSE "answered")
        /\ UNCHANGED <<doc, chunk>>
     \/ ChunkFails(r) /\ UNCHANGED qa
  /\ UNCHANGED <<task, log, clean, emb, dataset, files, restarts, rare, mixed>>

Embed(r) ==
  /\ At(r, "embed")
  /\ \/ Fine /\ emb' = [emb EXCEPT ![runs[r].doc] = @ \cup {RowOf(r)}] /\ Goes(r, "answered")
        /\ UNCHANGED <<doc, chunk>>
     \/ ChunkFails(r) /\ UNCHANGED emb
  /\ UNCHANGED <<task, log, qa, clean, dataset, files, restarts, rare, mixed>>

Answered(r) ==
  /\ At(r, "answered")
  /\ SetChunk(runs[r].doc, runs[r].chunk, "success")
  /\ runs' = [runs EXCEPT ![r].pc = "chunk", ![r].list = @ \ {runs[r].chunk}, ![r].chunk = <<1, 1>>]
  /\ UNCHANGED <<task, log, doc, qa, clean, emb, dataset, files, bounds, mixed>>

\* Rows go into the clean table under the id that they have: one that is there
\* is left as it is.
Cleaned(d, dropped) ==
  LET old == clean[d].kept \cup clean[d].dropped IN
  clean' = [clean EXCEPT ![d] = [kept |-> @.kept \cup (qa[d] \ (old \cup dropped)),
                                 dropped |-> @.dropped \cup (dropped \ old)]]

\* Of the rows with a vector that are close to each other one is kept; a row
\* without a vector is close to none.  Answers about different parts are taken
\* not to be close.
Duplicates(d) ==
  {S \in SUBSET (qa[d] \cap emb[d]) :
     \A p \in Parts(d) : LET same == {x \in qa[d] \cap emb[d] : PartOf(x) = p} IN
       same = {} \/ Cardinality(same \ S) = 1}

Clean(r) ==
  LET d == runs[r].doc IN
  /\ At(r, "chunk") /\ runs[r].list = {}
  /\ \/ /\ Fine /\ Goes(r, "save") /\ UNCHANGED doc
        /\ IF task[runs[r].task].config = "dedup"
           THEN /\ \E S \in Duplicates(d) : Cleaned(d, S)
                /\ emb' = [emb EXCEPT ![d] = @ \ qa[d]]
           ELSE Cleaned(d, {}) /\ UNCHANGED emb
     \/ /\ Fault /\ Bad(r) /\ UNCHANGED <<clean, emb>>
        /\ \/ task[runs[r].task].config = "dedup" /\ SetDoc(d, "fail")
           \/ UNCHANGED doc
  /\ UNCHANGED <<task, log, chunk, qa, dataset, files, restarts, rare, mixed>>

\* The csv file, and with it the success of the document.
Save(r) ==
  LET d == runs[r].doc IN
  /\ At(r, "save")
  /\ \/ /\ Fine /\ Good(r)
        /\ csv' = [csv EXCEPT ![d] = IF task[runs[r].task].config = "chunks" THEN runs[r].list \X {r}
                                     ELSE clean[d].kept]
        /\ folder' = folder \cup {d}
        /\ SetDoc(d, "success")
     \/ Fault /\ Bad(r) /\ UNCHANGED <<doc, csv, folder>>
  /\ UNCHANGED <<task, log, chunk, qa, clean, emb, dataset, bucket, restarts, rare, mixed>>

-----------------------------------------------------------------------------
(* A run: after the documents *)

\* All that is in the folder is to be uploaded, whosever it is.
Walk(r) ==
  /\ At(r, "next") /\ runs[r].todo = {}
  /\ runs' = [runs EXCEPT ![r].pc = "put", ![r].files = folder, ![r].doc = <<runs[r].task, 1>>]
  /\ UNCHANGED <<tables, dataset, files, bounds, mixed>>

\* The file is deleted whether or not it was uploaded.
StoreFailsDeleted(r, f) ==
  /\ Fault /\ UNCHANGED bucket /\ folder' = folder \ {f}
  /\ runs' = [runs EXCEPT ![r].files = @ \ {f}]

\* An error of the object store is logged and the file left; any other ends the run.
StoreFails(r, f) ==
  /\ Fault /\ UNCHANGED <<bucket, folder>>
  /\ \/ runs' = [runs EXCEPT ![r].files = @ \ {f}]
     \/ Goes(r, "caught")

\* An uploaded file is removed from the folder. One that is gone ends the run.
Put(r) ==
  LET t == runs[r].task IN
  /\ At(r, "put")
  /\ \E f \in runs[r].files :
       \/ /\ f \in folder /\ Fine
          /\ bucket' = [bucket EXCEPT ![t] = @ \cup {f}] /\ folder' = folder \ {f}
          /\ runs' = [runs EXCEPT ![r].files = @ \ {f}]
       \/ f \in folder /\ StoreFails(r, f)
       \/ /\ f \notin folder /\ Fine /\ UNCHANGED <<bucket, folder>>
          /\ Goes(r, "caught")
  /\ UNCHANGED <<tables, dataset, csv, restarts, rare, mixed>>

\* First the dataset is told.  When it cannot be, the run has failed.
TellDataset(r) ==
  /\ At(r, "put") /\ runs[r].files = {}
  /\ \/ Fine /\ dataset' = [dataset EXCEPT ![runs[r].task] = runs[r].status] /\ Goes(r, "rows")
        /\ UNCHANGED <<task, log>>
     \/ Fault /\ SetEnd(r, "process_fail") /\ Quits(r) /\ UNCHANGED dataset
  /\ UNCHANGED <<doc, chunk, qa, clean, emb, files, restarts, rare, mixed>>

End(r) ==
  /\ At(r, "rows")
  /\ SetEnd(r, runs[r].status) /\ Quits(r)
  /\ UNCHANGED <<doc, chunk, qa, clean, emb, dataset, files, bounds, mixed>>

\* The except clause.  A new run tells the dataset the status it had come to,
\* and is not able to when it had not come to any.
Caught(r) ==
  LET said == IF runs[r].retry THEN "process_fail" ELSE runs[r].status IN
  /\ At(r, "caught")
  /\ SetEnd(r, "process_fail") /\ Quits(r)
  /\ \/ /\ Fine
        /\ dataset' = IF said = "none" THEN dataset ELSE [dataset EXCEPT ![runs[r].task] = said]
     \/ Fault /\ UNCHANGED dataset
  /\ UNCHANGED <<doc, chunk, qa, clean, emb, files, restarts, rare, mixed>>

-----------------------------------------------------------------------------
\* The service is restarted: threads and local files are gone.
Restart ==
  /\ rare < MaxRare /\ rare' = rare + 1 /\ restarts' = restarts + 1
  /\ runs' = [r \in DOMAIN runs |-> Ended(runs[r].task)]
  /\ folder' = {}
  /\ UNCHANGED <<tables, dataset, bucket, csv, faults, mixed>>

Init ==
  /\ task = [t \in Tasks |-> [status |-> "none", log |-> 0, config |-> "qa", kinds |-> [i \in 1..NDocs |-> "text"]]]
  /\ log = [r \in Ids |-> "none"]
  /\ doc = [d \in Docs |-> "none"]
  /\ chunk = [d \in Docs |-> [c \in Chunks |-> "none"]]
  /\ qa = [d \in Docs |-> {}]
  /\ clean = [d \in Docs |-> [kept |-> {}, dropped |-> {}]]
  /\ emb = [d \in Docs |-> {}]
  /\ dataset = [t \in Tasks |-> "none"]
  /\ bucket = [t \in Tasks |-> {}] /\ folder = {} /\ csv = [d \in Docs |-> {}]
  /\ runs = <<>>
  /\ faults = 0 /\ restarts = 0 /\ rare = 0 /\ mixed = {}

Documents(r) ==
  \/ Take(r) \/ Load(r) \/ Mark(r) \/ StartChunk(r) \/ Ask(r) \/ Embed(r) \/ Answered(r)
  \/ Clean(r) \/ Save(r)
Run(r) ==
  \/ Begin(r) \/ BeginGone(r) \/ AddDocs(r) \/ ListDocs(r) \/ Documents(r)
  \/ Walk(r) \/ Put(r) \/ TellDataset(r) \/ End(r) \/ Caught(r)

Next ==
  \/ \E t \in Tasks : Add(t) \/ Retry(t) \/ Delete(t)
  \/ \E r \in Ids : Run(r)
  \/ Restart

Spec == Init /\ [][Next]_vars

-----------------------------------------------------------------------------
(* Properties *)

TypeOK ==
  /\ task \in [Tasks -> [status : TaskStatus, log : 0..MaxRuns, config : {"qa", "dedup", "chunks"},
                         kinds : [1..NDocs -> {"text", "web", "other"}]]]
  /\ log \in [Ids -> Ends \cup {"none", "open"}]
  /\ doc \in [Docs -> RowStatus] /\ chunk \in [Docs -> [Chunks -> RowStatus]]
  /\ qa \in [Docs -> SUBSET Rows] /\ emb \in [Docs -> SUBSET Rows] /\ csv \in [Docs -> SUBSET Rows]
  /\ clean \in [Docs -> [kept : SUBSET Rows, dropped : SUBSET Rows]]
  /\ dataset \in [Tasks -> Ends \cup {"none", "processing"}]
  /\ bucket \in [Tasks -> SUBSET Docs] /\ folder \subseteq Docs
  /\ Len(runs) <= MaxRuns /\ mixed \subseteq Tasks

\* The file of a document that succeeded speaks of every part of it, however many
\* runs it took, whatever failed on the way, and even if two of them met: a chunk
\* that a retry skips as successful has its questions and answers in the table.
SuccessIsWhole == \A d \in Docs : doc[d] = "success" => {PartOf(x) : x \in csv[d]} = Parts(d)

\* A file says nothing twice, unless a restart or a second run came in between:
\* what a failed run leaves of a chunk is nothing that its retry repeats.
\* With "dedup" a row that could not be turned into a vector is repeated.
OnceOnly ==
  \A d \in Docs :
    restarts = 0 /\ d[1] \notin mixed /\ task[d[1]].config # "dedup"
      => \A x, y \in csv[d] : PartOf(x) = PartOf(y) => x = y

\* No task stays in processing with no run to end it, unless the service is
\* restarted: whatever fails or is raised, the last of its runs writes an end.  A
\* task that is called complete, and that one run at a time worked at, has told
\* the dataset so, and every document that it has a row of has succeeded.  Its log
\* shows the end that the task shows.
EndsAgree ==
  \A t \in Tasks :
    /\ restarts = 0 /\ task[t].status = "processing" => Active(t) # {}
    /\ t \notin mixed =>
         /\ task[t].status = "process_complete" =>
              dataset[t] = "process_complete" /\ \A d \in DocsOf(t) : doc[d] \in {"none", "success"}
         /\ task[t].status \in Ends => task[t].log # 0 /\ log[task[t].log] = task[t].status

\* Unless the service restarts, the file of a document that succeeded is in the
\* folder or in a dataset (of some task: the folder is that of all), although
\* several runs upload from the folder, and remove what they have uploaded.
Delivered ==
  restarts = 0 => \A d \in Docs : doc[d] = "success" => d \in folder \/ \E t \in Tasks : d \in bucket[t]
=============================================================================
