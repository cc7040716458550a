---------------------------- MODULE Conversations ----------------------------
(***************************************************************************)
(* The requests of one conversation (apiserver/pkg/chat): questions, files *)
(* and its deletion, each read, extended and written back on its own, over *)
(* one of the two storages.  MemoryStorage keeps a conversation by value,  *)
(* and with it a slice: whoever finds it shares the array of its messages, *)
(* also the room behind the last one.  PostgreSQLStorage hands out copies  *)
(* and adds the rows that are missing.  The files of a conversation are    *)
(* kept in a knowledge base of its own.                                    *)
(***************************************************************************)
EXTENDS Naturals, Sequences, SequencesExt

CONSTANTS
  NReqs,
  MaxActive,    \* requests under way at once
  MaxFaults,    \* calls and runs of the application that fail
  MaxDeletes

VARIABLES
  storage,      \* the one that was found at the first use
  arrays,       \* the arrays behind slices, each made by a request
  stored,       \* the conversation of MemoryStorage
  rows,         \* the messages of PostgreSQLStorage
  kb,           \* the knowledge base of the conversation
  objects,      \* the files in the object store
  reqs,
  faults

vars == <<storage, arrays, stored, rows, kb, objects, reqs, faults>>

Reqs == 1..NReqs
Kinds == {"chat", "file", "delete"}
ASSUME BoundsAssumption == NReqs \in Nat \ {0} /\ {MaxActive, MaxFaults, MaxDeletes} \subseteq Nat

\* A message: who asked, and whose answer it has; 0 is none.
Message(r, a) == [by |-> r, answer |-> a]
Messages == [by : 0..NReqs, answer : 0..NReqs]
Blank    == Message(0, 0)

\* A slice: an array, and how much of it; array 0 has no room.
Slices   == [array : 0..NReqs, len : Nat]
NoSlice  == [array |-> 0, len |-> 0]
Array(s) == IF s.array = 0 THEN <<>> ELSE arrays[s.array]
Content(s) == SubSeq(Array(s), 1, s.len)

NoReq == [pc |-> "no", kind |-> "chat", slice |-> NoSlice, history |-> <<>>, alone |-> FALSE]
Active(r) == reqs[r].pc \notin {"no", "done", "failed"}
Goto(r, pc) == reqs' = [reqs EXCEPT ![r].pc = pc]
Fault == faults < MaxFaults /\ faults' = faults + 1

-----------------------------------------------------------------------------
(* The storages *)

Exists  == IF storage = "memory" THEN stored.exists ELSE rows.exists
Current == IF storage = "memory" THEN ToSet(Content(stored.slice)) ELSE rows.messages

\* Mutant: the rows are those of the request.
PutAll(s) ==
  IF storage = "memory"
  THEN stored' = [exists |-> TRUE, slice |-> s] /\ UNCHANGED rows
  ELSE rows' = [exists |-> TRUE, messages |-> ToSet(Content(s))] /\ UNCHANGED stored

\* UpdateConversation.  The one stores the slice; the other inserts the rows
\* that are not there, and a conversation that was deleted is there again.
Put(s) ==
  IF storage = "memory"
  THEN stored' = [exists |-> TRUE, slice |-> s] /\ UNCHANGED rows
  ELSE /\ rows' = [exists |-> TRUE, messages |->
            rows.messages \cup {m \in ToSet(Content(s)) : \A n \in rows.messages : n.by # m.by}]
       /\ UNCHANGED stored

\* FindExistingConversation: the slice that is stored, or one of the rows.  What it
\* holds is what the application is told of the conversation so far.
Find(r, pc) ==
  LET memory == storage = "memory"
      rowsNow == SetToSeq(rows.messages) IN
  /\ arrays' = IF memory THEN arrays ELSE [arrays EXCEPT ![r] = rowsNow]
  /\ reqs' = [reqs EXCEPT ![r].pc = pc,
                ![r].slice = IF memory THEN stored.slice ELSE [array |-> r, len |-> Len(rowsNow)],
                ![r].history = IF memory THEN Content(stored.slice) ELSE rowsNow]

\* Mutant: the conversation is marked, as in Postgres, and kept.
DropMarked ==
  IF storage = "memory"
  THEN stored' = [stored EXCEPT !.exists = FALSE] /\ UNCHANGED rows
  ELSE rows' = [rows EXCEPT !.exists = FALSE] /\ UNCHANGED stored

\* Delete: the messages of Postgres stay behind.
Drop ==
  IF storage = "memory"
  THEN stored' = [exists |-> FALSE, slice |-> NoSlice] /\ UNCHANGED rows
  ELSE rows' = [rows EXCEPT !.exists = FALSE] /\ UNCHANGED stored

\* append: into the room of the array, or into a new one of twice the size.
Grown(a) == a \o [i \in 1..(IF a = <<>> THEN 1 ELSE Len(a)) |-> Blank]
Appended(r, m) ==
  LET s == reqs[r].slice
      n == s.len + 1
      fits == n <= Len(Array(s))
      a == IF fits THEN s.array ELSE r
      room == IF fits THEN arrays[a] ELSE Grown(Content(s)) IN
  /\ arrays' = [arrays EXCEPT ![a] = [room EXCEPT ![n] = m]]
  /\ reqs' = [reqs EXCEPT ![r].slice = [array |-> a, len |-> n],
                          ![r].pc = IF m.answer = 0 THEN "running" ELSE "put"]

-----------------------------------------------------------------------------
(* The requests *)

\* A request begins; those that are under way are not alone any more.
Begins(r, kind, pc, slice) ==
  reqs' = [q \in Reqs |->
             IF q = r THEN [NoReq EXCEPT !.pc = pc, !.kind = kind, !.slice = slice,
                                         !.alone = \A p \in Reqs : ~Active(p)]
             ELSE [reqs[q] EXCEPT !.alone = @ /\ ~Active(q)]]
IsNext(r) ==
  /\ reqs[r].pc = "no" /\ \A q \in 1..(r - 1) : reqs[q].pc # "no"
  /\ Cardinality({q \in Reqs : Active(q)}) < MaxActive
Following(kind) == IF kind = "chat" THEN "append" ELSE "object"

\* The first one makes the conversation, and its answer names it.
StartNew(r) ==
  /\ IsNext(r) /\ r = 1
  /\ \E kind \in {"chat", "file"} : Begins(r, kind, Following(kind), NoSlice)
  /\ Put(NoSlice)
  /\ UNCHANGED <<storage, arrays, kb, objects, faults>>

Start(r) ==
  /\ IsNext(r) /\ r > 1
  /\ \E kind \in Kinds :
       /\ kind = "delete" => Cardinality({q \in Reqs : reqs[q].pc # "no" /\ reqs[q].kind = "delete"}) < MaxDeletes
       /\ Begins(r, kind, IF kind = "delete" THEN "drop" ELSE "find", NoSlice)
  /\ UNCHANGED <<storage, arrays, stored, rows, kb, objects, faults>>

FindConversation(r) ==
  /\ reqs[r].pc = "find"
  /\ \/ Exists /\ Find(r, Following(reqs[r].kind))
     \/ ~Exists /\ Goto(r, "failed") /\ UNCHANGED arrays
  /\ UNCHANGED <<storage, stored, rows, kb, objects, faults>>

\* Mutant: the question is kept before it is answered.
AppendAndPut(r) ==
  /\ reqs[r].pc = "append" /\ Appended(r, Message(r, 0))
  /\ LET s == reqs'[r].slice IN
     IF storage = "memory"
     THEN stored' = [exists |-> TRUE, slice |-> s] /\ UNCHANGED rows
     ELSE rows' = [rows EXCEPT !.messages = @ \cup {Message(r, 0)}] /\ UNCHANGED stored
  /\ UNCHANGED <<storage, kb, objects, faults>>

\* AppRun: the question, then the run, which fills in the answer.
AppendQuestion(r) ==
  /\ reqs[r].pc = "append" /\ Appended(r, Message(r, 0))
  /\ UNCHANGED <<storage, stored, rows, kb, objects, faults>>

RunApplication(r) ==
  /\ reqs[r].pc = "running"
  /\ LET s == reqs[r].slice IN
     \/ arrays' = [arrays EXCEPT ![s.array][s.len].answer = r] /\ Goto(r, "put") /\ UNCHANGED faults
     \/ Fault /\ Goto(r, "failed") /\ UNCHANGED arrays
  /\ UNCHANGED <<storage, stored, rows, kb, objects>>

\* ReceiveConversationFile: the object, the knowledge base, whose failure is only
\* logged, and the message.
PutObject(r) ==
  /\ reqs[r].pc = "object"
  /\ \/ objects' = objects \cup {r} /\ Goto(r, "kb") /\ UNCHANGED faults
     \/ Fault /\ Goto(r, "failed") /\ UNCHANGED objects
  /\ UNCHANGED <<storage, arrays, stored, rows, kb>>

BuildConversationKnowledgeBase(r) ==
  /\ reqs[r].pc = "kb" /\ Goto(r, "file")
  /\ \/ kb' = [exists |-> TRUE, files |-> kb.files \cup {r}] /\ UNCHANGED faults
     \/ Fault /\ UNCHANGED kb
  /\ UNCHANGED <<storage, arrays, stored, rows, objects>>

AppendFile(r) ==
  /\ reqs[r].pc = "file" /\ Appended(r, Message(r, r))
  /\ UNCHANGED <<storage, stored, rows, kb, objects, faults>>

UpdateConversation(r) ==
  /\ reqs[r].pc = "put"
  /\ \/ Put(reqs[r].slice) /\ Goto(r, "done") /\ UNCHANGED faults
     \/ storage = "postgres" /\ Fault /\ Goto(r, "failed") /\ UNCHANGED <<stored, rows>>
  /\ UNCHANGED <<storage, arrays, kb, objects>>

\* Mutant: the knowledge base is only looked for when there was a conversation.
DropConversationFirst(r) ==
  /\ reqs[r].pc = "drop"
  /\ \/ Drop /\ Goto(r, IF Exists THEN "unkb" ELSE "done") /\ UNCHANGED faults
     \/ storage = "postgres" /\ Fault /\ Goto(r, "failed") /\ UNCHANGED <<stored, rows>>
  /\ UNCHANGED <<storage, arrays, kb, objects>>

\* DeleteConversation: that there is none is no error.
DropConversation(r) ==
  /\ reqs[r].pc = "drop"
  /\ \/ Drop /\ Goto(r, "unkb") /\ UNCHANGED faults
     \/ storage = "postgres" /\ Fault /\ Goto(r, "failed") /\ UNCHANGED <<stored, rows>>
  /\ UNCHANGED <<storage, arrays, kb, objects>>

DeleteKnowledgeBase(r) ==
  /\ reqs[r].pc = "unkb"
  /\ \/ kb' = [exists |-> FALSE, files |-> {}] /\ Goto(r, "done") /\ UNCHANGED faults
     \/ Fault /\ Goto(r, "failed") /\ UNCHANGED kb
  /\ UNCHANGED <<storage, arrays, stored, rows, objects>>

-----------------------------------------------------------------------------
Init ==
  /\ storage \in {"memory", "postgres"}
  /\ arrays = [r \in Reqs |-> <<>>]
  /\ stored = [exists |-> FALSE, slice |-> NoSlice] /\ rows = [exists |-> FALSE, messages |-> {}]
  /\ kb = [exists |-> FALSE, files |-> {}] /\ objects = {}
  /\ reqs = [r \in Reqs |-> NoReq]
  /\ faults = 0

Request(r) ==
  \/ StartNew(r) \/ Start(r) \/ FindConversation(r)
  \/ AppendQuestion(r) \/ RunApplication(r)
  \/ PutObject(r) \/ BuildConversationKnowledgeBase(r) \/ AppendFile(r)
  \/ UpdateConversation(r)
  \/ DropConversation(r) \/ DeleteKnowledgeBase(r)

Next == \E r \in Reqs : Request(r)

Spec == Init /\ [][Next]_vars

-----------------------------------------------------------------------------
Pcs == {"no", "find", "append", "running", "put", "object", "kb", "file", "drop", "unkb", "done", "failed"}
Requests ==
  [pc : Pcs, kind : Kinds, slice : Slices, history : Seq(Messages), alone : BOOLEAN]

TypeOK ==
  /\ storage \in {"memory", "postgres"}
  /\ arrays \in [Reqs -> Seq(Messages)]
  /\ stored \in [exists : BOOLEAN, slice : Slices] /\ stored.slice.len <= Len(Array(stored.slice))
  /\ ~stored.exists => stored.slice = NoSlice
  /\ rows \in [exists : BOOLEAN, messages : SUBSET Messages] /\ IsFiniteSet(rows.messages)
  /\ kb \in [exists : BOOLEAN, files : SUBSET Reqs] /\ objects \subseteq Reqs
  /\ reqs \in [Reqs -> Requests] /\ \A r \in Reqs : reqs[r].slice.len <= Len(Array(reqs[r].slice))
  /\ faults \in 0..MaxFaults

Deleting == \E r \in Reqs : reqs[r].kind = "delete"

\* What a request was answered stays in the conversation with its own answer: in
\* Postgres whatever happens at the same time, in memory when the request was
\* alone, whoever overlaps or fails before it or after it.
Kept ==
  ~Deleting =>
    \A r \in Reqs :
      reqs[r].pc = "done" /\ (storage = "postgres" \/ reqs[r].alone) => Message(r, r) \in Current

\* The application hears of earlier messages with their own answers, each once,
\* in Postgres always, in memory as long as no two requests have overlapped.
Told ==
  storage = "postgres" \/ (\A r \in Reqs : reqs[r].pc # "no" => reqs[r].alone) =>
    \A r \in Reqs :
      LET h == reqs[r].history IN
      /\ \A i \in DOMAIN h : h[i].answer = h[i].by /\ h[i].by # r
      /\ \A i, j \in DOMAIN h : h[i] = h[j] => i = j
      /\ storage = "memory" => \A i \in 1..(Len(h) - 1) : h[i].by < h[i + 1].by

\* A conversation that was deleted while nothing else went on does not come back,
\* and neither does its knowledge base.
StaysDeleted ==
  \A r \in Reqs :
    reqs[r].kind = "delete" /\ reqs[r].pc = "done" /\ reqs[r].alone => ~Exists /\ ~kb.exists
=============================================================================
