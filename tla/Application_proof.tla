-------------------------- MODULE Application_proof --------------------------
(***************************************************************************)
(* Proofs about Application, for all forms and all nodes that users write: *)
(* type correctness; that a request's run implements NodeFlow, that is,    *)
(* that the queue keeps the order of the nodes; and, about the graph that  *)
(* each form is turned into, that the controller accepts it and that its   *)
(* nodes find their arguments written.                                     *)
(***************************************************************************)
EXTENDS Application, SequenceTheorems, FiniteSetTheorems, TLAPS

-----------------------------------------------------------------------------
(* The nodes of an application *)

LEMMA EntryType ==
  ASSUME NEW n \in Node, NEW k \in Kinds, NEW s \in Seq(Node)
  PROVE  Entry(n, k, s) \in Entries
BY DEF Entry, Entries

LEMMA NodeType ==
  /\ \A label \in Labels, i \in Nat : NodeAt(label, i) \in Node
  /\ \A label \in Labels : At(label) \in Node
BY DEF NodeAt, At, Node

LEMMA SourcesType ==
  ASSUME NEW o, o.kbs \in Nat
  PROVE  Sources(o) \in Seq(Entries)
<1>. DEFINE n == 2 * o.kbs
            base(k)      == Entry(NodeAt("knowledgebase", k), "knowledgebase", <<NodeAt("retriever", k)>>)
            retriever(k) == Entry(NodeAt("retriever", k), "kbretriever", <<At("merger")>>)
            entry(i) == IF i % 2 = 1 THEN base((i - 1) \div 2) ELSE retriever((i - 1) \div 2)
<1>1. n \in Nat
  OBVIOUS
<1>3. Sources(o) = [i \in 1..n |-> entry(i)]
  BY DEF Sources
<1>2. ASSUME NEW i \in 1..n
      PROVE  entry(i) \in Entries
  <2>1. (i - 1) \div 2 \in Nat
    BY <1>1
  <2>2. ASSUME NEW k \in Nat
        PROVE  base(k) \in Entries /\ retriever(k) \in Entries
    <3>1. NodeAt("knowledgebase", k) \in Node /\ NodeAt("retriever", k) \in Node /\ At("merger") \in Node
      BY <2>2, NodeType DEF Labels
    <3>2. <<NodeAt("retriever", k)>> \in Seq(Node) /\ <<At("merger")>> \in Seq(Node)
      BY <3>1
    <3>3. "knowledgebase" \in Kinds /\ "kbretriever" \in Kinds
      BY DEF Kinds
    <3>. QED BY <3>1, <3>2, <3>3, EntryType
  <2>. HIDE DEF base, retriever
  <2>. QED BY <2>1, <2>2
<1>. HIDE DEF n, entry
<1>4. [i \in 1..n |-> entry(i)] \in Seq(Entries)
  BY <1>1, <1>2, IsASeq
<1>. QED BY <1>3, <1>4

LEMMA RedefineNodesType ==
  ASSUME NEW o, o.kbs \in Nat
  PROVE  RedefineNodes(o) \in Seq(Entries)
<1>1. /\ At("Input") \in Node /\ At("prompt") \in Node /\ At("llm") \in Node /\ At("chain") \in Node
      /\ At("agent") \in Node /\ At("conversation") \in Node /\ At("convretriever") \in Node
      /\ At("merger") \in Node /\ At("multiquery") \in Node /\ At("rerank") \in Node
      /\ At("documentloader") \in Node /\ At("Output") \in Node
  BY NodeType DEF Labels
<1>. DEFINE next == IF o.rerank THEN At("rerank") ELSE At("chain")
<1>2. AfterMerger(o) \in Node /\ next \in Node
  BY <1>1 DEF AfterMerger
<1>3. AfterLLM(o) \in Seq(Node) /\ <<>> \in Seq(Node)
  <2>1. <<At("chain")>> \in Seq(Node) /\ <<At("agent")>> \in Seq(Node) /\ <<>> \in Seq(Node)
    BY <1>1
  <2>2. When(o.tools, <<At("agent")>>) \in Seq(Node)
    BY <2>1 DEF When
  <2>. QED BY <2>1, <2>2, ConcatProperties DEF AfterLLM
<1>4. \A n \in Node : <<n>> \in Seq(Node)
  OBVIOUS
<1>. HIDE DEF next
<1>. DEFINE
  toNode(label, kind, n) == Entry(At(label), kind, <<n>>)
<1>5. /\ toNode("Input", "input", At("prompt")) \in Entries
      /\ toNode("prompt", "prompt", At("chain")) \in Entries
      /\ Entry(At("llm"), "llm", AfterLLM(o)) \in Entries
      /\ Entry(At("Output"), "output", <<>>) \in Entries
  BY <1>1, <1>3, <1>4, EntryType DEF Kinds
<1>6. /\ toNode("conversation", "conversation", At("convretriever")) \in Entries
      /\ toNode("convretriever", "kbretriever", At("merger")) \in Entries
      /\ toNode("merger", "merger", AfterMerger(o)) \in Entries
      /\ toNode("multiquery", "multiquery", next) \in Entries
      /\ toNode("rerank", "rerank", At("chain")) \in Entries
  BY <1>1, <1>2, <1>4, EntryType DEF Kinds
<1>7. /\ toNode("chain", "qachain", At("Output")) \in Entries
      /\ toNode("chain", "llmchain", At("Output")) \in Entries
      /\ toNode("agent", "agent", At("chain")) \in Entries
      /\ toNode("documentloader", "documentloader", At("chain")) \in Entries
  BY <1>1, <1>4, EntryType DEF Kinds
<1>. DEFINE
  first == <<toNode("Input", "input", At("prompt")), toNode("prompt", "prompt", At("chain")),
             Entry(At("llm"), "llm", AfterLLM(o))>>
  files == When(o.upload, <<toNode("conversation", "conversation", At("convretriever")),
                            toNode("convretriever", "kbretriever", At("merger"))>>)
  merger  == <<toNode("merger", "merger", AfterMerger(o))>>
  multi   == When(o.multiquery, <<toNode("multiquery", "multiquery", next)>>)
  rerank  == When(o.rerank, <<toNode("rerank", "rerank", At("chain"))>>)
  qachain == <<toNode("chain", "qachain", At("Output"))>>
  chain   == <<toNode("chain", "llmchain", At("Output"))>>
  agent   == When(o.tools, <<toNode("agent", "agent", At("chain"))>>)
  loader  == When(o.upload, <<toNode("documentloader", "documentloader", At("chain"))>>)
  last    == <<Entry(At("Output"), "output", <<>>)>>
<1>8. RedefineNodes(o) =
         first \o (IF Retrieval(o) THEN Sources(o) \o files \o merger \o multi \o rerank \o qachain ELSE chain)
         \o agent \o loader \o last
  BY DEF RedefineNodes, next
<1>. HIDE DEF toNode
<1>9. first \in Seq(Entries) /\ last \in Seq(Entries)
  BY <1>5
<1>10. files \in Seq(Entries) /\ merger \in Seq(Entries)
  BY <1>6, EmptySeq DEF When
<1>11. multi \in Seq(Entries) /\ rerank \in Seq(Entries)
  BY <1>6, EmptySeq DEF When
<1>12. qachain \in Seq(Entries) /\ chain \in Seq(Entries)
  BY <1>7
<1>13. agent \in Seq(Entries) /\ loader \in Seq(Entries)
  BY <1>7, EmptySeq DEF When
<1>14. Sources(o) \in Seq(Entries)
  BY SourcesType
<1>. HIDE DEF first, files, merger, multi, rerank, qachain, chain, agent, loader, last
<1>15. \A s, t \in Seq(Entries) : s \o t \in Seq(Entries)
  BY ConcatProperties
<1>16. Sources(o) \o files \o merger \o multi \o rerank \o qachain \in Seq(Entries)
  BY <1>10, <1>11, <1>12, <1>14, <1>15
<1>. QED BY <1>8, <1>9, <1>12, <1>13, <1>15, <1>16

LEMMA NodesType == \A a \in Apps : Nodes[a] \in Seq(Entries)
<1>1. ASSUME NEW a \in Made
      PROVE  RedefineNodes(Forms[a]) \in Seq(Entries)
  <2>1. Forms[a].kbs \in Nat
    BY FormsAssumption
  <2>. QED BY <2>1, RedefineNodesType
<1>2. \A a \in DOMAIN HandMade : HandMade[a] \in Seq(Entries)
  BY HandMadeAssumption
<1>. QED BY <1>1, <1>2 DEF Nodes, Apps

LEMMA RangeType ==
  ASSUME NEW a \in Apps, NEW e \in Range(Nodes[a])
  PROVE  e \in Entries /\ e.name \in Node /\ e.kind \in Kinds /\ e.next \in Seq(Node)
<1>1. e \in Entries
  BY NodesType, RangeOfSeq
<1>. QED BY <1>1 DEF Entries

\* Each name is a node's, and there are finitely many.
LEMMA NamesType ==
  ASSUME NEW a \in Apps
  PROVE  Names(a) \subseteq Node /\ IsFiniteSet(Names(a))
<1>1. Names(a) \subseteq Node
  BY RangeType DEF Names
<1>. DEFINE seq  == Nodes[a]
            name == [i \in 1..Len(seq) |-> seq[i].name]
<1>2. seq \in Seq(Entries)
  BY NodesType
<1>3. Len(seq) \in Nat /\ DOMAIN seq = 1..Len(seq)
  BY <1>2, LenProperties
<1>4. name \in Surjection(1..Len(seq), Names(a))
  BY <1>3 DEF Names, Range, Surjection
<1>. HIDE DEF seq, name
<1>5. IsFiniteSet(1..Len(seq))
  BY <1>3, FS_Interval
<1>6. IsFiniteSet(Names(a))
  BY <1>4, <1>5, FS_Surjection
<1>. QED BY <1>1, <1>6

LEMMA OfType ==
  ASSUME NEW a \in Apps, NEW n \in Names(a)
  PROVE  /\ Of[a][n] \in Range(Nodes[a]) /\ Of[a][n].name = n
         /\ Kind(a, n) \in Kinds
         /\ Of[a][n].next \in Seq(Node)
<1>1. \E e \in Range(Nodes[a]) : e.name = n
  BY DEF Names
<1>2. Of[a][n] \in Range(Nodes[a]) /\ Of[a][n].name = n
  BY <1>1 DEF Of
<1>. QED BY <1>2, RangeType DEF Kind

LEMMA NextType ==
  ASSUME NEW a \in Resolved, NEW n \in Names(a)
  PROVE  a \in Apps /\ Of[a][n].next \in Seq(Names(a))
<1>1. a \in Apps /\ Pointed(a) \subseteq Names(a)
  BY DEF Resolved
<1>2. Of[a][n].next \in Seq(Node) /\ Of[a][n] \in Range(Nodes[a])
  BY <1>1, OfType
<1>3. Range(Of[a][n].next) \subseteq Names(a)
  BY <1>1, <1>2 DEF Pointed
<1>4. Of[a][n].next \in Seq(Range(Of[a][n].next))
  BY <1>2, SeqOfRange
<1>. QED BY <1>1, <1>3, <1>4, SeqMonotonic

LEMMA BeforeType ==
  ASSUME NEW a \in Apps
  PROVE  /\ DOMAIN Before[a] = Names(a)
         /\ \A n \in Names(a) : Before[a][n] \subseteq Names(a)
         /\ \A n \in Names(a) : \A m \in Before[a][n] : n \in Range(Of[a][m].next)
BY DEF Before

LEMMA InputType == \A a \in Apps : Input(a) \subseteq Names(a)
BY DEF Input, Names, Range

LEMMA OrdersType ==
  ASSUME NEW S, IsFiniteSet(S), NEW q \in Orders(S)
  PROVE  q \in Seq(S) /\ Range(q) = S
<1>1. Cardinality(S) \in Nat
  BY FS_CardinalityType
<1>2. q \in [1..Cardinality(S) -> S] /\ Range(q) = S
  BY DEF Orders
<1>. QED BY <1>1, <1>2

\* Every node that nothing points to starts.
LEMMA StartsType ==
  ASSUME NEW a \in Apps, NEW q \in Starts(a)
  PROVE  /\ q \in Seq(Names(a))
         /\ \A n \in Names(a) : Before[a][n] = {} => n \in Range(q)
<1>. DEFINE S == Input(a)
            T == {n \in Names(a) : Before[a][n] = {}} \ S
<1>1. Starts(a) = {x \o y : x \in Orders(S), y \in Orders(T)}
  BY DEF Starts
<1>2. S \subseteq Names(a) /\ T \subseteq Names(a)
  BY InputType
<1>3. IsFiniteSet(S) /\ IsFiniteSet(T)
  BY <1>2, NamesType, FS_Subset
<1>4. ASSUME NEW n \in Names(a), Before[a][n] = {}
      PROVE  n \in S \cup T
  BY <1>4
<1>. HIDE DEF S, T
<1>5. PICK i \in Orders(S), j \in Orders(T) : q = i \o j
  <2>1. q \in {x \o y : x \in Orders(S), y \in Orders(T)}
    BY <1>1
  <2>. QED BY <2>1
<1>6. /\ i \in Seq(S) /\ Range(i) = S
      /\ j \in Seq(T) /\ Range(j) = T
  BY <1>3, OrdersType
<1>7. i \in Seq(Names(a)) /\ j \in Seq(Names(a))
  BY <1>2, <1>6, SeqMonotonic
<1>8. i \o j \in Seq(Names(a)) /\ Range(i \o j) = S \cup T
  BY <1>6, <1>7, ConcatProperties, RangeConcatenation
<1>. QED BY <1>4, <1>5, <1>8

-----------------------------------------------------------------------------
(* What the nodes do with the arguments *)

Outcomes == {"ok", "missing", "failed", "silent", "phrase"}
Results  == [args : Args, outcome : Outcomes]

LEMMA OutcomeType ==
  ASSUME NEW d \in Args
  PROVE  /\ Ok(d) \in Results /\ Missing(d) \in Results /\ Fails(d) \in Results
         /\ Panics(d) \in Results /\ NoDocs(d) \in Results
<1>1. \A out \in Outcomes : [args |-> d, outcome |-> out] \in Results
  BY DEF Results
<1>. QED BY <1>1 DEF Ok, Missing, Fails, Panics, NoDocs, Outcomes

LEMMA RetrievedType ==
  ASSUME NEW d \in Args, NEW f \in BOOLEAN
  PROVE  Retrieved(d, f) \in Args
<1>1. <<f>> \in Seq(BOOLEAN)
  OBVIOUS
<1>2. Refs(f) \in {"absent", "empty", "some"}
  BY DEF Refs
<1>. QED BY <1>1, <1>2 DEF Retrieved, Args

LEMMA RetrieveType ==
  ASSUME NEW a \in Apps, NEW n \in Names(a), NEW d \in Args
  PROVE  Retrieve(a, n, d) \subseteq Results
<1>1. ASSUME NEW f \in BOOLEAN
      PROVE  [d EXCEPT !.retrievers = Append(@, f),
                       !.references = IF f THEN "some" ELSE IF @ = "some" THEN @ ELSE "empty"] \in Args
  <2>1. Append(d.retrievers, f) \in Seq(BOOLEAN)
    BY DEF Args
  <2>2. (IF f THEN "some" ELSE IF d.references = "some" THEN d.references ELSE "empty")
        \in {"absent", "empty", "some"}
    OBVIOUS
  <2>. QED BY <2>1, <2>2 DEF Args
<1>. QED BY <1>1, OutcomeType DEF Retrieve

LEMMA MergeType ==
  ASSUME NEW d \in Args
  PROVE  Merge(d) \subseteq Results
<1>. DEFINE some == TRUE \in Range(d.retrievers)
<1>0. some \in BOOLEAN
  OBVIOUS
<1>. HIDE DEF some
<1>1. Retrieved(d, some) \in Args
  BY <1>0, RetrievedType
<1>. QED BY <1>1, OutcomeType DEF Merge, some

LEMMA MultiQueryType ==
  ASSUME NEW d \in Args
  PROVE  MultiQuery(d) \subseteq Results
<1>1. CASE d.retrievers = <<>>
  BY <1>1, OutcomeType DEF MultiQuery
<1>2. CASE d.retrievers # <<>>
  <2>1. d.retrievers[1] \in BOOLEAN
    BY <1>2 DEF Args
  <2>2. \A f \in {FALSE, d.retrievers[1]} : Retrieved(d, f) \in Args
    BY <2>1, RetrievedType
  <2>. QED BY <1>2, <2>2, OutcomeType DEF MultiQuery
<1>. QED BY <1>1, <1>2

LEMMA RerankType ==
  ASSUME NEW d \in Args
  PROVE  Rerank(d) \subseteq Results
<1>1. [d EXCEPT !.retrievers = <<FALSE>>] \in Args
  <2>1. <<FALSE>> \in Seq(BOOLEAN)
    OBVIOUS
  <2>. QED BY <2>1 DEF Args
<1>2. ASSUME NEW f \in BOOLEAN
      PROVE  [d EXCEPT !.references = Refs(f),
                       !.retrievers = IF @ = <<>> THEN @ ELSE <<f /\ @[1]>>] \in Args
  <2>1. d.retrievers \in Seq(BOOLEAN) /\ Refs(f) \in {"absent", "empty", "some"}
    BY DEF Args, Refs
  <2>2. (f /\ d.retrievers[1]) \in BOOLEAN
    OBVIOUS
  <2>3. <<f /\ d.retrievers[1]>> \in Seq(BOOLEAN)
    BY <2>2
  <2>. QED BY <2>1, <2>3 DEF Args
<1>. QED BY <1>1, <1>2, OutcomeType DEF Rerank

LEMMA ChainType ==
  ASSUME NEW d \in Args, NEW k
  PROVE  Chain(k, d) \subseteq Results
<1>1. \A b \in BOOLEAN : [d EXCEPT !.answer = b] \in Args
  BY DEF Args
<1>2. Answers(d) \subseteq Results
  BY <1>1, OutcomeType DEF Answers
<1>. QED BY <1>2, OutcomeType DEF Chain

\* Whatever a node does, its arguments and its outcome are the ones the queue
\* knows of.
LEMMA RunOfType ==
  ASSUME NEW a \in Apps, NEW n \in Names(a), NEW d \in Args
  PROVE  RunOf(a, n, d) \subseteq Results
<1>1. /\ [d EXCEPT !.prompt = TRUE] \in Args /\ [d EXCEPT !.llm = TRUE] \in Args
      /\ \A b \in BOOLEAN : [d EXCEPT !.agent = b] \in Args
  BY DEF Args
<1>2. /\ {Ok([d EXCEPT !.prompt = TRUE])} \subseteq Results
      /\ {Ok([d EXCEPT !.llm = TRUE])} \subseteq Results
      /\ {Ok([d EXCEPT !.agent = b]) : b \in BOOLEAN} \subseteq Results
      /\ {Ok(d)} \subseteq Results /\ {Missing(d)} \subseteq Results /\ {Fails(d)} \subseteq Results
  BY <1>1, OutcomeType
<1>. QED BY <1>2, RetrieveType, MergeType, MultiQueryType, RerankType, ChainType DEF RunOf

-----------------------------------------------------------------------------
(* The inductive invariant: what a run holds *)

\* While a request runs, its queue holds nodes of its application, and among
\* them every node that could run now; without the last part the queue might be
\* empty before the nodes are through.
Queued ==
  run.pc = "running" =>
    /\ run.app \in Resolved
    /\ run.queue \in Seq(Names(run.app))
    /\ run.visited \subseteq Names(run.app)
    /\ \A n \in Names(run.app) \ run.visited :
         Before[run.app][n] \subseteq run.visited => n \in Range(run.queue)

IInv == TypeOK /\ Queued

LEMMA HeadTail ==
  ASSUME NEW S, NEW q \in Seq(S), q # <<>>
  PROVE  /\ Head(q) \in S /\ Tail(q) \in Seq(S)
         /\ Range(q) = {Head(q)} \cup Range(Tail(q))
<1>1. /\ Head(q) \in S /\ Tail(q) \in Seq(S) /\ Len(Tail(q)) = Len(q) - 1
      /\ \A i \in 1..Len(Tail(q)) : Tail(q)[i] = q[i + 1]
  BY HeadTailProperties
<1>2. Len(q) \in Nat \ {0} /\ q[1] = Head(q)
  BY EmptySeq
<1>3. Range(q) = {q[i] : i \in 1..Len(q)} /\ Range(Tail(q)) = {Tail(q)[i] : i \in 1..Len(Tail(q))}
  BY <1>1, RangeEquality
<1>4. ASSUME NEW i \in 1..Len(q)
      PROVE  q[i] \in {Head(q)} \cup Range(Tail(q))
  <2>1. CASE i = 1
    BY <1>2, <2>1
  <2>2. CASE i # 1
    <3>1. i - 1 \in 1..Len(Tail(q)) /\ Tail(q)[i - 1] = q[i]
      BY <1>1, <1>2, <2>2
    <3>. QED BY <1>3, <3>1
  <2>. QED BY <2>1, <2>2
<1>5. ASSUME NEW i \in 1..Len(Tail(q))
      PROVE  Tail(q)[i] \in Range(q)
  <2>1. i + 1 \in 1..Len(q) /\ Tail(q)[i] = q[i + 1]
    BY <1>1, <1>2
  <2>. QED BY <1>3, <2>1
<1>6. Head(q) \in Range(q)
  BY <1>2, <1>3
<1>. QED BY <1>1, <1>3, <1>4, <1>5, <1>6

LEMMA AppendType ==
  ASSUME NEW S, NEW q \in Seq(S), NEW e \in S
  PROVE  Append(q, e) \in Seq(S) /\ Range(Append(q, e)) = Range(q) \cup {e}
<1>1. Append(q, e) = q \o <<e>> /\ <<e>> \in Seq(S) /\ Range(<<e>>) = {e}
  BY DEF Range
<1>2. q \o <<e>> \in Seq(S)
  BY <1>1, ConcatProperties
<1>3. Range(q \o <<e>>) = Range(q) \cup Range(<<e>>)
  BY <1>1, RangeConcatenation
<1>. QED BY <1>1, <1>2, <1>3

\* A step of the run, by its three cases.
Front == Head(run.queue)
Wait ==
  /\ run.pc = "running" /\ run.queue # <<>>
  /\ Front \notin run.visited /\ Waits(run.app, Front, run.visited)
  /\ run' = [run EXCEPT !.queue = Append(Tail(run.queue), Front)]
Again ==
  /\ run.pc = "running" /\ run.queue # <<>>
  /\ Front \in run.visited
  /\ run' = [run EXCEPT !.queue = Tail(run.queue) \o Of[run.app][Front].next]
RunFront(r) ==
  /\ run.pc = "running" /\ run.queue # <<>>
  /\ Front \notin run.visited /\ ~Waits(run.app, Front, run.visited)
  /\ r.outcome = "ok" \/ (r.outcome = "phrase" /\ run.args.answer)
  /\ run' = [run EXCEPT !.queue = Tail(run.queue) \o Of[run.app][Front].next, !.args = r.args,
                        !.visited = @ \cup {Front}]
GiveUp(r) ==
  /\ run.pc = "running" /\ run.queue # <<>>
  /\ Front \notin run.visited /\ ~Waits(run.app, Front, run.visited)
  /\ r.outcome \notin {"ok"}
  /\ run' = [run EXCEPT !.pc = r.outcome, !.queue = <<>>]

LEMMA StepCases ==
  ASSUME Step
  PROVE  /\ UNCHANGED <<object, broken, pending, check, breaks, requests>>
         /\ \/ Wait \/ Again
            \/ \E r \in RunOf(run.app, Front, run.args) : RunFront(r) \/ GiveUp(r)
<1>1. CASE Front \notin run.visited /\ Waits(run.app, Front, run.visited)
  BY <1>1 DEF Step, Wait, Front
<1>2. CASE Front \in run.visited
  BY <1>2 DEF Step, Again, Front
<1>3. CASE Front \notin run.visited /\ ~Waits(run.app, Front, run.visited)
  <2>1. PICK r \in RunOf(run.app, Front, run.args) :
          run' = IF r.outcome = "ok" \/ (r.outcome = "phrase" /\ run.args.answer)
                 THEN [run EXCEPT !.queue = Tail(run.queue) \o Of[run.app][Front].next, !.args = r.args,
                                  !.visited = @ \cup {Front}]
                 ELSE [run EXCEPT !.pc = r.outcome, !.queue = <<>>]
    BY <1>3 DEF Step, Front
  <2>. QED BY <1>3, <2>1 DEF Step, RunFront, GiveUp
<1>. QED BY <1>1, <1>2, <1>3 DEF Step

LEMMA FrontType ==
  ASSUME IInv, run.pc = "running", run.queue # <<>>
  PROVE  /\ run.app \in Apps /\ run.app \in Resolved
         /\ Front \in Names(run.app) /\ Front \in Node
         /\ Tail(run.queue) \in Seq(Names(run.app))
         /\ Range(run.queue) = {Front} \cup Range(Tail(run.queue))
         /\ Of[run.app][Front].next \in Seq(Names(run.app))
<1>1. run.app \in Resolved /\ run.app \in Apps /\ run.queue \in Seq(Names(run.app))
  BY DEF IInv, Queued, Resolved
<1>2. /\ Front \in Names(run.app) /\ Tail(run.queue) \in Seq(Names(run.app))
      /\ Range(run.queue) = {Front} \cup Range(Tail(run.queue))
  BY <1>1, HeadTail DEF Front
<1>. QED BY <1>1, <1>2, NextType, NamesType

Runs == [pc : {"idle", "running", "answer", "no answer", "phrase", "missing", "failed", "silent"},
         app : Apps \cup {NoApp}, queue : Seq(Node), visited : SUBSET Node, args : Args]

LEMMA RunInit == NotRunning \in Runs
<1>1. NoArgs \in Args /\ <<>> \in Seq(Node)
  BY DEF NoArgs, Args
<1>. QED BY <1>1 DEF NotRunning, Runs

LEMMA NodeSeq == \A a \in Apps : Seq(Names(a)) \subseteq Seq(Node)
BY NamesType, SeqMonotonic

LEMMA WaitKeeps ==
  ASSUME IInv, Wait
  PROVE  run' \in Runs /\ Queued'
<1>. DEFINE q == Append(Tail(run.queue), Front)
<1>1. run \in Runs /\ run.pc = "running" /\ run.queue # <<>>
  BY DEF IInv, TypeOK, Runs, Wait
<1>2. q \in Seq(Names(run.app)) /\ Range(q) = Range(run.queue)
  <2>1. /\ Tail(run.queue) \in Seq(Names(run.app)) /\ Front \in Names(run.app)
        /\ Range(run.queue) = {Front} \cup Range(Tail(run.queue))
    BY <1>1, FrontType
  <2>2. q \in Seq(Names(run.app)) /\ Range(q) = Range(Tail(run.queue)) \cup {Front}
    BY <2>1, AppendType
  <2>. QED BY <2>1, <2>2
<1>3. q \in Seq(Node)
  BY <1>1, <1>2, FrontType, NodeSeq
<1>4. run' = [run EXCEPT !.queue = q]
  BY DEF Wait
<1>. HIDE DEF q
<1>5. run' \in Runs
  BY <1>1, <1>3, <1>4 DEF Runs
<1>6. /\ run'.pc = run.pc /\ run'.app = run.app /\ run'.visited = run.visited /\ run'.queue = q
  BY <1>1, <1>4 DEF Runs
<1>. QED BY <1>1, <1>2, <1>5, <1>6 DEF IInv, Queued

LEMMA AgainKeeps ==
  ASSUME IInv, Again
  PROVE  run' \in Runs /\ Queued'
<1>. DEFINE next == Of[run.app][Front].next
            q == Tail(run.queue) \o next
<1>1. run \in Runs /\ run.pc = "running" /\ run.queue # <<>> /\ Front \in run.visited
  BY DEF IInv, TypeOK, Runs, Again
<1>2. q \in Seq(Names(run.app)) /\ Range(q) = Range(Tail(run.queue)) \cup Range(next)
  BY <1>1, FrontType, ConcatProperties, RangeConcatenation
<1>3. q \in Seq(Node)
  BY <1>1, <1>2, FrontType, NodeSeq
<1>4. run' = [run EXCEPT !.queue = q]
  BY DEF Again
<1>5. Range(run.queue) = {Front} \cup Range(Tail(run.queue))
  BY <1>1, FrontType
<1>. HIDE DEF q, next
<1>6. run' \in Runs
  BY <1>1, <1>3, <1>4 DEF Runs
<1>7. /\ run'.pc = run.pc /\ run'.app = run.app /\ run'.visited = run.visited /\ run'.queue = q
  BY <1>1, <1>4 DEF Runs
<1>. QED BY <1>1, <1>2, <1>5, <1>6, <1>7 DEF IInv, Queued

\* The node that runs is no longer among those that could run; a node that now
\* could run comes right after it, and is queued.
LEMMA RunFrontKeeps ==
  ASSUME IInv, NEW r \in RunOf(run.app, Front, run.args), RunFront(r)
  PROVE  run' \in Runs /\ Queued'
<1>. DEFINE next == Of[run.app][Front].next
            q == Tail(run.queue) \o next
            visited == run.visited \cup {Front}
<1>1. run \in Runs /\ run.pc = "running" /\ run.queue # <<>>
  BY DEF IInv, TypeOK, Runs, RunFront
<1>2. q \in Seq(Names(run.app)) /\ Range(q) = Range(Tail(run.queue)) \cup Range(next)
  BY <1>1, FrontType, ConcatProperties, RangeConcatenation
<1>3. q \in Seq(Node)
  BY <1>1, <1>2, FrontType, NodeSeq
<1>4. r.args \in Args
  <2>1. run.args \in Args
    BY <1>1 DEF Runs
  <2>. QED BY <1>1, <2>1, FrontType, RunOfType DEF Results
<1>5. run' = [run EXCEPT !.queue = q, !.args = r.args, !.visited = visited]
  BY <1>1 DEF RunFront, Runs
<1>6. /\ Range(run.queue) = {Front} \cup Range(Tail(run.queue))
      /\ Front \in Names(run.app) /\ Front \in Node /\ run.app \in Apps
  BY <1>1, FrontType
<1>7. ASSUME NEW n \in Names(run.app) \ visited, Before[run.app][n] \subseteq visited
      PROVE  n \in Range(q)
  <2>1. CASE Before[run.app][n] \subseteq run.visited
    BY <1>1, <1>2, <1>6, <1>7, <2>1 DEF IInv, Queued
  <2>2. CASE Front \in Before[run.app][n]
    <3>1. n \in Range(next)
      BY <1>6, <1>7, <2>2, BeforeType
    <3>. QED BY <1>2, <3>1
  <2>. QED BY <1>7, <2>1, <2>2
<1>8. visited \subseteq Names(run.app) /\ visited \subseteq Node
  BY <1>1, <1>6, NamesType DEF IInv, Queued
<1>. HIDE DEF q, next, visited
<1>9. run' \in Runs
  BY <1>1, <1>3, <1>4, <1>5, <1>8 DEF Runs
<1>10. /\ run'.pc = run.pc /\ run'.app = run.app /\ run'.visited = visited /\ run'.queue = q
  BY <1>1, <1>5 DEF Runs
<1>. QED BY <1>1, <1>2, <1>7, <1>8, <1>9, <1>10 DEF IInv, Queued

LEMMA GiveUpKeeps ==
  ASSUME IInv, NEW r \in RunOf(run.app, Front, run.args), GiveUp(r)
  PROVE  /\ run' \in Runs /\ Queued'
         /\ run'.pc \in {"missing", "failed", "silent", "phrase"}
         /\ run'.app = run.app /\ run'.visited = run.visited
<1>1. run \in Runs /\ run.pc = "running" /\ run.queue # <<>> /\ run.args \in Args
  BY DEF IInv, TypeOK, Runs, GiveUp
<1>2. r.outcome \in {"missing", "failed", "silent", "phrase"}
  <2>1. r \in Results
    BY <1>1, FrontType, RunOfType
  <2>. QED BY <2>1 DEF GiveUp, Results, Outcomes
<1>3. run' = [run EXCEPT !.pc = r.outcome, !.queue = <<>>] /\ <<>> \in Seq(Node)
  BY DEF GiveUp
<1>. QED BY <1>1, <1>2, <1>3 DEF Runs, Queued

LEMMA BeginKeeps ==
  ASSUME IInv, Begin
  PROVE  /\ run' \in Runs /\ Queued'
         /\ run'.pc = "running" /\ run'.app = graph /\ run'.visited = {} /\ graph \in Resolved
<1>1. PICK q \in Starts(graph) :
        run' = [pc |-> "running", app |-> graph, queue |-> q, visited |-> {}, args |-> NoArgs]
  BY DEF Begin
<1>2. graph \in Apps /\ graph \in Resolved
  BY DEF IInv, TypeOK, Begin
<1>3. /\ q \in Seq(Names(graph)) /\ q \in Seq(Node)
      /\ \A n \in Names(graph) : Before[graph][n] = {} => n \in Range(q)
  BY <1>2, StartsType, NodeSeq
<1>4. NoArgs \in Args
  BY DEF NoArgs, Args
<1>5. run' \in Runs
  BY <1>1, <1>2, <1>3, <1>4 DEF Runs
<1>. QED BY <1>1, <1>2, <1>3, <1>5 DEF Queued

LEMMA EndKeeps ==
  ASSUME IInv, End
  PROVE  /\ run' \in Runs /\ Queued'
         /\ run'.pc \in {"answer", "no answer"} /\ run'.app = run.app /\ run'.visited = run.visited
<1>1. run \in Runs
  BY DEF IInv, TypeOK, Runs
<1>. QED BY <1>1 DEF End, Runs, Queued

-----------------------------------------------------------------------------
(* The theorems *)

\* The type invariant, but for the run.
Checks == [pc : {"idle", "patch", "looping"}, app : Apps \cup {NoApp}, gen : 0..(MaxEdits + 1),
           verdict : {"none", "ready", "error"}]
ObjectOK ==
  /\ graph \in Apps /\ gen \in 1..(MaxEdits + 1)
  /\ status \in Statuses /\ observed \in 0..(MaxEdits + 1)
RestOK ==
  /\ broken \subseteq Fallible /\ pending \in BOOLEAN /\ check \in Checks
  /\ breaks \in 0..MaxBreaks /\ requests \in 0..MaxRequests

LEMMA TypeParts == TypeOK <=> ObjectOK /\ RestOK /\ run \in Runs
BY DEF TypeOK, ObjectOK, RestOK, Runs, Checks

LEMMA InitIInv == Init => IInv
<1>. SUFFICES ASSUME Init
              PROVE  IInv
  OBVIOUS
<1>1. run \in Runs /\ run.pc = "idle"
  BY RunInit DEF Init, NotRunning
<1>2. MaxEdits \in Nat /\ MaxBreaks \in Nat /\ MaxRequests \in Nat
  BY BoundsAssumption
<1>3. ObjectOK
  BY <1>2 DEF Init, ObjectOK, Statuses
<1>4. check \in Checks
  BY <1>2 DEF Init, Checks, Idle
<1>5. RestOK
  BY <1>2, <1>4 DEF Init, RestOK
<1>. QED BY <1>1, <1>3, <1>5, TypeParts DEF IInv, Queued

\* Everything that is not a request leaves the run alone.
LEMMA OthersKeep ==
  ASSUME IInv, Controller \/ Edit \/ ObjectChanges
  PROVE  IInv'
<1>1. run' = run
  BY DEF Controller, Reconcile, PatchStatus, Edit, ObjectChanges
<1>2. Queued' /\ run' \in Runs
  BY <1>1, TypeParts DEF IInv, Queued
<1>3. ObjectOK /\ RestOK
  BY TypeParts DEF IInv
<1>4. MaxEdits \in Nat /\ MaxBreaks \in Nat /\ MaxRequests \in Nat
  BY BoundsAssumption
<1>5. ASSUME Reconcile
      PROVE  ObjectOK' /\ RestOK'
  <2>1. ObjectOK'
    BY <1>3, <1>4, <1>5 DEF ObjectOK, Reconcile, Statuses
  <2>2. check' \in Checks
    BY <1>3, <1>4, <1>5 DEF ObjectOK, Reconcile, Checks
  <2>3. RestOK'
    BY <1>3, <1>5, <2>2 DEF RestOK, Reconcile
  <2>. QED BY <2>1, <2>3
<1>6. ASSUME PatchStatus
      PROVE  ObjectOK' /\ RestOK'
  <2>1. ObjectOK'
    BY <1>3, <1>6 DEF ObjectOK, RestOK, PatchStatus, Statuses, Checks
  <2>2. check' \in Checks
    BY <1>4, <1>6 DEF PatchStatus, Checks, Idle
  <2>3. RestOK'
    BY <1>3, <1>6, <2>2 DEF RestOK, PatchStatus
  <2>. QED BY <2>1, <2>3
<1>7. ASSUME Edit
      PROVE  ObjectOK' /\ RestOK'
  BY <1>3, <1>4, <1>7 DEF ObjectOK, RestOK, Edit
<1>8. ASSUME ObjectChanges
      PROVE  ObjectOK' /\ RestOK'
  <2>1. ObjectOK' /\ breaks' \in 0..MaxBreaks
    BY <1>3, <1>4, <1>8 DEF ObjectOK, RestOK, ObjectChanges, object
  <2>2. broken' \subseteq Fallible /\ pending' \in BOOLEAN
    <3>1. PICK n \in Fallible :
            /\ broken' = IF n \in broken THEN broken \ {n} ELSE broken \cup {n}
            /\ pending' = (pending \/ Watched(n))
      BY <1>8 DEF ObjectChanges
    <3>2. broken' \subseteq Fallible
      BY <1>3, <3>1 DEF RestOK
    <3>3. pending' \in BOOLEAN
      BY <3>1
    <3>. QED BY <3>2, <3>3
  <2>. QED BY <1>3, <1>8, <2>1, <2>2 DEF RestOK, ObjectChanges
<1>9. ObjectOK' /\ RestOK'
  BY <1>5, <1>6, <1>7, <1>8 DEF Controller
<1>10. TypeOK'
  BY <1>2, <1>9 DEF TypeOK, ObjectOK, RestOK, Runs, Checks
<1>. QED BY <1>2, <1>10 DEF IInv

LEMMA RequestsKeep ==
  ASSUME IInv, Begin \/ Step \/ End
  PROVE  IInv'
<1>1. run' \in Runs /\ Queued'
  BY StepCases, WaitKeeps, AgainKeeps, RunFrontKeeps, GiveUpKeeps, BeginKeeps, EndKeeps
<1>2. UNCHANGED <<object, broken, pending, check, breaks>>
  BY StepCases DEF Begin, End
<1>3. requests' \in 0..MaxRequests
  <2>1. requests \in 0..MaxRequests /\ MaxRequests \in Nat
    BY TypeParts, BoundsAssumption DEF IInv, RestOK
  <2>2. requests' = requests \/ (requests < MaxRequests /\ requests' = requests + 1)
    BY StepCases DEF Begin, End
  <2>. QED BY <2>1, <2>2
<1>4. ObjectOK' /\ RestOK'
  BY <1>2, <1>3, TypeParts DEF IInv, ObjectOK, RestOK, object
<1>5. TypeOK'
  BY <1>1, <1>4 DEF TypeOK, ObjectOK, RestOK, Runs, Checks
<1>. QED BY <1>1, <1>5 DEF IInv

\* What a run holds is held in every reachable state: a node that could run is
\* never lost from the queue.
THEOREM Invariance == Spec => []IInv
<1>1. IInv /\ [Next]_vars => IInv'
  <2>1. ASSUME IInv, UNCHANGED vars
        PROVE  IInv'
    BY <2>1 DEF IInv, TypeOK, Queued, vars, object
  <2>. QED BY <2>1, OthersKeep, RequestsKeep DEF Next, Request
<1>. QED BY <1>1, InitIInv, PTL DEF Spec

\* Every variable keeps its type, in particular the arguments that the nodes of
\* a run hand on to each other through one map.
THEOREM TypeCorrect == Spec => []TypeOK
<1>1. IInv => TypeOK
  BY DEF IInv
<1>. QED BY <1>1, Invariance, PTL

-----------------------------------------------------------------------------
(* The refinement: each step of a run is a step of NodeFlow, or none *)

FlowOf == IF run.app = NoApp THEN NoApp ELSE Before[run.app]
StateOf ==
  CASE run.pc \in {"idle", "running"} -> run.pc
    [] run.pc \in {"answer", "no answer"} -> "complete"
    [] OTHER -> "broken off"

LEMMA RunningFlow ==
  ASSUME IInv, run.pc = "running"
  PROVE  /\ FlowOf = Before[run.app] /\ StateOf = "running"
         /\ DOMAIN FlowOf = Names(run.app)
         /\ run.app \in Apps /\ run.app \in Resolved
<1>1. run.app \in Apps /\ run.app \in Resolved
  BY DEF IInv, Queued, Resolved
<1>2. run.app # NoApp
  BY <1>1, BoundsAssumption
<1>. QED BY <1>1, <1>2, BeforeType DEF FlowOf, StateOf

\* Waiting, or coming back to a node that has run, is no step of the flow.
LEMMA QueueStutters ==
  ASSUME IInv, Wait \/ Again
  PROVE  UNCHANGED <<FlowOf, run.visited, StateOf>>
<1>1. run \in Runs
  BY DEF IInv, TypeOK, Runs
<1>. QED BY <1>1 DEF Wait, Again, Runs, FlowOf, StateOf

LEMMA RunFrontIsRunNode ==
  ASSUME IInv, NEW r \in RunOf(run.app, Front, run.args), RunFront(r)
  PROVE  Flow!RunNode
<1>1. run \in Runs /\ run.pc = "running" /\ run.queue # <<>>
  BY DEF IInv, TypeOK, Runs, RunFront
<1>2. run'.visited = run.visited \cup {Front} /\ run'.pc = "running" /\ run'.app = run.app
  BY <1>1 DEF RunFront, Runs
<1>3. /\ Front \in Names(run.app) \ run.visited
      /\ Before[run.app][Front] \subseteq run.visited
  BY <1>1, FrontType DEF RunFront, Waits
<1>4. /\ FlowOf = Before[run.app] /\ StateOf = "running" /\ DOMAIN FlowOf = Names(run.app)
      /\ FlowOf' = FlowOf /\ StateOf' = StateOf
  BY <1>1, <1>2, RunningFlow DEF FlowOf, StateOf
<1>5. Front \in {n \in DOMAIN FlowOf \ run.visited : FlowOf[n] \subseteq run.visited}
  BY <1>3, <1>4
<1>. QED BY <1>2, <1>4, <1>5 DEF Flow!RunNode, Flow!Runnable, FlowOf, StateOf

LEMMA EndIsComplete ==
  ASSUME IInv, End
  PROVE  Flow!Complete
<1>1. run.pc = "running" /\ run.queue = <<>>
  BY DEF End
<1>2. run'.pc \in {"answer", "no answer"} /\ run'.app = run.app /\ run'.visited = run.visited
  BY EndKeeps
<1>3. FlowOf = Before[run.app] /\ StateOf = "running" /\ DOMAIN FlowOf = Names(run.app)
  BY <1>1, RunningFlow
<1>4. FlowOf' = FlowOf /\ StateOf' = "complete"
  BY <1>2 DEF FlowOf, StateOf
<1>5. Range(run.queue) = {}
  BY <1>1 DEF Range
<1>6. {n \in DOMAIN FlowOf \ run.visited : FlowOf[n] \subseteq run.visited} = {}
  BY <1>1, <1>3, <1>5 DEF IInv, Queued
<1>. QED BY <1>2, <1>3, <1>4, <1>6 DEF Flow!Complete, Flow!Runnable, FlowOf, StateOf

LEMMA GiveUpIsBreakOff ==
  ASSUME IInv, NEW r \in RunOf(run.app, Front, run.args), GiveUp(r)
  PROVE  Flow!BreakOff
<1>1. run.pc = "running"
  BY DEF GiveUp
<1>2. /\ run'.pc \in {"missing", "failed", "silent", "phrase"}
      /\ run'.app = run.app /\ run'.visited = run.visited
  BY GiveUpKeeps
<1>3. StateOf = "running" /\ StateOf' = "broken off" /\ FlowOf' = FlowOf
  BY <1>1, <1>2 DEF FlowOf, StateOf
<1>. QED BY <1>2, <1>3 DEF Flow!BreakOff, FlowOf, StateOf

LEMMA BeginIsBegin ==
  ASSUME IInv, Begin
  PROVE  Flow!Begin
<1>1. /\ run'.pc = "running" /\ run'.app = graph /\ run'.visited = {} /\ graph \in Resolved
      /\ run.pc # "running"
  BY BeginKeeps DEF Begin
<1>2. graph \in Apps /\ graph # NoApp
  BY <1>1, BoundsAssumption DEF Resolved
<1>3. FlowOf' = Before[graph] /\ StateOf' = "running" /\ StateOf # "running"
  BY <1>1, <1>2 DEF FlowOf, StateOf, Before
<1>4. /\ DOMAIN Before[graph] \subseteq Node
      /\ \A n \in DOMAIN Before[graph] : Before[graph][n] \subseteq DOMAIN Before[graph]
  BY <1>2, BeforeType, NamesType
<1>5. Flow!IsFlow(FlowOf')
  BY <1>3, <1>4 DEF Flow!IsFlow
<1>. QED BY <1>1, <1>3, <1>5 DEF Flow!Begin, FlowOf, StateOf

\* A run of an application keeps the order of its nodes and ends when none is
\* left that can be run: the queue implements NodeFlow, for every application.
THEOREM KeepsOrder == Spec => InOrder
<1>1. Init => Flow!Init
  BY DEF Init, NotRunning, Flow!Init
<1>2. ASSUME IInv, [Next]_vars
      PROVE  [Flow!Next]_(Flow!vars)
  <2>1. CASE run' = run
    BY <2>1 DEF Flow!vars
  <2>2. CASE Step
    <3>1. CASE Wait \/ Again
      BY <1>2, <3>1, QueueStutters DEF Flow!vars, FlowOf, StateOf
    <3>2. CASE \E r \in RunOf(run.app, Front, run.args) : RunFront(r) \/ GiveUp(r)
      BY <1>2, <3>2, RunFrontIsRunNode, GiveUpIsBreakOff DEF Flow!Next
    <3>. QED BY <2>2, <3>1, <3>2, StepCases
  <2>3. CASE Begin
    BY <1>2, <2>3, BeginIsBegin DEF Flow!Next
  <2>4. CASE End
    BY <1>2, <2>4, EndIsComplete DEF Flow!Next
  <2>5. CASE Controller \/ Edit \/ ObjectChanges
    BY <2>1, <2>5 DEF Controller, Reconcile, PatchStatus, Edit, ObjectChanges
  <2>6. CASE UNCHANGED vars
    BY <2>1, <2>6 DEF vars
  <2>. QED BY <1>2, <2>2, <2>3, <2>4, <2>5, <2>6 DEF Next, Request
<1>. QED BY <1>1, <1>2, Invariance, PTL DEF Spec, InOrder, Flow!Spec

-----------------------------------------------------------------------------
(* The graph of a form, node by node *)

\* Which nodes the form o has, of which kind, and where each points to: the
\* graph that RedefineNodes lists as a sequence.
Bases(o) == 0..(o.kbs - 1)
NamesOf(o) ==
  {At("Input"), At("prompt"), At("llm"), At("chain"), At("Output")}
  \cup {n \in {At("agent")} : o.tools}
  \cup {n \in {At("documentloader"), At("conversation"), At("convretriever")} : o.upload}
  \cup {n \in {At("merger")} : Retrieval(o)}
  \cup {n \in {At("multiquery")} : Retrieval(o) /\ o.multiquery}
  \cup {n \in {At("rerank")} : Retrieval(o) /\ o.rerank}
  \cup {NodeAt("knowledgebase", k) : k \in Bases(o)} \cup {NodeAt("retriever", k) : k \in Bases(o)}

KindOf(o, n) ==
  CASE n[1] = "Input" -> "input"
    [] n[1] = "Output" -> "output"
    [] n[1] = "chain" -> IF Retrieval(o) THEN "qachain" ELSE "llmchain"
    [] n[1] \in {"retriever", "convretriever"} -> "kbretriever"
    [] OTHER -> n[1]

AfterMulti(o) == IF o.rerank THEN At("rerank") ELSE At("chain")
NextOf(o, n) ==
  CASE n[1] = "Input" -> <<At("prompt")>>
    [] n[1] = "llm" -> AfterLLM(o)
    [] n[1] = "knowledgebase" -> <<NodeAt("retriever", n[2])>>
    [] n[1] = "conversation" -> <<At("convretriever")>>
    [] n[1] \in {"retriever", "convretriever"} -> <<At("merger")>>
    [] n[1] = "merger" -> <<AfterMerger(o)>>
    [] n[1] = "multiquery" -> <<AfterMulti(o)>>
    [] n[1] \in {"prompt", "rerank", "agent", "documentloader"} -> <<At("chain")>>
    [] n[1] = "chain" -> <<At("Output")>>
    [] OTHER -> <<>>
EntryOf(o, n) == Entry(n, KindOf(o, n), NextOf(o, n))

\* A form, as FormsAssumption has it.
FormSet == [kbs : Nat, upload : BOOLEAN, multiquery : BOOLEAN, rerank : BOOLEAN, tools : BOOLEAN]

LEMMA FormType == \A a \in Made : Forms[a] \in FormSet
BY FormsAssumption DEF FormSet

LEMMA SourcesRange ==
  ASSUME NEW o \in FormSet
  PROVE  Range(Sources(o)) = {EntryOf(o, NodeAt("knowledgebase", k)) : k \in Bases(o)}
                               \cup {EntryOf(o, NodeAt("retriever", k)) : k \in Bases(o)}
<1>. DEFINE base(k)      == Entry(NodeAt("knowledgebase", k), "knowledgebase", <<NodeAt("retriever", k)>>)
            retriever(k) == Entry(NodeAt("retriever", k), "kbretriever", <<At("merger")>>)
<1>1. ASSUME NEW k \in Nat
      PROVE  /\ base(k) = EntryOf(o, NodeAt("knowledgebase", k))
             /\ retriever(k) = EntryOf(o, NodeAt("retriever", k))
  BY DEF EntryOf, KindOf, NextOf, NodeAt
<1>2. o.kbs \in Nat
  BY DEF FormSet
<1>3. Sources(o) = [i \in 1..(2 * o.kbs) |-> IF i % 2 = 1 THEN base((i - 1) \div 2) ELSE retriever((i - 1) \div 2)]
  BY DEF Sources
<1>. HIDE DEF base, retriever
<1>4. \A i \in 1..(2 * o.kbs) : (i - 1) \div 2 \in Bases(o)
  BY <1>2 DEF Bases
<1>5. \A k \in Bases(o) : /\ 2 * k + 1 \in 1..(2 * o.kbs) /\ (2 * k + 1) % 2 = 1 /\ ((2 * k + 1) - 1) \div 2 = k
                          /\ 2 * k + 2 \in 1..(2 * o.kbs) /\ (2 * k + 2) % 2 # 1 /\ ((2 * k + 2) - 1) \div 2 = k
  BY <1>2 DEF Bases
<1>6. \A k \in Bases(o) : Sources(o)[2 * k + 1] = base(k) /\ Sources(o)[2 * k + 2] = retriever(k)
  BY <1>3, <1>5
<1>7. \A i \in 1..(2 * o.kbs) :
        Sources(o)[i] \in {base(k) : k \in Bases(o)} \cup {retriever(k) : k \in Bases(o)}
  BY <1>3, <1>4
<1>8. DOMAIN Sources(o) = 1..(2 * o.kbs)
  BY <1>3
<1>9. \A k \in Bases(o) : base(k) \in Range(Sources(o)) /\ retriever(k) \in Range(Sources(o))
  BY <1>5, <1>6, <1>8 DEF Range
<1>10. Range(Sources(o)) = {base(k) : k \in Bases(o)} \cup {retriever(k) : k \in Bases(o)}
  BY <1>7, <1>8, <1>9 DEF Range
<1>11. \A k \in Bases(o) : /\ base(k) = EntryOf(o, NodeAt("knowledgebase", k))
                           /\ retriever(k) = EntryOf(o, NodeAt("retriever", k))
  BY <1>1 DEF Bases
<1>. QED BY <1>10, <1>11

LEMMA EntriesOf ==
  ASSUME NEW o \in FormSet
  PROVE  /\ EntryOf(o, At("Input")) = Entry(At("Input"), "input", <<At("prompt")>>)
         /\ EntryOf(o, At("prompt")) = Entry(At("prompt"), "prompt", <<At("chain")>>)
         /\ EntryOf(o, At("llm")) = Entry(At("llm"), "llm", AfterLLM(o))
         /\ EntryOf(o, At("conversation")) = Entry(At("conversation"), "conversation", <<At("convretriever")>>)
         /\ EntryOf(o, At("convretriever")) = Entry(At("convretriever"), "kbretriever", <<At("merger")>>)
         /\ EntryOf(o, At("merger")) = Entry(At("merger"), "merger", <<AfterMerger(o)>>)
         /\ EntryOf(o, At("multiquery")) = Entry(At("multiquery"), "multiquery", <<AfterMulti(o)>>)
         /\ EntryOf(o, At("rerank")) = Entry(At("rerank"), "rerank", <<At("chain")>>)
         /\ EntryOf(o, At("chain")) =
              Entry(At("chain"), IF Retrieval(o) THEN "qachain" ELSE "llmchain", <<At("Output")>>)
         /\ EntryOf(o, At("agent")) = Entry(At("agent"), "agent", <<At("chain")>>)
         /\ EntryOf(o, At("documentloader")) = Entry(At("documentloader"), "documentloader", <<At("chain")>>)
         /\ EntryOf(o, At("Output")) = Entry(At("Output"), "output", <<>>)
<1>1. \A l \in Labels : At(l)[1] = l
  BY DEF At, NodeAt
<1>2. \A l \in {"Input", "prompt", "llm", "conversation", "convretriever", "merger", "multiquery", "rerank", "chain",
                "agent", "documentloader", "Output"} : At(l)[1] = l
  BY <1>1 DEF Labels
<1>. QED BY <1>2 DEF EntryOf, KindOf, NextOf

\* RedefineNodes, with its entries as those of the graph.
One(o, label) == <<EntryOf(o, At(label))>>
Opening(o) == <<EntryOf(o, At("Input")), EntryOf(o, At("prompt")), EntryOf(o, At("llm"))>>
Uploaded(o) == <<EntryOf(o, At("conversation")), EntryOf(o, At("convretriever"))>>
ToMerger(o) == Sources(o) \o When(o.upload, Uploaded(o)) \o One(o, "merger")
UpToChain(o) == ToMerger(o) \o When(o.multiquery, One(o, "multiquery")) \o When(o.rerank, One(o, "rerank"))
Middle(o) == IF Retrieval(o) THEN UpToChain(o) \o One(o, "chain") ELSE One(o, "chain")
ButOutput(o) ==
  Opening(o) \o Middle(o) \o When(o.tools, One(o, "agent")) \o When(o.upload, One(o, "documentloader"))

LEMMA RedefineParts ==
  ASSUME NEW o \in FormSet
  PROVE  RedefineNodes(o) = ButOutput(o) \o One(o, "Output")
BY EntriesOf DEF RedefineNodes, ButOutput, Opening, Middle, UpToChain, ToMerger, Uploaded, One, AfterMulti

\* Labels of nodes that there is one of.
Single == Labels \ {"knowledgebase", "retriever"}

LEMMA EntryOfType ==
  ASSUME NEW o \in FormSet, NEW l \in Single
  PROVE  EntryOf(o, At(l)) \in Entries
<1>1. \A label \in Labels : At(label) \in Node
  BY NodeType
<1>2. \A n \in Node : <<n>> \in Seq(Node)
  OBVIOUS
<1>3. /\ At("Input") \in Node /\ At("prompt") \in Node /\ At("llm") \in Node /\ At("chain") \in Node
      /\ At("agent") \in Node /\ At("conversation") \in Node /\ At("convretriever") \in Node
      /\ At("merger") \in Node /\ At("multiquery") \in Node /\ At("rerank") \in Node
      /\ At("documentloader") \in Node /\ At("Output") \in Node
  BY <1>1 DEF Labels
<1>4. AfterLLM(o) \in Seq(Node) /\ <<>> \in Seq(Node)
  <2>1. <<At("chain")>> \in Seq(Node) /\ <<At("agent")>> \in Seq(Node) /\ <<>> \in Seq(Node)
    BY <1>3
  <2>2. When(o.tools, <<At("agent")>>) \in Seq(Node)
    BY <2>1 DEF When
  <2>. QED BY <2>1, <2>2, ConcatProperties DEF AfterLLM
<1>5. AfterMerger(o) \in Node /\ AfterMulti(o) \in Node
  BY <1>3 DEF AfterMerger, AfterMulti
<1>6. NextOf(o, At(l)) \in Seq(Node)
  <2>1. At(l)[1] = l
    BY DEF At, NodeAt
  <2>2. /\ <<At("prompt")>> \in Seq(Node) /\ <<At("convretriever")>> \in Seq(Node)
        /\ <<At("merger")>> \in Seq(Node) /\ <<AfterMerger(o)>> \in Seq(Node)
        /\ <<AfterMulti(o)>> \in Seq(Node) /\ <<At("chain")>> \in Seq(Node) /\ <<At("Output")>> \in Seq(Node)
    BY <1>2, <1>3, <1>5
  <2>. QED BY <1>4, <2>1, <2>2 DEF NextOf, Single
<1>7. KindOf(o, At(l)) \in Kinds
  <2>1. At(l)[1] = l
    BY DEF At, NodeAt
  <2>. QED BY <2>1 DEF KindOf, Kinds, Single, Labels
<1>8. At(l) \in Node
  BY <1>1 DEF Single
<1>. QED BY <1>6, <1>7, <1>8, EntryType DEF EntryOf

LEMMA OneType ==
  ASSUME NEW o \in FormSet, NEW l \in Single
  PROVE  One(o, l) \in Seq(Entries) /\ Range(One(o, l)) = {EntryOf(o, At(l))}
BY EntryOfType DEF One, Range

LEMMA WhenOne ==
  ASSUME NEW o \in FormSet, NEW l \in Single, NEW b \in BOOLEAN
  PROVE  /\ When(b, One(o, l)) \in Seq(Entries)
         /\ Range(When(b, One(o, l))) = {EntryOf(o, n) : n \in {n \in {At(l)} : b}}
<1>1. <<>> \in Seq(Entries) /\ Range(<<>>) = {}
  BY DEF Range
<1>. QED BY <1>1, OneType DEF When

LEMMA ConcatRange ==
  ASSUME NEW s \in Seq(Entries), NEW t \in Seq(Entries)
  PROVE  s \o t \in Seq(Entries) /\ Range(s \o t) = Range(s) \cup Range(t)
BY ConcatProperties, RangeConcatenation

\* The entries of the sequence are those of the graph.
LEMMA FormRange ==
  ASSUME NEW o \in FormSet
  PROVE  /\ ButOutput(o) \in Seq(Entries) /\ One(o, "Output") \in Seq(Entries)
         /\ RedefineNodes(o) \in Seq(Entries)
         /\ Opening(o) \in Seq(Entries) /\ Middle(o) \in Seq(Entries) /\ UpToChain(o) \in Seq(Entries)
         /\ Range(RedefineNodes(o)) = {EntryOf(o, n) : n \in NamesOf(o)}
<1>. DEFINE E(n) == EntryOf(o, n)
            Some(b, l) == {E(n) : n \in {n \in {At(l)} : b}}
            Based == {E(NodeAt("knowledgebase", k)) : k \in Bases(o)} \cup {E(NodeAt("retriever", k)) : k \in Bases(o)}
            Loaded == {E(n) : n \in {n \in {At("conversation"), At("convretriever")} : o.upload}}
<1>0. /\ o.upload \in BOOLEAN /\ o.multiquery \in BOOLEAN /\ o.rerank \in BOOLEAN /\ o.tools \in BOOLEAN
      /\ o.kbs \in Nat
  BY DEF FormSet
<1>1. /\ "Output" \in Single /\ "merger" \in Single /\ "multiquery" \in Single /\ "rerank" \in Single
      /\ "chain" \in Single /\ "agent" \in Single /\ "documentloader" \in Single
      /\ "Input" \in Single /\ "prompt" \in Single /\ "llm" \in Single
      /\ "conversation" \in Single /\ "convretriever" \in Single
  BY DEF Single, Labels
<1>2. Opening(o) \in Seq(Entries) /\ Range(Opening(o)) = {E(At("Input")), E(At("prompt")), E(At("llm"))}
  <2>1. E(At("Input")) \in Entries /\ E(At("prompt")) \in Entries /\ E(At("llm")) \in Entries
    BY <1>1, EntryOfType
  <2>. QED BY <2>1 DEF Opening, Range
<1>3. When(o.upload, Uploaded(o)) \in Seq(Entries) /\ Range(When(o.upload, Uploaded(o))) = Loaded
  <2>1. E(At("conversation")) \in Entries /\ E(At("convretriever")) \in Entries
    BY <1>1, EntryOfType
  <2>2. Uploaded(o) \in Seq(Entries) /\ Range(Uploaded(o)) = {E(At("conversation")), E(At("convretriever"))}
    BY <2>1 DEF Uploaded, Range
  <2>3. <<>> \in Seq(Entries) /\ Range(<<>>) = {}
    BY DEF Range
  <2>. QED BY <2>2, <2>3 DEF When
<1>4. Sources(o) \in Seq(Entries) /\ Range(Sources(o)) = Based
  BY <1>0, SourcesType, SourcesRange
<1>5. ToMerger(o) \in Seq(Entries) /\ Range(ToMerger(o)) = Based \cup Loaded \cup {E(At("merger"))}
  <2>1. One(o, "merger") \in Seq(Entries) /\ Range(One(o, "merger")) = {E(At("merger"))}
    BY <1>1, OneType
  <2>2. /\ Sources(o) \o When(o.upload, Uploaded(o)) \in Seq(Entries)
        /\ Range(Sources(o) \o When(o.upload, Uploaded(o))) = Based \cup Loaded
    BY <1>3, <1>4, ConcatRange
  <2>. QED BY <2>1, <2>2, ConcatRange DEF ToMerger
<1>6. /\ When(o.multiquery, One(o, "multiquery")) \in Seq(Entries)
      /\ Range(When(o.multiquery, One(o, "multiquery"))) = Some(o.multiquery, "multiquery")
      /\ When(o.rerank, One(o, "rerank")) \in Seq(Entries)
      /\ Range(When(o.rerank, One(o, "rerank"))) = Some(o.rerank, "rerank")
      /\ When(o.tools, One(o, "agent")) \in Seq(Entries)
      /\ Range(When(o.tools, One(o, "agent"))) = Some(o.tools, "agent")
      /\ When(o.upload, One(o, "documentloader")) \in Seq(Entries)
      /\ Range(When(o.upload, One(o, "documentloader"))) = Some(o.upload, "documentloader")
  BY <1>0, <1>1, WhenOne
<1>7. /\ One(o, "chain") \in Seq(Entries) /\ Range(One(o, "chain")) = {E(At("chain"))}
      /\ One(o, "Output") \in Seq(Entries) /\ Range(One(o, "Output")) = {E(At("Output"))}
  BY <1>1, OneType
<1>. DEFINE Mid == IF Retrieval(o)
                   THEN Based \cup Loaded \cup {E(At("merger"))} \cup Some(o.multiquery, "multiquery")
                        \cup Some(o.rerank, "rerank") \cup {E(At("chain"))}
                   ELSE {E(At("chain"))}
<1>. HIDE DEF E, Some, Based, Loaded
<1>8. /\ UpToChain(o) \in Seq(Entries)
      /\ Range(UpToChain(o)) = Based \cup Loaded \cup {E(At("merger"))} \cup Some(o.multiquery, "multiquery")
                              \cup Some(o.rerank, "rerank")
  <2>1. /\ ToMerger(o) \o When(o.multiquery, One(o, "multiquery")) \in Seq(Entries)
        /\ Range(ToMerger(o) \o When(o.multiquery, One(o, "multiquery")))
            = Based \cup Loaded \cup {E(At("merger"))} \cup Some(o.multiquery, "multiquery")
    BY <1>5, <1>6, ConcatRange
  <2>. QED BY <1>6, <2>1, ConcatRange DEF UpToChain
<1>12. Middle(o) \in Seq(Entries) /\ Range(Middle(o)) = Mid
  <2>1. CASE Retrieval(o)
    BY <1>7, <1>8, <2>1, ConcatRange DEF Middle
  <2>2. CASE ~Retrieval(o)
    BY <1>7, <2>2 DEF Middle
  <2>. QED BY <2>1, <2>2
<1>. HIDE DEF Mid
<1>9. /\ ButOutput(o) \in Seq(Entries)
      /\ Range(ButOutput(o)) = {E(At("Input")), E(At("prompt")), E(At("llm"))} \cup Mid
                                 \cup Some(o.tools, "agent") \cup Some(o.upload, "documentloader")
  <2>1. /\ Opening(o) \o Middle(o) \in Seq(Entries)
        /\ Range(Opening(o) \o Middle(o)) = {E(At("Input")), E(At("prompt")), E(At("llm"))} \cup Mid
    BY <1>2, <1>12, ConcatRange
  <2>2. /\ Opening(o) \o Middle(o) \o When(o.tools, One(o, "agent")) \in Seq(Entries)
        /\ Range(Opening(o) \o Middle(o) \o When(o.tools, One(o, "agent")))
            = {E(At("Input")), E(At("prompt")), E(At("llm"))} \cup Mid \cup Some(o.tools, "agent")
    BY <1>6, <2>1, ConcatRange
  <2>. QED BY <1>6, <2>2, ConcatRange DEF ButOutput
<1>10. /\ RedefineNodes(o) \in Seq(Entries)
       /\ Range(RedefineNodes(o)) = {E(At("Input")), E(At("prompt")), E(At("llm"))} \cup Mid
            \cup Some(o.tools, "agent") \cup Some(o.upload, "documentloader") \cup {E(At("Output"))}
  BY <1>7, <1>9, ConcatRange, RedefineParts
<1>11. {E(n) : n \in NamesOf(o)} =
         {E(At("Input")), E(At("prompt")), E(At("llm"))} \cup Mid
            \cup Some(o.tools, "agent") \cup Some(o.upload, "documentloader") \cup {E(At("Output"))}
  <2>1. CASE Retrieval(o)
    BY <2>1 DEF NamesOf, Mid, Some, Based, Loaded
  <2>2. CASE ~Retrieval(o)
    <3>1. o.kbs = 0 /\ ~o.upload
      BY <1>0, <2>2 DEF Retrieval
    <3>2. Bases(o) = {}
      BY <3>1 DEF Bases
    <3>. QED BY <2>2, <3>1, <3>2 DEF NamesOf, Mid, Some
  <2>. QED BY <2>1, <2>2
<1>. QED BY <1>2, <1>7, <1>8, <1>9, <1>10, <1>11, <1>12 DEF E

-----------------------------------------------------------------------------
(* The arrows of a form's graph *)

\* The arrows of the graph, one by one.
Arrow(o, n, x) ==
  \/ n = At("Input") /\ x = At("prompt")
  \/ n \in {At("prompt"), At("llm"), At("rerank"), At("agent"), At("documentloader")} /\ x = At("chain")
  \/ n = At("llm") /\ o.tools /\ x = At("agent")
  \/ \E k \in Bases(o) : n = NodeAt("knowledgebase", k) /\ x = NodeAt("retriever", k)
  \/ n = At("conversation") /\ x = At("convretriever")
  \/ (n = At("convretriever") \/ \E k \in Bases(o) : n = NodeAt("retriever", k)) /\ x = At("merger")
  \/ n = At("merger") /\ x = AfterMerger(o)
  \/ n = At("multiquery") /\ x = AfterMulti(o)
  \/ n = At("chain") /\ x = At("Output")

LEMMA NextRange ==
  ASSUME NEW o \in FormSet, NEW n \in NamesOf(o), NEW x
  PROVE  x \in Range(NextOf(o, n)) <=> Arrow(o, n, x)
<1>1. \A y : Range(<<y>>) = {y}
  BY DEF Range
<1>2. Range(<<>>) = {}
  BY DEF Range
<1>3. Range(AfterLLM(o)) = {At("chain")} \cup {m \in {At("agent")} : o.tools}
  <2>. DEFINE S == {At("chain"), At("agent")}
              head == <<At("chain")>>
              tail == When(o.tools, <<At("agent")>>)
  <2>1. head \in Seq(S) /\ <<>> \in Seq(S) /\ <<At("agent")>> \in Seq(S)
    OBVIOUS
  <2>2. tail \in Seq(S) /\ Range(tail) = {m \in {At("agent")} : o.tools}
    BY <1>1, <1>2, <2>1 DEF When
  <2>3. Range(head) = {At("chain")}
    BY <1>1
  <2>. HIDE DEF S, head, tail
  <2>4. Range(head \o tail) = Range(head) \cup Range(tail)
    BY <2>1, <2>2, RangeConcatenation
  <2>. QED BY <2>2, <2>3, <2>4 DEF AfterLLM, head, tail
<1>4. n \in {At(l) : l \in Single} \cup {NodeAt("knowledgebase", k) : k \in Bases(o)}
            \cup {NodeAt("retriever", k) : k \in Bases(o)}
  BY DEF NamesOf, Single, Labels
<1>. USE DEF Arrow
<1>5. CASE n \in {NodeAt("knowledgebase", k) : k \in Bases(o)}
  <2>1. PICK k \in Bases(o) : n = NodeAt("knowledgebase", k)
    BY <1>5
  <2>2. n[1] = "knowledgebase" /\ n[2] = k
    BY <2>1 DEF NodeAt
  <2>3. Range(NextOf(o, n)) = {NodeAt("retriever", k)}
    BY <1>1, <2>2 DEF NextOf
  <2>. QED BY <2>1, <2>2, <2>3 DEF NodeAt, At
<1>6. CASE n \in {NodeAt("retriever", k) : k \in Bases(o)}
  <2>1. PICK k \in Bases(o) : n = NodeAt("retriever", k)
    BY <1>6
  <2>2. n[1] = "retriever" /\ n[2] = k
    BY <2>1 DEF NodeAt
  <2>3. Range(NextOf(o, n)) = {At("merger")}
    BY <1>1, <2>2 DEF NextOf
  <2>. QED BY <2>1, <2>2, <2>3 DEF NodeAt, At
<1>7. CASE n \in {At(l) : l \in Single}
  <2>1. PICK l \in Single : n = At(l)
    BY <1>7
  <2>2. n[1] = l
    BY <2>1 DEF At, NodeAt
  <2>3. l \in {"Input", "Output", "prompt", "llm", "chain", "agent", "documentloader", "conversation",
               "convretriever", "merger", "multiquery", "rerank"}
    BY DEF Single, Labels
  <2>4. \A m : n = At(m) <=> l = m
    BY <2>1 DEF At, NodeAt
  <2>5. \A m, k : n = NodeAt(m, k) => l = m
    BY <2>1 DEF At, NodeAt
  <2>6. \A k : n # NodeAt("knowledgebase", k) /\ n # NodeAt("retriever", k)
    BY <2>5 DEF Single
  <2>7. CASE l \in {"Input", "prompt", "rerank", "agent", "documentloader", "chain", "Output"}
    BY <1>1, <1>2, <2>2, <2>4, <2>6, <2>7 DEF NextOf
  <2>8. CASE l = "llm"
    BY <1>3, <2>2, <2>4, <2>6, <2>8 DEF NextOf
  <2>9. CASE l \in {"conversation", "convretriever", "merger", "multiquery"}
    BY <1>1, <2>2, <2>4, <2>6, <2>9 DEF NextOf
  <2>. QED BY <2>3, <2>7, <2>8, <2>9
<1>. QED BY <1>4, <1>5, <1>6, <1>7

\* How far a node is from the start, by its label.
Rank(n) ==
  CASE n[1] \in {"Input", "llm", "knowledgebase", "conversation", "documentloader"} -> 0
    [] n[1] \in {"prompt", "agent", "retriever", "convretriever"} -> 1
    [] n[1] = "merger" -> 2
    [] n[1] = "multiquery" -> 3
    [] n[1] = "rerank" -> 4
    [] n[1] = "chain" -> 5
    [] OTHER -> 6

\* Every arrow goes up, and ends at a node of the form.
LEMMA ArrowsRise ==
  ASSUME NEW o \in FormSet, NEW n \in NamesOf(o), NEW x, Arrow(o, n, x)
  PROVE  x \in NamesOf(o) /\ Rank(n) < Rank(x)
<1>1. /\ \A l : At(l)[1] = l
      /\ \A l, k : NodeAt(l, k)[1] = l
  BY DEF At, NodeAt
<1>2. \A l, m : At(l) = At(m) => l = m
  BY <1>1
<1>3. \A l, m, k : At(l) = NodeAt(m, k) => l = m
  BY <1>1
<1>4. o.upload \/ (\E k : k \in Bases(o)) => Retrieval(o)
  BY DEF Retrieval, Bases, FormSet
<1>5. x \in NamesOf(o)
  <2>1. CASE n = At("merger") /\ x = AfterMerger(o)
    <3>1. Retrieval(o)
      BY <1>2, <1>3, <2>1 DEF NamesOf
    <3>. QED BY <2>1, <3>1 DEF AfterMerger, NamesOf
  <2>2. CASE n = At("multiquery") /\ x = AfterMulti(o)
    <3>1. Retrieval(o)
      BY <1>2, <1>3, <2>2 DEF NamesOf
    <3>. QED BY <2>2, <3>1 DEF AfterMulti, NamesOf
  <2>3. CASE n = At("conversation") /\ x = At("convretriever")
    <3>1. o.upload
      BY <1>2, <1>3, <2>3 DEF NamesOf
    <3>. QED BY <2>3, <3>1 DEF NamesOf
  <2>4. CASE (n = At("convretriever") \/ \E k \in Bases(o) : n = NodeAt("retriever", k)) /\ x = At("merger")
    <3>1. Retrieval(o)
      BY <1>2, <1>3, <1>4, <2>4 DEF NamesOf
    <3>. QED BY <2>4, <3>1 DEF NamesOf
  <2>. QED BY <2>1, <2>2, <2>3, <2>4 DEF Arrow, NamesOf
<1>6. Rank(n) < Rank(x)
  BY <1>1 DEF Arrow, Rank, AfterMerger, AfterMulti
<1>. QED BY <1>5, <1>6

\* The runtime's graph for the form of an application is the one above.
LEMMA FormGraph ==
  ASSUME NEW a \in Made
  PROVE  /\ Forms[a] \in FormSet /\ a \in Apps
         /\ Nodes[a] = RedefineNodes(Forms[a])
         /\ Names(a) = NamesOf(Forms[a])
         /\ Range(Nodes[a]) = {EntryOf(Forms[a], n) : n \in Names(a)}
         /\ \A n \in Names(a) : Of[a][n] = EntryOf(Forms[a], n)
         /\ \A n \in Names(a) : Kind(a, n) = KindOf(Forms[a], n)
         /\ \A n \in Names(a) : Before[a][n] = {m \in Names(a) : Arrow(Forms[a], m, n)}
<1>. DEFINE o == Forms[a]
<1>1. o \in FormSet /\ a \in Apps
  BY FormType DEF Apps
<1>2. Nodes[a] = RedefineNodes(o)
  BY <1>1 DEF Nodes
<1>3. Range(Nodes[a]) = {EntryOf(o, n) : n \in NamesOf(o)}
  BY <1>1, <1>2, FormRange
<1>4. \A n : /\ EntryOf(o, n).name = n /\ EntryOf(o, n).kind = KindOf(o, n) /\ EntryOf(o, n).next = NextOf(o, n)
  BY DEF EntryOf, Entry
<1>. HIDE DEF o
<1>5. Names(a) = NamesOf(o)
  BY <1>3, <1>4 DEF Names
<1>6. ASSUME NEW n \in Names(a)
      PROVE  Of[a][n] = EntryOf(o, n)
  <2>1. Of[a][n] \in Range(Nodes[a]) /\ Of[a][n].name = n
    BY <1>1, OfType
  <2>. QED BY <1>3, <1>4, <2>1
<1>7. \A n \in Names(a) : Kind(a, n) = KindOf(o, n)
  BY <1>4, <1>6 DEF Kind
<1>8. ASSUME NEW n \in Names(a)
      PROVE  Before[a][n] = {m \in Names(a) : Arrow(o, m, n)}
  <2>1. Before[a][n] = {m \in Names(a) : n \in Range(Of[a][m].next)}
    BY <1>1 DEF Before
  <2>2. \A m \in Names(a) : n \in Range(Of[a][m].next) <=> Arrow(o, m, n)
    BY <1>1, <1>4, <1>5, <1>6, NextRange
  <2>. QED BY <2>1, <2>2
<1>. QED BY <1>1, <1>2, <1>3, <1>5, <1>6, <1>7, <1>8 DEF o

-----------------------------------------------------------------------------
(* What the runtime and the walk ask of the nodes *)

\* A name that is pointed to is a node's.
LEMMA FormResolved == \A a \in Made : a \in Resolved
<1>. SUFFICES ASSUME NEW a \in Made
              PROVE  a \in Resolved
  OBVIOUS
<1>1. ASSUME NEW e \in Range(Nodes[a]), NEW x \in Range(e.next)
      PROVE  x \in Names(a)
  <2>1. PICK n \in Names(a) : e = EntryOf(Forms[a], n)
    BY FormGraph
  <2>2. e.next = NextOf(Forms[a], n)
    BY <2>1 DEF EntryOf, Entry
  <2>. QED BY <1>1, <2>2, FormGraph, NextRange, ArrowsRise
<1>. QED BY <1>1, FormGraph DEF Resolved, Pointed

LEMMA FormBefore ==
  ASSUME NEW a \in Made, NEW n \in Names(a), NEW m \in Before[a][n]
  PROVE  m \in Names(a) /\ Arrow(Forms[a], m, n) /\ Rank(m) < Rank(n)
BY FormGraph, ArrowsRise

LEMMA RankType == \A n : Rank(n) \in 0..6
BY DEF Rank

\* No node is on a circle: of those of a circle one would have the lowest rank.
LEMMA FormHasNoCircle == \A a \in Made : StuckIn(a) = {} /\ a \notin Looping
<1>. SUFFICES ASSUME NEW a \in Made
              PROVE  StuckIn(a) = {} /\ a \notin Looping
  OBVIOUS
<1>1. ASSUME NEW S \in SUBSET Names(a), \A n \in S : Before[a][n] \cap S # {}
      PROVE  S = {}
  <2>1. \A n \in S : \E m \in S : Rank(m) < Rank(n)
    BY <1>1, FormBefore
  <2>2. \A n \in S : Rank(n) \notin {0}
    BY <2>1, RankType
  <2>3. \A n \in S : Rank(n) \notin 0..1
    BY <2>1, <2>2, RankType
  <2>4. \A n \in S : Rank(n) \notin 0..2
    BY <2>1, <2>3, RankType
  <2>5. \A n \in S : Rank(n) \notin 0..3
    BY <2>1, <2>4, RankType
  <2>6. \A n \in S : Rank(n) \notin 0..4
    BY <2>1, <2>5, RankType
  <2>7. \A n \in S : Rank(n) \notin 0..5
    BY <2>1, <2>6, RankType
  <2>8. \A n \in S : Rank(n) \notin 0..6
    BY <2>1, <2>7, RankType
  <2>. QED BY <2>8, RankType
<1>2. StuckIn(a) = {}
  BY <1>1 DEF StuckIn
<1>3. ASSUME a \in Looping
      PROVE  FALSE
  <2>1. \E n \in StuckIn(a) : n \in Input(a) \/ Before[a][n] \ StuckIn(a) # {}
    BY <1>3 DEF Looping
  <2>. QED BY <1>2, <2>1
<1>. QED BY <1>2, <1>3

\* What every form has, and what stands and falls with a switch.
LEMMA FormNames ==
  ASSUME NEW o \in FormSet
  PROVE  /\ {At("Input"), At("prompt"), At("llm"), At("chain"), At("Output")} \subseteq NamesOf(o)
         /\ At("agent") \in NamesOf(o) <=> o.tools
         /\ At("conversation") \in NamesOf(o) <=> o.upload
         /\ At("merger") \in NamesOf(o) <=> Retrieval(o)
         /\ At("multiquery") \in NamesOf(o) <=> Retrieval(o) /\ o.multiquery
         /\ At("rerank") \in NamesOf(o) <=> Retrieval(o) /\ o.rerank
         /\ \A k : NodeAt("knowledgebase", k) \in NamesOf(o) <=> k \in Bases(o)
         /\ \A k : NodeAt("retriever", k) \in NamesOf(o) <=> k \in Bases(o)
         /\ \A n \in NamesOf(o) : n[1] = "Output" <=> n = At("Output")
         /\ \A n \in NamesOf(o) : n[1] = "Input" <=> n = At("Input")
         /\ \A n \in NamesOf(o) : n[1] \in Labels
<1>1. /\ \A l : At(l)[1] = l
      /\ \A l, k : NodeAt(l, k)[1] = l /\ NodeAt(l, k)[2] = k
  BY DEF At, NodeAt
<1>2. \A l, m : At(l) = At(m) => l = m
  BY <1>1
<1>3. \A l, m, k : At(l) = NodeAt(m, k) => l = m
  BY <1>1
<1>4. \A l, m, k, j : NodeAt(l, j) = NodeAt(m, k) => l = m /\ j = k
  BY <1>1
<1>. QED BY <1>1, <1>2, <1>3, <1>4 DEF NamesOf, Labels

\* A retriever comes after a knowledge base, or the placeholder of a
\* conversation's; the multi query and the reranker come after a retriever.
LEMMA FormPlaced ==
  ASSUME NEW a \in Made, NEW n \in Names(a)
  PROVE  Placed(a, n)
<1>. DEFINE o == Forms[a]
<1>1. o \in FormSet /\ Names(a) = NamesOf(o)
  BY FormGraph
<1>2. \A m \in Names(a) : Kind(a, m) = KindOf(o, m)
  BY FormGraph
<1>3. \A m \in Names(a) : Arrow(o, m, n) => m \in Before[a][n]
  BY FormGraph
<1>4. /\ \A l : At(l)[1] = l
      /\ \A l, k : NodeAt(l, k)[1] = l
  BY DEF At, NodeAt
<1>. HIDE DEF o
<1>5. CASE Kind(a, n) = "kbretriever"
  <2>1. n[1] \in {"retriever", "convretriever"}
    BY <1>1, <1>2, <1>5, FormNames DEF KindOf, Labels
  <2>2. CASE \E k \in Bases(o) : n = NodeAt("retriever", k)
    <3>1. PICK k \in Bases(o) : n = NodeAt("retriever", k)
      BY <2>2
    <3>2. NodeAt("knowledgebase", k) \in Names(a)
      BY <1>1, FormNames
    <3>3. NodeAt("knowledgebase", k) \in Before[a][n]
      BY <1>3, <3>1, <3>2 DEF Arrow
    <3>4. Kind(a, NodeAt("knowledgebase", k)) = "knowledgebase"
      BY <1>2, <1>4, <3>2 DEF KindOf
    <3>. QED BY <1>5, <3>3, <3>4 DEF Placed, KnowledgeBases
  <2>3. CASE n = At("convretriever")
    <3>1. At("conversation") \in Names(a)
      <4>1. o.upload
        BY <1>1, <1>4, <2>3 DEF NamesOf
      <4>. QED BY <1>1, <4>1, FormNames
    <3>2. At("conversation") \in Before[a][n]
      BY <1>3, <2>3, <3>1 DEF Arrow
    <3>3. Kind(a, At("conversation")) = "conversation"
      BY <1>2, <1>4, <3>1 DEF KindOf
    <3>. QED BY <1>5, <3>2, <3>3 DEF Placed, KnowledgeBases
  <2>. QED BY <1>1, <1>4, <2>1, <2>2, <2>3 DEF NamesOf
<1>6. CASE Kind(a, n) \in {"multiquery", "rerank"}
  <2>1. n[1] \in {"multiquery", "rerank"}
    BY <1>2, <1>6 DEF KindOf
  <2>2. n \in {At("multiquery"), At("rerank")} /\ Retrieval(o)
    BY <1>1, <1>4, <2>1 DEF NamesOf
  <2>3. At("merger") \in Names(a)
    BY <1>1, <2>2, FormNames
  <2>4. CASE n = At("rerank") /\ o.multiquery
    <3>1. At("multiquery") \in Names(a) /\ o.rerank
      BY <1>1, <2>2, <2>4, FormNames
    <3>2. At("multiquery") \in Before[a][n]
      BY <1>3, <2>4, <3>1 DEF Arrow, AfterMulti
    <3>3. Kind(a, At("multiquery")) = "multiquery"
      BY <1>2, <1>4, <3>1 DEF KindOf
    <3>. QED BY <1>6, <3>2, <3>3 DEF Placed, Retrievers
  <2>5. CASE n = At("multiquery") \/ ~o.multiquery
    <3>1. At("merger") \in Before[a][n]
      <4>1. n = AfterMerger(o)
        BY <1>1, <1>4, <2>2, <2>5, FormNames DEF AfterMerger
      <4>. QED BY <1>3, <2>3, <4>1 DEF Arrow
    <3>2. Kind(a, At("merger")) = "merger"
      BY <1>2, <1>4, <2>3 DEF KindOf
    <3>. QED BY <1>6, <3>1, <3>2 DEF Placed, Retrievers
  <2>. QED BY <2>2, <2>4, <2>5
<1>. QED BY <1>5, <1>6 DEF Placed

\* With all objects ready nothing is wrong with the nodes.
LEMMA FormReady ==
  ASSUME NEW a \in Made, broken = {}
  PROVE  NotReady(a) = {}
<1>1. ASSUME NEW n \in Names(a), <<a, n>> \in Misplaced
      PROVE  FALSE
  <2>1. PICK b \in Apps : <<a, n>> \in {<<b, m>> : m \in {m \in Names(b) : ~Placed(b, m)}}
    BY <1>1 DEF Misplaced
  <2>2. PICK m \in Names(b) : <<a, n>> = <<b, m>> /\ ~Placed(b, m)
    BY <2>1
  <2>3. a = b /\ n = m
    BY <2>2
  <2>. QED BY <2>2, <2>3, FormPlaced
<1>. QED BY <1>1 DEF NotReady

-----------------------------------------------------------------------------
(* What validateNodes asks of the nodes *)

LEMMA LastEntry ==
  ASSUME NEW s \in Seq(Entries), NEW e \in Entries
  PROVE  /\ s \o <<e>> \in Seq(Entries)
         /\ Len(s \o <<e>>) = Len(s) + 1 /\ (s \o <<e>>)[Len(s) + 1] = e
<1>1. <<e>> \in Seq(Entries) /\ Len(<<e>>) = 1 /\ <<e>>[1] = e
  OBVIOUS
<1>2. Len(s) \in Nat
  BY LenProperties
<1>. DEFINE t == <<e>>
<1>. HIDE DEF t
<1>3. t \in Seq(Entries) /\ Len(t) = 1 /\ t[1] = e
  BY <1>1 DEF t
<1>4. /\ s \o t \in Seq(Entries) /\ Len(s \o t) = Len(s) + 1
      /\ (s \o t)[Len(s) + 1] = t[(Len(s) + 1) - Len(s)]
  BY <1>2, <1>3, ConcatProperties
<1>. QED BY <1>2, <1>3, <1>4 DEF t

\* The last node before the output has one successor, whichever node that is.
EndsInArrow(s) == s \in Seq(Entries) /\ Len(s) \in Nat \ {0} /\ Len(s[Len(s)].next) = 1

LEMMA EndsWithArrow ==
  ASSUME NEW s \in Seq(Entries), NEW e \in Entries, Len(e.next) = 1
  PROVE  EndsInArrow(s \o <<e>>)
<1>1. Len(s) \in Nat
  BY LenProperties
<1>. QED BY <1>1, LastEntry DEF EndsInArrow

LEMMA FormEnds ==
  ASSUME NEW o \in FormSet
  PROVE  EndsInArrow(ButOutput(o))
<1>1. /\ "chain" \in Single /\ "agent" \in Single /\ "documentloader" \in Single
  BY DEF Single, Labels
<1>2. /\ EntryOf(o, At("chain")) \in Entries /\ EntryOf(o, At("agent")) \in Entries
      /\ EntryOf(o, At("documentloader")) \in Entries
  BY <1>1, EntryOfType
<1>3. /\ Len(EntryOf(o, At("chain")).next) = 1 /\ Len(EntryOf(o, At("agent")).next) = 1
      /\ Len(EntryOf(o, At("documentloader")).next) = 1
  BY EntriesOf DEF Entry
<1>. DEFINE toChain == IF Retrieval(o) THEN UpToChain(o) ELSE <<>>
            agent == When(o.tools, One(o, "agent"))
            loader == When(o.upload, One(o, "documentloader"))
<1>4. Opening(o) \in Seq(Entries) /\ Middle(o) \in Seq(Entries) /\ toChain \in Seq(Entries)
  BY FormRange, EmptySeq
<1>5. agent \in Seq(Entries) /\ loader \in Seq(Entries)
  BY <1>1, WhenOne DEF FormSet
<1>6. Opening(o) \o Middle(o) = (Opening(o) \o toChain) \o <<EntryOf(o, At("chain"))>>
  <2>1. CASE Retrieval(o)
    <3>1. Middle(o) = toChain \o One(o, "chain")
      BY <2>1 DEF Middle
    <3>2. One(o, "chain") \in Seq(Entries)
      BY <1>1, OneType
    <3>. HIDE DEF toChain
    <3>. QED BY <1>4, <3>1, <3>2, ConcatAssociative DEF One
  <2>2. CASE ~Retrieval(o)
    <3>1. Middle(o) = <<EntryOf(o, At("chain"))>> /\ toChain = <<>>
      BY <2>2 DEF Middle, One
    <3>2. Opening(o) \o <<>> = Opening(o)
      BY <1>4, ConcatEmptySeq
    <3>. QED BY <3>1, <3>2
  <2>. QED BY <2>1, <2>2
<1>. HIDE DEF toChain
<1>7. Opening(o) \o toChain \in Seq(Entries)
  BY <1>4, ConcatProperties
<1>8. EndsInArrow(Opening(o) \o Middle(o))
  BY <1>2, <1>3, <1>6, <1>7, EndsWithArrow
<1>. DEFINE s == Opening(o) \o Middle(o)
<1>9. s \in Seq(Entries)
  BY <1>8 DEF EndsInArrow
<1>10. EndsInArrow(s \o agent)
  <2>1. CASE o.tools
    <3>1. agent = <<EntryOf(o, At("agent"))>>
      BY <2>1 DEF When, One
    <3>. HIDE DEF s, agent
    <3>. QED BY <1>2, <1>3, <1>9, <3>1, EndsWithArrow
  <2>2. CASE ~o.tools
    <3>1. agent = <<>>
      BY <2>2 DEF When
    <3>. HIDE DEF s, agent
    <3>2. s \o agent = s
      BY <1>9, <3>1, ConcatEmptySeq
    <3>. QED BY <1>8, <3>2 DEF s
  <2>. QED BY <2>1, <2>2
<1>. DEFINE t == s \o agent
<1>11. t \in Seq(Entries)
  BY <1>10 DEF EndsInArrow
<1>12. EndsInArrow(t \o loader)
  <2>1. CASE o.upload
    <3>1. loader = <<EntryOf(o, At("documentloader"))>>
      BY <2>1 DEF When, One
    <3>. HIDE DEF t, loader
    <3>. QED BY <1>2, <1>3, <1>11, <3>1, EndsWithArrow
  <2>2. CASE ~o.upload
    <3>1. loader = <<>>
      BY <2>2 DEF When
    <3>. HIDE DEF s, agent, t, loader
    <3>2. t \o loader = t
      BY <1>11, <3>1, ConcatEmptySeq
    <3>. QED BY <1>10, <3>2 DEF t
  <2>. QED BY <2>1, <2>2
<1>. QED BY <1>12 DEF ButOutput

LEMMA FormOneSuccessor == \A a \in Made : OneSuccessor(a)
<1>. SUFFICES ASSUME NEW a \in Made
              PROVE  OneSuccessor(a)
  OBVIOUS
<1>. DEFINE o == Forms[a]
            s == ButOutput(o)
            e == EntryOf(o, At("Output"))
<1>1. o \in FormSet /\ Nodes[a] = RedefineNodes(o)
  BY FormGraph
<1>2. EndsInArrow(s)
  BY <1>1, FormEnds
<1>3. e \in Entries /\ e.next = <<>>
  <2>1. "Output" \in Single
    BY DEF Single, Labels
  <2>. QED BY <1>1, <2>1, EntryOfType, EntriesOf DEF Entry
<1>4. Nodes[a] = s \o <<e>>
  BY <1>1, RedefineParts DEF One
<1>. HIDE DEF o, s, e
<1>5. s \in Seq(Entries) /\ Len(s) \in Nat \ {0} /\ Len(s[Len(s)].next) = 1
  BY <1>2 DEF EndsInArrow
<1>6. /\ Nodes[a] \in Seq(Entries) /\ Len(Nodes[a]) = Len(s) + 1 /\ Nodes[a][Len(s) + 1] = e
  BY <1>3, <1>4, <1>5, LastEntry
<1>7. Nodes[a][Len(s)] = s[Len(s)]
  <2>. DEFINE t == <<e>>
  <2>1. t \in Seq(Entries) /\ Len(t) = 1
    BY <1>3
  <2>. HIDE DEF t
  <2>2. (s \o t)[Len(s)] = s[Len(s)]
    BY <1>5, <2>1, ConcatProperties
  <2>. QED BY <1>4, <2>2 DEF t
<1>8. DOMAIN Nodes[a] = 1..Len(Nodes[a])
  BY <1>6, LenProperties
<1>9. Len(s) \in DOMAIN Nodes[a] /\ Len(Nodes[a][Len(s)].next) = 1
  BY <1>5, <1>6, <1>7, <1>8
<1>10. \A j \in (Len(s) + 1)..Len(Nodes[a]) : Nodes[a][j].next = <<>>
  BY <1>3, <1>5, <1>6
<1>. QED BY <1>9, <1>10 DEF OneSuccessor

\* One input, one output, and one arrow to it, from the chain.
LEMMA FormValid == \A a \in Made : a \in Valid
<1>. SUFFICES ASSUME NEW a \in Made
              PROVE  a \in Valid
  OBVIOUS
<1>. DEFINE o == Forms[a]
            in == EntryOf(o, At("Input"))
            out == EntryOf(o, At("Output"))
            chain == EntryOf(o, At("chain"))
<1>1. o \in FormSet /\ a \in Apps /\ Names(a) = NamesOf(o) /\ Range(Nodes[a]) = {EntryOf(o, n) : n \in Names(a)}
  BY FormGraph
<1>2. /\ in = Entry(At("Input"), "input", <<At("prompt")>>)
      /\ out = Entry(At("Output"), "output", <<>>)
      /\ chain = Entry(At("chain"), IF Retrieval(o) THEN "qachain" ELSE "llmchain", <<At("Output")>>)
  BY <1>1, EntriesOf
<1>3. {At("Input"), At("Output"), At("chain")} \subseteq Names(a)
  BY <1>1, FormNames
<1>4. \A n \in Names(a) : /\ KindOf(o, n) = "input" <=> n = At("Input")
                          /\ KindOf(o, n) = "output" <=> n = At("Output")
  BY <1>1, FormNames DEF KindOf, Labels
<1>5. \A n : /\ EntryOf(o, n).name = n /\ EntryOf(o, n).kind = KindOf(o, n) /\ EntryOf(o, n).next = NextOf(o, n)
  BY DEF EntryOf, Entry
<1>6. \A n \in Names(a) : Arrow(o, n, At("Output")) <=> n = At("chain")
  <2>1. \A l, m : At(l) = At(m) => l = m
    BY DEF At, NodeAt
  <2>2. \A l, m, k : At(l) = NodeAt(m, k) => l = m
    BY DEF At, NodeAt
  <2>. QED BY <1>1, <2>1, <2>2 DEF Arrow, AfterMerger, AfterMulti
<1>7. \A n \in Names(a) : At("Output") \in Range(NextOf(o, n)) <=> n = At("chain")
  BY <1>1, <1>6, NextRange
<1>. HIDE DEF o
<1>8. OfKind(a, "input") = {in} /\ OfKind(a, "output") = {out}
  BY <1>1, <1>3, <1>4, <1>5 DEF OfKind
<1>9. /\ in.next # <<>> /\ out.next = <<>> /\ out.name = At("Output") /\ chain.kind \in MayEnd
      /\ chain.name = At("chain") /\ chain.next = <<At("Output")>>
  BY <1>2 DEF Entry, MayEnd
<1>10. \A f \in Range(Nodes[a]) : At("Output") \in Range(f.next) => f = chain
  BY <1>1, <1>5, <1>7
<1>11. Arrows(a, At("Output")) = {<<At("chain"), 1>>}
  <2>. DEFINE to(e) == {<<e.name, j>> : j \in {j \in DOMAIN e.next : e.next[j] = At("Output")}}
  <2>1. chain \in Range(Nodes[a])
    BY <1>1, <1>3
  <2>2. to(chain) = {<<At("chain"), 1>>}
    <3>1. DOMAIN <<At("Output")>> = {1} /\ <<At("Output")>>[1] = At("Output")
      OBVIOUS
    <3>. QED BY <1>9, <3>1
  <2>3. ASSUME NEW e \in Range(Nodes[a]), e # chain
        PROVE  to(e) = {}
    <3>1. At("Output") \notin Range(e.next)
      BY <1>10, <2>3
    <3>. QED BY <3>1 DEF Range
  <2>4. Arrows(a, At("Output")) = UNION {to(e) : e \in Range(Nodes[a])}
    BY DEF Arrows
  <2>. HIDE DEF to, chain
  <2>. QED BY <2>1, <2>2, <2>3, <2>4
<1>12. Cardinality({in}) = 1 /\ Cardinality({out}) = 1 /\ Cardinality({<<At("chain"), 1>>}) = 1
  BY FS_Singleton
<1>. HIDE DEF in, out, chain
<1>13. \A f \in Range(Nodes[a]) : out.name \in Range(f.next) => f.kind \in MayEnd
  BY <1>9, <1>10
<1>14. ValidateNodes(a)
  BY <1>8, <1>9, <1>11, <1>12, <1>13, FormOneSuccessor DEF ValidateNodes
<1>. QED BY <1>1, <1>14 DEF Valid

-----------------------------------------------------------------------------
(* The controller accepts the applications of the API *)

Accepts ==
  /\ breaks = 0 => broken = {}
  /\ MadeAccepted

LEMMA InitAccepts == Init => Accepts
BY DEF Init, Accepts, MadeAccepted, Idle

LEMMA ReconcileAccepts ==
  ASSUME IInv, Accepts, Reconcile
  PROVE  Accepts'
<1>1. graph \in Made \/ graph \in DOMAIN HandMade
  BY DEF IInv, TypeOK, Apps
<1>2. /\ check'.app = graph /\ breaks' = breaks /\ broken' = broken
      /\ check'.pc = IF graph \in Valid /\ graph \in Looping /\ NotReady(graph) = {} THEN "looping" ELSE "patch"
      /\ check'.verdict = IF graph \in Valid /\ graph \in Resolved /\ NotReady(graph) = {}
                          THEN "ready" ELSE "error"
  BY DEF Reconcile
<1>3. ASSUME graph \in Made, breaks = 0
      PROVE  check'.verdict = "ready"
  BY <1>2, <1>3, FormValid, FormResolved, FormReady DEF Accepts
<1>4. ASSUME graph \in Made
      PROVE  check'.pc = "patch"
  BY <1>2, <1>4, FormHasNoCircle
<1>. QED BY <1>1, <1>2, <1>3, <1>4 DEF Accepts, MadeAccepted

\* Whatever the form, the controller finds nothing wrong with its nodes while
\* their objects are ready, and its walk does not go round in circles:
\* validateNodes and the walk ask for nothing that redefineNodes does not make.
THEOREM FormsAccepted == Spec => []MadeAccepted
<1>1. IInv /\ Accepts /\ [Next]_vars => Accepts'
  <2>. SUFFICES ASSUME IInv, Accepts, [Next]_vars
                PROVE  Accepts'
    OBVIOUS
  <2>1. CASE Reconcile
    BY <2>1, ReconcileAccepts
  <2>2. CASE PatchStatus
    BY <2>2 DEF PatchStatus, Accepts, MadeAccepted, Idle
  <2>3. CASE ObjectChanges
    <3>1. breaks \in Nat
      BY BoundsAssumption, TypeParts DEF IInv, RestOK
    <3>2. breaks' # 0 /\ check' = check
      BY <2>3, <3>1 DEF ObjectChanges, object
    <3>. QED BY <3>2 DEF Accepts, MadeAccepted
  <2>4. CASE Edit
    BY <2>4 DEF Edit, Accepts, MadeAccepted
  <2>5. CASE Begin \/ End
    BY <2>5 DEF Begin, End, Accepts, MadeAccepted
  <2>6. CASE Step
    BY <2>6, StepCases DEF Accepts, MadeAccepted
  <2>7. CASE UNCHANGED vars
    BY <2>7 DEF vars, Accepts, MadeAccepted
  <2>. QED BY <2>1, <2>2, <2>3, <2>4, <2>5, <2>6, <2>7 DEF Next, Controller, Request
<1>2. Accepts => MadeAccepted
  BY DEF Accepts
<1>. QED BY <1>1, <1>2, InitAccepts, Invariance, PTL DEF Spec

-----------------------------------------------------------------------------
(* The arguments of a form's run *)

\* What has run came after the nodes before it.
Closed == \A n \in run.visited : Before[run.app][n] \subseteq run.visited

\* The LLM is one of the starting nodes, which all run before any other: the
\* multi query reads its argument, but no arrow says that it comes later.
Starting(n) == Before[run.app][n] = {}
LlmFirst ==
  At("llm") \notin run.visited =>
    /\ \E i \in 1..Len(run.queue) :
         run.queue[i] = At("llm") /\ \A j \in 1..i : Starting(run.queue[j])
    /\ \A n \in run.visited : Starting(n)

\* What the nodes that have run left in the arguments.
Written ==
  /\ At("prompt") \in run.visited => run.args.prompt
  /\ At("llm") \in run.visited => run.args.llm
  /\ NodeAt("retriever", 0) \in run.visited => run.args.references # "absent"

FormRun  == run.pc = "running" /\ run.app \in Made => Closed /\ LlmFirst /\ Written
ArgsInv  == FormRun /\ NothingMissing

\* A node takes nothing back that others need.
KeepsArgs(d, e) ==
  /\ d.prompt => e.prompt
  /\ d.llm => e.llm
  /\ d.references # "absent" => e.references # "absent"

LEMMA OutcomeArgs ==
  ASSUME NEW d
  PROVE  /\ Ok(d).args = d /\ Missing(d).args = d /\ Fails(d).args = d /\ Panics(d).args = d /\ NoDocs(d).args = d
         /\ Ok(d).outcome = "ok" /\ Missing(d).outcome = "missing" /\ Fails(d).outcome = "failed"
         /\ Panics(d).outcome = "silent" /\ NoDocs(d).outcome = "phrase"
BY DEF Ok, Missing, Fails, Panics, NoDocs

LEMMA KeepsSame == \A d : KeepsArgs(d, d)
BY DEF KeepsArgs

LEMMA RetrievedKeeps ==
  ASSUME NEW d \in Args, NEW f
  PROVE  KeepsArgs(d, Retrieved(d, f))
BY DEF KeepsArgs, Retrieved, Refs, Args

LEMMA RetrieveResult ==
  ASSUME NEW a, NEW n, NEW d \in Args, NEW r \in Retrieve(a, n, d)
  PROVE  /\ KeepsArgs(d, r.args) /\ r.outcome # "missing"
         /\ r.outcome = "ok" /\ (\A m \in Before[a][n] : Kind(a, m) # "conversation")
              => r.args.references # "absent"
         /\ r.outcome # "phrase"
<1>1. CASE \E f \in BOOLEAN :
             r = Ok([d EXCEPT !.retrievers = Append(@, f),
                              !.references = IF f THEN "some" ELSE IF @ = "some" THEN @ ELSE "empty"])
  <2>1. PICK f \in BOOLEAN :
             r = Ok([d EXCEPT !.retrievers = Append(@, f),
                              !.references = IF f THEN "some" ELSE IF @ = "some" THEN @ ELSE "empty"])
    BY <1>1
  <2>2. r.args = [d EXCEPT !.retrievers = Append(@, f),
                           !.references = IF f THEN "some" ELSE IF @ = "some" THEN @ ELSE "empty"]
        /\ r.outcome = "ok"
    BY <2>1, OutcomeArgs
  <2>3. /\ r.args.prompt = d.prompt /\ r.args.llm = d.llm
        /\ r.args.references = IF f THEN "some" ELSE IF d.references = "some" THEN d.references ELSE "empty"
    BY <2>2 DEF Args
  <2>. QED BY <2>2, <2>3 DEF KeepsArgs
<1>2. CASE r = Fails(d)
  BY <1>2, OutcomeArgs DEF KeepsArgs
<1>3. CASE r = Ok(d) /\ \E m \in Before[a][n] : Kind(a, m) = "conversation"
  BY <1>3, OutcomeArgs DEF KeepsArgs
<1>. QED BY <1>1, <1>2, <1>3 DEF Retrieve

LEMMA MergeResult ==
  ASSUME NEW d \in Args, NEW r \in Merge(d)
  PROVE  KeepsArgs(d, r.args) /\ r.outcome # "missing"
<1>. DEFINE some == TRUE \in Range(d.retrievers)
<1>1. Merge(d) = IF d.retrievers = <<>> THEN {Ok(d)} ELSE {Ok(Retrieved(d, some)), Fails(d)}
  BY DEF Merge
<1>. HIDE DEF some
<1>2. r = Ok(d) \/ r = Ok(Retrieved(d, some)) \/ r = Fails(d)
  BY <1>1
<1>. QED BY <1>2, OutcomeArgs, RetrievedKeeps DEF KeepsArgs

LEMMA MultiQueryResult ==
  ASSUME NEW d \in Args, NEW r \in MultiQuery(d)
  PROVE  KeepsArgs(d, r.args) /\ (d.llm => r.outcome # "missing")
<1>1. \/ r = Ok(d) \/ (r = Missing(d) /\ ~d.llm) \/ r = Fails(d)
      \/ \E f \in {FALSE, d.retrievers[1]} : r = Ok(Retrieved(d, f))
  BY DEF MultiQuery
<1>2. ASSUME NEW f, r = Ok(Retrieved(d, f))
      PROVE  KeepsArgs(d, r.args) /\ r.outcome = "ok"
  BY <1>2, OutcomeArgs, RetrievedKeeps
<1>3. CASE r = Ok(d) \/ (r = Missing(d) /\ ~d.llm) \/ r = Fails(d)
  <2>1. r.args = d /\ (r.outcome = "missing" => ~d.llm)
    BY <1>3, OutcomeArgs
  <2>. QED BY <2>1, KeepsSame
<1>. QED BY <1>1, <1>2, <1>3

LEMMA RerankResult ==
  ASSUME NEW d \in Args, NEW r \in Rerank(d)
  PROVE  KeepsArgs(d, r.args) /\ (d.references # "absent" => r.outcome # "missing")
<1>1. CASE d.references = "absent"
  <2>1. r = Missing(d)
    BY <1>1 DEF Rerank
  <2>. QED BY <1>1, <2>1, OutcomeArgs DEF KeepsArgs
<1>2. CASE d.references = "empty"
  <2>1. r = Ok([d EXCEPT !.retrievers = <<FALSE>>])
    BY <1>2 DEF Rerank
  <2>2. r.args = [d EXCEPT !.retrievers = <<FALSE>>] /\ r.outcome = "ok"
    BY <2>1, OutcomeArgs
  <2>. QED BY <2>2 DEF KeepsArgs, Args
<1>3. CASE d.references \notin {"absent", "empty"}
  <2>1. \/ r = Fails(d) \/ r = Panics(d)
        \/ \E f \in BOOLEAN : r = Ok([d EXCEPT !.references = Refs(f),
                                               !.retrievers = IF @ = <<>> THEN @ ELSE <<f /\ @[1]>>])
    BY <1>3 DEF Rerank
  <2>2. ASSUME NEW f \in BOOLEAN, r = Ok([d EXCEPT !.references = Refs(f),
                                                   !.retrievers = IF @ = <<>> THEN @ ELSE <<f /\ @[1]>>])
        PROVE  KeepsArgs(d, r.args) /\ r.outcome = "ok"
    <3>1. r.args = [d EXCEPT !.references = Refs(f), !.retrievers = IF @ = <<>> THEN @ ELSE <<f /\ @[1]>>]
          /\ r.outcome = "ok"
      BY <2>2, OutcomeArgs
    <3>2. r.args.prompt = d.prompt /\ r.args.llm = d.llm /\ r.args.references = Refs(f)
      BY <3>1 DEF Args
    <3>. QED BY <3>1, <3>2 DEF KeepsArgs, Refs
  <2>3. CASE r = Fails(d) \/ r = Panics(d)
    <3>1. r.args = d /\ r.outcome # "missing"
      BY <2>3, OutcomeArgs
    <3>. QED BY <3>1, KeepsSame
  <2>. QED BY <2>1, <2>2, <2>3
<1>. QED BY <1>1, <1>2, <1>3

LEMMA ChainResult ==
  ASSUME NEW k, NEW d \in Args, NEW r \in Chain(k, d)
  PROVE  KeepsArgs(d, r.args) /\ (d.llm /\ d.prompt => r.outcome # "missing")
<1>1. \/ r = Missing(d) /\ ~(d.llm /\ d.prompt)
      \/ r = Fails(d) \/ r = NoDocs(d)
      \/ \E b \in BOOLEAN : r = Ok([d EXCEPT !.answer = b])
  BY DEF Chain, Answers
<1>2. ASSUME NEW b \in BOOLEAN, r = Ok([d EXCEPT !.answer = b])
      PROVE  KeepsArgs(d, r.args) /\ r.outcome = "ok"
  <2>1. r.args = [d EXCEPT !.answer = b] /\ r.outcome = "ok"
    BY <1>2, OutcomeArgs
  <2>. QED BY <2>1 DEF KeepsArgs, Args
<1>3. CASE r = Fails(d) \/ r = NoDocs(d) \/ (r = Missing(d) /\ ~(d.llm /\ d.prompt))
  <2>1. r.args = d /\ (r.outcome = "missing" => ~(d.llm /\ d.prompt))
    BY <1>3, OutcomeArgs
  <2>. QED BY <2>1, KeepsSame
<1>. QED BY <1>1, <1>2, <1>3

LEMMA AgentResult ==
  ASSUME NEW d \in Args, NEW b
  PROVE  KeepsArgs(d, Ok([d EXCEPT !.agent = b]).args)
<1>1. Ok([d EXCEPT !.agent = b]).args = [d EXCEPT !.agent = b]
  BY OutcomeArgs
<1>. QED BY <1>1 DEF KeepsArgs, Args

\* What a node finds missing, by its kind.
Needs(a, n, d) ==
  LET k == Kind(a, n) IN
  \/ k = "kbretriever" /\ ~Placed(a, n)
  \/ k \in {"multiquery", "agent", "llmchain", "qachain"} /\ ~d.llm
  \/ k \in {"llmchain", "qachain"} /\ ~d.prompt
  \/ k = "rerank" /\ d.references = "absent"

LEMMA RunOfResult ==
  ASSUME NEW a, NEW n, NEW d \in Args, NEW r \in RunOf(a, n, d)
  PROVE  /\ KeepsArgs(d, r.args)
         /\ r.outcome = "missing" => Needs(a, n, d)
         /\ Kind(a, n) = "prompt" => r.args.prompt
         /\ Kind(a, n) = "llm" => r.args.llm
         /\ /\ Kind(a, n) = "kbretriever" /\ r.outcome \in {"ok", "phrase"}
            /\ \A m \in Before[a][n] : Kind(a, m) # "conversation"
            => r.args.references # "absent"
<1>. DEFINE k == Kind(a, n)
<1>0. KeepsArgs(d, d)
  BY DEF KeepsArgs
<1>. HIDE DEF k
<1>1. CASE k = "prompt"
  <2>1. r = Ok([d EXCEPT !.prompt = TRUE])
    BY <1>1 DEF RunOf, k
  <2>2. r.args = [d EXCEPT !.prompt = TRUE] /\ r.outcome = "ok"
    BY <2>1, OutcomeArgs
  <2>. QED BY <1>1, <2>2 DEF KeepsArgs, Args, k
<1>2. CASE k = "llm"
  <2>1. r = Ok([d EXCEPT !.llm = TRUE])
    BY <1>2 DEF RunOf, k
  <2>2. r.args = [d EXCEPT !.llm = TRUE] /\ r.outcome = "ok"
    BY <2>1, OutcomeArgs
  <2>. QED BY <1>2, <2>2 DEF KeepsArgs, Args, k
<1>3. CASE k = "kbretriever"
  <2>1. CASE Placed(a, n)
    <3>1. r \in Retrieve(a, n, d)
      BY <1>3, <2>1 DEF RunOf, k
    <3>. QED BY <1>3, <3>1, RetrieveResult DEF k
  <2>2. CASE ~Placed(a, n)
    <3>1. r = Missing(d)
      BY <1>3, <2>2 DEF RunOf, k
    <3>. QED BY <1>0, <1>3, <2>2, <3>1, OutcomeArgs DEF Needs, k
  <2>. QED BY <2>1, <2>2
<1>4. CASE k = "merger"
  <2>1. r \in Merge(d)
    BY <1>4 DEF RunOf, k
  <2>. QED BY <1>4, <2>1, MergeResult DEF k
<1>5. CASE k = "multiquery"
  <2>1. r \in MultiQuery(d)
    BY <1>5 DEF RunOf, k
  <2>. QED BY <1>5, <2>1, MultiQueryResult DEF Needs, k
<1>6. CASE k = "rerank"
  <2>1. r \in Rerank(d)
    BY <1>6 DEF RunOf, k
  <2>. QED BY <1>6, <2>1, RerankResult DEF Needs, k
<1>7. CASE k = "agent"
  <2>1. \/ r = Missing(d) /\ ~d.llm
        \/ r = Fails(d)
        \/ \E b \in BOOLEAN : r = Ok([d EXCEPT !.agent = b])
    BY <1>7 DEF RunOf, k
  <2>2. CASE \E b \in BOOLEAN : r = Ok([d EXCEPT !.agent = b])
    BY <1>7, <2>2, AgentResult, OutcomeArgs DEF k
  <2>3. CASE (r = Missing(d) /\ ~d.llm) \/ r = Fails(d)
    <3>1. r.args = d /\ (r.outcome = "missing" => ~d.llm)
      BY <2>3, OutcomeArgs
    <3>2. KeepsArgs(d, r.args) /\ (r.outcome = "missing" => Needs(a, n, d))
      BY <1>0, <1>7, <3>1 DEF Needs, k
    <3>. QED BY <1>7, <3>2 DEF k
  <2>. QED BY <2>1, <2>2, <2>3
<1>8. CASE k \in {"llmchain", "qachain"}
  <2>1. r \in Chain(k, d)
    BY <1>8 DEF RunOf, k
  <2>. QED BY <1>8, <2>1, ChainResult DEF Needs, k
<1>9. CASE k \notin {"prompt", "llm", "kbretriever", "merger", "multiquery", "rerank", "agent", "llmchain", "qachain"}
  <2>1. r = Ok(d) \/ r = Fails(d)
    BY <1>9 DEF RunOf, k
  <2>. QED BY <1>0, <1>9, <2>1, OutcomeArgs DEF k
<1>. QED BY <1>1, <1>2, <1>3, <1>4, <1>5, <1>6, <1>7, <1>8, <1>9

\* What a node of a form comes after.
LEMMA FormComesAfter ==
  ASSUME NEW a \in Made, NEW n \in Names(a)
  PROVE  /\ At("llm") \in Names(a) /\ Before[a][At("llm")] = {}
         /\ Kind(a, n) = "prompt" <=> n = At("prompt")
         /\ Kind(a, n) = "llm" <=> n = At("llm")
         /\ Kind(a, n) = "input" => Before[a][n] = {}
         /\ Kind(a, n) \in {"agent", "llmchain", "qachain"} => At("llm") \in Before[a][n]
         /\ Kind(a, n) \in {"llmchain", "qachain"} => At("prompt") \in Before[a][n]
         /\ Kind(a, n) \in {"multiquery", "rerank"} => Before[a][n] # {}
<1>. DEFINE o == Forms[a]
<1>1. o \in FormSet /\ Names(a) = NamesOf(o)
  BY FormGraph
<1>2. \A m \in Names(a) : Kind(a, m) = KindOf(o, m)
  BY FormGraph
<1>3. \A x \in Names(a) : Before[a][x] = {m \in Names(a) : Arrow(o, m, x)}
  BY FormGraph
<1>4. /\ \A l : At(l)[1] = l
      /\ \A l, k : NodeAt(l, k)[1] = l
  BY DEF At, NodeAt
<1>. HIDE DEF o
<1>5. {At("Input"), At("prompt"), At("llm"), At("chain"), At("Output")} \subseteq Names(a)
  BY <1>1, FormNames
<1>6. n[1] \in Labels
  BY <1>1, FormNames
<1>7. /\ n[1] = "prompt" => n = At("prompt")
      /\ n[1] = "llm" => n = At("llm")
      /\ n[1] = "Input" => n = At("Input")
      /\ n[1] = "agent" => n = At("agent") /\ o.tools
      /\ n[1] = "chain" => n = At("chain")
  BY <1>1, <1>4 DEF NamesOf
<1>8. \A m : ~Arrow(o, m, At("llm")) /\ ~Arrow(o, m, At("Input"))
  BY <1>4 DEF Arrow, AfterMerger, AfterMulti
<1>9. Before[a][At("llm")] = {}
  BY <1>3, <1>5, <1>8
<1>10. /\ Kind(a, n) = "prompt" <=> n[1] = "prompt"
       /\ Kind(a, n) = "llm" <=> n[1] = "llm"
       /\ Kind(a, n) = "input" <=> n[1] = "Input"
       /\ Kind(a, n) = "agent" <=> n[1] = "agent"
       /\ Kind(a, n) \in {"llmchain", "qachain"} <=> n[1] = "chain"
  BY <1>2, <1>6 DEF KindOf, Labels
<1>11. Kind(a, n) = "input" => Before[a][n] = {}
  BY <1>3, <1>7, <1>8, <1>10
<1>12. Kind(a, n) \in {"agent", "llmchain", "qachain"} => At("llm") \in Before[a][n]
  BY <1>3, <1>5, <1>7, <1>10 DEF Arrow
<1>13. Kind(a, n) \in {"llmchain", "qachain"} => At("prompt") \in Before[a][n]
  BY <1>3, <1>5, <1>7, <1>10 DEF Arrow
<1>14. Kind(a, n) \in {"multiquery", "rerank"} => Before[a][n] # {}
  BY FormPlaced DEF Placed
<1>. QED BY <1>4, <1>5, <1>7, <1>9, <1>10, <1>11, <1>12, <1>13, <1>14

\* What the reranker and the multi query are given goes back to the retriever
\* of the first knowledge base, if there is one.
LEMMA FormRetrieves ==
  ASSUME NEW a \in Made, NEW n \in Names(a), Kind(a, n) = "rerank", a \notin OnlyConversation,
         NEW S \in SUBSET Names(a), Before[a][n] \subseteq S, \A m \in S : Before[a][m] \subseteq S
  PROVE  NodeAt("retriever", 0) \in S
<1>. DEFINE o == Forms[a]
<1>1. o \in FormSet /\ Names(a) = NamesOf(o)
  BY FormGraph
<1>2. \A m \in Names(a) : Kind(a, m) = KindOf(o, m)
  BY FormGraph
<1>3. \A x \in Names(a) : Before[a][x] = {m \in Names(a) : Arrow(o, m, x)}
  BY FormGraph
<1>4. /\ \A l : At(l)[1] = l
      /\ \A l, k : NodeAt(l, k)[1] = l
  BY DEF At, NodeAt
<1>0. ~(o.upload /\ o.rerank /\ o.kbs = 0)
  BY DEF OnlyConversation
<1>. HIDE DEF o
<1>5. n[1] = "rerank"
  BY <1>2 DEF KindOf
<1>6. n = At("rerank") /\ Retrieval(o) /\ o.rerank
  BY <1>1, <1>4, <1>5 DEF NamesOf
<1>7. o.kbs \in Nat \ {0}
  BY <1>0, <1>1, <1>6 DEF Retrieval, FormSet
<1>8. 0 \in Bases(o)
  BY <1>7 DEF Bases
<1>9. At("merger") \in Names(a) /\ NodeAt("retriever", 0) \in Names(a)
  BY <1>1, <1>6, <1>8, FormNames
<1>10. At("merger") \in S
  <2>1. CASE o.multiquery
    <3>1. At("multiquery") \in Names(a)
      BY <1>1, <1>6, <2>1, FormNames
    <3>2. At("multiquery") \in Before[a][n]
      BY <1>3, <1>6, <3>1 DEF Arrow, AfterMulti
    <3>3. At("merger") \in Before[a][At("multiquery")]
      BY <1>3, <1>9, <2>1, <3>1 DEF Arrow, AfterMerger
    <3>. QED BY <3>2, <3>3
  <2>2. CASE ~o.multiquery
    <3>1. At("merger") \in Before[a][n]
      BY <1>3, <1>6, <1>9, <2>2 DEF Arrow, AfterMerger
    <3>. QED BY <3>1
  <2>. QED BY <2>1, <2>2
<1>11. NodeAt("retriever", 0) \in Before[a][At("merger")]
  BY <1>3, <1>8, <1>9 DEF Arrow
<1>. QED BY <1>10, <1>11

\* The retriever of the first knowledge base comes after it alone, and so has
\* no conversation's placeholder before it, which may retrieve nothing.
LEMMA FormFirstRetriever ==
  ASSUME NEW a \in Made, NodeAt("retriever", 0) \in Names(a)
  PROVE  /\ Kind(a, NodeAt("retriever", 0)) = "kbretriever"
         /\ \A m \in Before[a][NodeAt("retriever", 0)] : Kind(a, m) # "conversation"
<1>. DEFINE o == Forms[a]
            n == NodeAt("retriever", 0)
<1>1. Kind(a, n) = KindOf(o, n)
  BY FormGraph
<1>2. n[1] = "retriever"
  BY DEF NodeAt
<1>3. ASSUME NEW m \in Before[a][n]
      PROVE  Kind(a, m) # "conversation"
  <2>1. m \in Names(a) /\ Arrow(o, m, n)
    BY FormBefore
  <2>2. Kind(a, m) = KindOf(o, m)
    BY <2>1, FormGraph
  <2>3. m[1] = "knowledgebase"
    <3>1. /\ \A l : At(l)[1] = l
          /\ \A l, k : NodeAt(l, k)[1] = l
      BY DEF At, NodeAt
    <3>. QED BY <2>1, <3>1 DEF Arrow, AfterMerger, AfterMulti
  <2>. QED BY <2>2, <2>3 DEF KindOf
<1>4. KindOf(o, n) = "kbretriever"
  BY <1>2 DEF KindOf
<1>. QED BY <1>1, <1>3, <1>4

\* A form's run starts with the nodes that nothing points to, and with all of
\* them: its input is one.
LEMMA FormStarts ==
  ASSUME NEW a \in Made, NEW q \in Starts(a)
  PROVE  /\ q \in Seq(Names(a)) /\ At("llm") \in Range(q)
         /\ \A n \in Range(q) : Before[a][n] = {}
<1>. DEFINE S == Input(a)
            T == {n \in Names(a) : Before[a][n] = {}} \ S
<1>0. a \in Apps /\ At("Input") \in Names(a)
  BY FormGraph, FormNames
<1>1. Starts(a) = {x \o y : x \in Orders(S), y \in Orders(T)}
  BY DEF Starts
<1>2. S \subseteq Names(a) /\ T \subseteq Names(a)
  BY <1>0, InputType
<1>3. IsFiniteSet(S) /\ IsFiniteSet(T)
  BY <1>0, <1>2, NamesType, FS_Subset
<1>4. \A n \in S : Before[a][n] = {}
  <2>1. ASSUME NEW n \in S
        PROVE  Kind(a, n) = "input"
    <3>1. PICK i \in DOMAIN Nodes[a] : Nodes[a][i].name = n /\ Nodes[a][i].kind = "input"
      BY DEF Input
    <3>2. Nodes[a][i] \in Range(Nodes[a])
      BY DEF Range
    <3>3. PICK m \in Names(a) : Nodes[a][i] = EntryOf(Forms[a], m)
      BY <3>2, FormGraph
    <3>4. m = n /\ KindOf(Forms[a], n) = "input"
      BY <3>1, <3>3 DEF EntryOf, Entry
    <3>. QED BY <3>4, FormGraph
  <2>. QED BY <1>2, <2>1, FormComesAfter
<1>5. \A n \in T : Before[a][n] = {}
  OBVIOUS
<1>. HIDE DEF S, T
<1>6. PICK i \in Orders(S), j \in Orders(T) : q = i \o j
  <2>1. q \in {x \o y : x \in Orders(S), y \in Orders(T)}
    BY <1>1
  <2>. QED BY <2>1
<1>7. /\ i \in Seq(S) /\ Range(i) = S
      /\ j \in Seq(T) /\ Range(j) = T
  BY <1>3, <1>6, OrdersType
<1>8. i \in Seq(Names(a)) /\ j \in Seq(Names(a))
  BY <1>2, <1>7, SeqMonotonic
<1>9. Range(q) = S \cup T
  BY <1>6, <1>7, <1>8, ConcatProperties, RangeConcatenation
<1>10. q \in Seq(Names(a)) /\ At("llm") \in Range(q)
  BY <1>0, StartsType, FormComesAfter
<1>. QED BY <1>4, <1>5, <1>9, <1>10

-----------------------------------------------------------------------------
(* The invariant is kept *)

LEMMA InitArgsInv == Init => ArgsInv
BY DEF Init, NotRunning, ArgsInv, FormRun, NothingMissing

LEMMA BeginArgsInv ==
  ASSUME IInv, ArgsInv, Begin
  PROVE  ArgsInv'
<1>1. PICK q \in Starts(graph) :
        run' = [pc |-> "running", app |-> graph, queue |-> q, visited |-> {}, args |-> NoArgs]
  BY DEF Begin
<1>2. /\ run'.pc = "running" /\ run'.app = graph /\ run'.queue = q /\ run'.visited = {}
  BY <1>1
<1>3. ASSUME graph \in Made
      PROVE  LlmFirst'
  <2>1. /\ q \in Seq(Names(graph)) /\ At("llm") \in Range(q)
        /\ \A n \in Range(q) : Before[graph][n] = {}
    BY <1>3, FormStarts
  <2>2. Range(q) = {q[i] : i \in 1..Len(q)} /\ Len(q) \in Nat
    BY <2>1, RangeEquality
  <2>3. PICK i \in 1..Len(q) : q[i] = At("llm")
    BY <2>1, <2>2
  <2>4. \A j \in 1..i : q[j] \in Range(q)
    BY <2>2, <2>3
  <2>. QED BY <1>2, <2>1, <2>3, <2>4 DEF LlmFirst, Starting
<1>4. Closed' /\ Written'
  BY <1>2 DEF Closed, Written
<1>. QED BY <1>2, <1>3, <1>4 DEF ArgsInv, FormRun, NothingMissing

\* The queue without its front still has the LLM among its first nodes, unless
\* that was the front.
LEMMA TailKeepsLlm ==
  ASSUME IInv, LlmFirst, run.pc = "running", run.queue # <<>>, At("llm") \notin run.visited, Front # At("llm"),
         NEW s \in Seq(Names(run.app))
  PROVE  \E i \in 1..Len(Tail(run.queue) \o s) :
           /\ (Tail(run.queue) \o s)[i] = At("llm")
           /\ \A j \in 1..i : Starting((Tail(run.queue) \o s)[j])
<1>. DEFINE q == run.queue
            t == Tail(q)
            u == t \o s
<1>1. q \in Seq(Names(run.app)) /\ t \in Seq(Names(run.app))
  BY FrontType DEF IInv, Queued
<1>2. /\ Len(t) = Len(q) - 1 /\ Len(q) \in Nat \ {0}
      /\ \A i \in 1..Len(t) : t[i] = q[i + 1]
      /\ q[1] = Front
  BY <1>1, HeadTailProperties, EmptySeq DEF Front
<1>3. /\ Len(u) = Len(t) + Len(s) /\ Len(s) \in Nat
      /\ \A i \in 1..Len(t) : u[i] = t[i]
  BY <1>1, ConcatProperties
<1>4. PICK i \in 1..Len(q) : q[i] = At("llm") /\ \A j \in 1..i : Starting(q[j])
  BY DEF LlmFirst
<1>. HIDE DEF q, t, u
<1>5. i # 1
  BY <1>2, <1>4
<1>6. i - 1 \in 1..Len(t) /\ i - 1 \in 1..Len(u)
  BY <1>2, <1>3, <1>4, <1>5
<1>7. u[i - 1] = At("llm")
  BY <1>2, <1>3, <1>4, <1>6
<1>8. \A j \in 1..(i - 1) : j + 1 \in 1..i /\ u[j] = q[j + 1]
  BY <1>2, <1>3, <1>6
<1>9. \A j \in 1..(i - 1) : Starting(u[j])
  BY <1>4, <1>8
<1>. QED BY <1>6, <1>7, <1>9 DEF u, t, q

\* Until the LLM has run the front is a starting node.
LEMMA FrontStarts ==
  ASSUME IInv, LlmFirst, run.pc = "running", run.queue # <<>>, At("llm") \notin run.visited
  PROVE  Starting(Front)
<1>1. PICK i \in 1..Len(run.queue) : \A j \in 1..i : Starting(run.queue[j])
  BY DEF LlmFirst
<1>2. run.queue \in Seq(Names(run.app)) /\ run.queue[1] = Front
  BY EmptySeq DEF IInv, Queued, Front
<1>3. 1 \in 1..i
  BY <1>1, <1>2
<1>. QED BY <1>1, <1>2, <1>3

LEMMA WaitArgsInv ==
  ASSUME IInv, ArgsInv, Wait
  PROVE  ArgsInv'
<1>1. run \in Runs /\ run.pc = "running" /\ run.queue # <<>>
  BY DEF IInv, TypeOK, Runs, Wait
<1>2. run'.pc = run.pc /\ run'.app = run.app /\ run'.visited = run.visited /\ run'.args = run.args
  BY <1>1 DEF Wait, Runs
<1>3. ASSUME run.app \in Made
      PROVE  At("llm") \in run.visited
  <2>1. LlmFirst
    BY <1>1, <1>3 DEF ArgsInv, FormRun
  <2>2. ~Starting(Front)
    BY DEF Wait, Waits, Starting
  <2>. QED BY <1>1, <2>1, <2>2, FrontStarts
<1>4. ASSUME run.app \in Made
      PROVE  Closed' /\ LlmFirst' /\ Written'
  <2>1. Closed /\ Written
    BY <1>1, <1>4 DEF ArgsInv, FormRun
  <2>2. Closed' /\ Written'
    BY <1>2, <2>1 DEF Closed, Written
  <2>. QED BY <1>2, <1>3, <1>4, <2>2 DEF LlmFirst
<1>. QED BY <1>1, <1>2, <1>4 DEF ArgsInv, FormRun, NothingMissing

LEMMA AgainArgsInv ==
  ASSUME IInv, ArgsInv, Again
  PROVE  ArgsInv'
<1>. DEFINE s == Of[run.app][Front].next
<1>1. run \in Runs /\ run.pc = "running" /\ run.queue # <<>> /\ Front \in run.visited
  BY DEF IInv, TypeOK, Runs, Again
<1>2. /\ run'.pc = run.pc /\ run'.app = run.app /\ run'.visited = run.visited /\ run'.args = run.args
      /\ run'.queue = Tail(run.queue) \o s
  BY <1>1 DEF Again, Runs
<1>3. s \in Seq(Names(run.app))
  BY <1>1, FrontType
<1>. HIDE DEF s
<1>4. ASSUME run.app \in Made
      PROVE  Closed' /\ LlmFirst' /\ Written'
  <2>1. Closed /\ LlmFirst /\ Written
    BY <1>1, <1>4 DEF ArgsInv, FormRun
  <2>2. Closed' /\ Written'
    BY <1>2, <2>1 DEF Closed, Written
  <2>3. ASSUME At("llm") \notin run.visited
        PROVE  /\ \E i \in 1..Len(run'.queue) :
                    run'.queue[i] = At("llm") /\ \A j \in 1..i : Starting(run'.queue[j])
               /\ \A n \in run.visited : Starting(n)
    <3>1. Front # At("llm")
      BY <1>1, <2>3
    <3>. QED BY <1>1, <1>2, <1>3, <2>1, <2>3, <3>1, TailKeepsLlm DEF LlmFirst
  <2>. QED BY <1>2, <2>2, <2>3 DEF LlmFirst, Starting
<1>. QED BY <1>1, <1>2, <1>4 DEF ArgsInv, FormRun, NothingMissing

LEMMA RunFrontArgsInv ==
  ASSUME IInv, ArgsInv, NEW r \in RunOf(run.app, Front, run.args), RunFront(r)
  PROVE  ArgsInv'
<1>. DEFINE s == Of[run.app][Front].next
            a == run.app
<1>1. run \in Runs /\ run.pc = "running" /\ run.queue # <<>> /\ run.args \in Args
  BY DEF IInv, TypeOK, Runs, RunFront
<1>2. /\ run'.pc = run.pc /\ run'.app = a /\ run'.visited = run.visited \cup {Front} /\ run'.args = r.args
      /\ run'.queue = Tail(run.queue) \o s
  BY <1>1 DEF RunFront, Runs
<1>3. s \in Seq(Names(a)) /\ Front \in Names(a)
  BY <1>1, FrontType
<1>4. Before[a][Front] \subseteq run.visited /\ r.outcome \in {"ok", "phrase"}
  BY DEF RunFront, Waits
<1>. HIDE DEF s
<1>5. ASSUME a \in Made
      PROVE  Closed' /\ LlmFirst' /\ Written'
  <2>1. Closed /\ LlmFirst /\ Written
    BY <1>1, <1>5 DEF ArgsInv, FormRun
  <2>2. Closed'
    BY <1>2, <1>4, <2>1 DEF Closed
  <2>3. Written'
    <3>1. KeepsArgs(run.args, r.args)
      BY <1>1, RunOfResult
    <3>2. ASSUME Front = At("prompt")
          PROVE  r.args.prompt
      BY <1>1, <1>3, <1>5, <3>2, FormComesAfter, RunOfResult
    <3>3. ASSUME Front = At("llm")
          PROVE  r.args.llm
      BY <1>1, <1>3, <1>5, <3>3, FormComesAfter, RunOfResult
    <3>4. ASSUME Front = NodeAt("retriever", 0)
          PROVE  r.args.references # "absent"
      <4>1. Kind(a, Front) = "kbretriever" /\ \A m \in Before[a][Front] : Kind(a, m) # "conversation"
        BY <1>3, <1>5, <3>4, FormFirstRetriever
      <4>. QED BY <1>1, <1>4, <4>1, RunOfResult
    <3>. QED BY <1>2, <2>1, <3>1, <3>2, <3>3, <3>4 DEF Written, KeepsArgs
  <2>4. ASSUME At("llm") \notin run.visited \cup {Front}
        PROVE  /\ \E i \in 1..Len(run'.queue) :
                    run'.queue[i] = At("llm") /\ \A j \in 1..i : Starting(run'.queue[j])
               /\ \A n \in run.visited \cup {Front} : Starting(n)
    <3>1. Front # At("llm") /\ At("llm") \notin run.visited
      BY <2>4
    <3>2. Starting(Front)
      BY <1>1, <2>1, <3>1, FrontStarts
    <3>. QED BY <1>1, <1>2, <1>3, <2>1, <3>1, <3>2, TailKeepsLlm DEF LlmFirst
  <2>5. LlmFirst'
    BY <1>2, <2>4 DEF LlmFirst, Starting
  <2>. QED BY <2>2, <2>3, <2>5
<1>. QED BY <1>1, <1>2, <1>5 DEF ArgsInv, FormRun, NothingMissing

\* A node that gives up for want of an argument is a reranker whose application
\* has no knowledge base but a conversation's, or is not of a form.
LEMMA GiveUpArgsInv ==
  ASSUME IInv, ArgsInv, NEW r \in RunOf(run.app, Front, run.args), GiveUp(r)
  PROVE  ArgsInv'
<1>. DEFINE a == run.app
<1>1. run \in Runs /\ run.pc = "running" /\ run.queue # <<>> /\ run.args \in Args
  BY DEF IInv, TypeOK, Runs, GiveUp
<1>2. run'.pc = r.outcome /\ run'.app = a /\ run'.pc # "running"
  <2>1. run'.pc \in {"missing", "failed", "silent", "phrase"} /\ run'.app = a
    BY GiveUpKeeps
  <2>2. run'.pc = r.outcome
    BY <1>1 DEF GiveUp, Runs
  <2>. QED BY <2>1, <2>2
<1>3. Front \in Names(a) /\ a \in Apps
  BY <1>1, FrontType
<1>4. Before[a][Front] \subseteq run.visited /\ run.visited \subseteq Names(a)
  BY <1>1 DEF GiveUp, Waits, IInv, Queued
<1>5. ASSUME a \in Made, a \notin OnlyConversation
      PROVE  r.outcome # "missing"
  <2>1. Closed /\ LlmFirst /\ Written
    BY <1>1, <1>5 DEF ArgsInv, FormRun
  <2>2. Placed(a, Front)
    BY <1>3, <1>5, FormPlaced
  <2>3. Kind(a, Front) \in {"multiquery", "agent", "llmchain", "qachain"} => run.args.llm
    <3>1. CASE Kind(a, Front) = "multiquery"
      <4>1. Before[a][Front] # {}
        BY <1>3, <1>5, <3>1, FormComesAfter
      <4>2. At("llm") \in run.visited
        BY <1>1, <2>1, <4>1, FrontStarts DEF Starting
      <4>. QED BY <2>1, <4>2 DEF Written
    <3>2. CASE Kind(a, Front) \in {"agent", "llmchain", "qachain"}
      BY <1>3, <1>4, <1>5, <2>1, <3>2, FormComesAfter DEF Written
    <3>. QED BY <3>1, <3>2
  <2>4. Kind(a, Front) \in {"llmchain", "qachain"} => run.args.prompt
    BY <1>3, <1>4, <1>5, <2>1, FormComesAfter DEF Written
  <2>5. Kind(a, Front) = "rerank" => run.args.references # "absent"
    BY <1>3, <1>4, <1>5, <2>1, FormRetrieves DEF Written, Closed
  <2>6. ~Needs(a, Front, run.args)
    BY <2>2, <2>3, <2>4, <2>5 DEF Needs
  <2>. QED BY <1>1, <2>6, RunOfResult
<1>6. a \in Made \/ a \in DOMAIN HandMade
  BY <1>3 DEF Apps
<1>. QED BY <1>2, <1>5, <1>6 DEF ArgsInv, FormRun, NothingMissing

\* Whatever the form, and in whatever order its starting nodes are queued,
\* every argument that a node takes from the map has been put there before,
\* but for what a reranker takes where the only knowledge base is a
\* conversation's.
THEOREM NothingIsMissing == Spec => []NothingMissing
<1>1. IInv /\ ArgsInv /\ [Next]_vars => ArgsInv'
  <2>. SUFFICES ASSUME IInv, ArgsInv, [Next]_vars
                PROVE  ArgsInv'
    OBVIOUS
  <2>1. CASE run' = run
    BY <2>1 DEF ArgsInv, FormRun, Closed, LlmFirst, Written, Starting, NothingMissing
  <2>2. CASE Step
    BY <2>2, StepCases, WaitArgsInv, AgainArgsInv, RunFrontArgsInv, GiveUpArgsInv
  <2>3. CASE Begin
    BY <2>3, BeginArgsInv
  <2>4. CASE End
    <3>1. run'.pc \in {"answer", "no answer"}
      BY <2>4, EndKeeps
    <3>. QED BY <3>1 DEF ArgsInv, FormRun, NothingMissing
  <2>5. CASE Controller \/ Edit \/ ObjectChanges
    BY <2>1, <2>5 DEF Controller, Reconcile, PatchStatus, Edit, ObjectChanges
  <2>6. CASE UNCHANGED vars
    BY <2>1, <2>6 DEF vars
  <2>. QED BY <2>1, <2>2, <2>3, <2>4, <2>5, <2>6 DEF Next, Request
<1>2. ArgsInv => NothingMissing
  BY DEF ArgsInv
<1>. QED BY <1>1, <1>2, InitArgsInv, Invariance, PTL DEF Spec
=============================================================================
