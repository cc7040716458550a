----------------------------- MODULE Application -----------------------------
(***************************************************************************)
(* An application: a graph of nodes that the API makes from a form         *)
(* (apiserver/pkg/application) or a user writes, that the controller       *)
(* checks (controllers/base/application_controller.go), and that each chat *)
(* request runs (pkg/appruntime), node by node, all of them reading and    *)
(* writing one map of arguments. A request looks at the status, not at     *)
(* what of the application the status is about.                            *)
(***************************************************************************)
EXTENDS Naturals, Sequences, FiniteSets, Functions

CONSTANTS
  Forms,       \* knowledge bases, and what is switched on, by a name for the nodes
  HandMade,    \* nodes that users write themselves, by a name for them
  Fallible,    \* nodes whose objects may not be ready
  NoApp,
  MaxEdits,
  MaxBreaks,   \* changes of the nodes' objects
  MaxRequests

VARIABLES
  graph,       \* the application's spec.nodes, by their name
  gen,         \* its generation
  status, observed,
  broken,      \* nodes whose object is not ready
  pending,     \* the controller is to look at the application
  check,       \* the controller's reconcile
  run,         \* the request's run: nodes, queue, visited, arguments
  breaks, requests

object == <<graph, gen, status, observed>>
vars   == <<object, broken, pending, check, run, breaks, requests>>

-----------------------------------------------------------------------------
(* Nodes: an application is a sequence of them *)

Labels == {"Input", "Output", "prompt", "llm", "chain", "agent", "documentloader", "knowledgebase", "retriever",
           "conversation", "convretriever", "merger", "multiquery", "rerank"}
Node == Labels \X Nat
NodeAt(label, i) == <<label, i>>
At(label) == NodeAt(label, 0)
Entry(name, kind, next) == [name |-> name, kind |-> kind, next |-> next]

Kinds == {"input", "output", "prompt", "llm", "llmchain", "qachain", "agent", "documentloader",
          "knowledgebase", "conversation", "kbretriever", "merger", "multiquery", "rerank"}
Entries == [name : Node, kind : Kinds, next : Seq(Node)]
Retrievers == {"kbretriever", "merger", "multiquery", "rerank"}
KnowledgeBases == {"knowledgebase", "conversation"}     \* the second, by the name of its placeholder

\* The group of a chain, or of an agent, which every object of the base group has.
MayEnd == {"llmchain", "qachain", "agent", "llm", "documentloader"} \cup KnowledgeBases

\* redefineNodes: the nodes for a form.
Retrieval(o) == o.kbs > 0 \/ o.upload

Sources(o) ==
  [i \in 1..(2 * o.kbs) |->
     LET k == (i - 1) \div 2 IN
     IF i % 2 = 1
     THEN Entry(NodeAt("knowledgebase", k), "knowledgebase", <<NodeAt("retriever", k)>>)
     ELSE Entry(NodeAt("retriever", k), "kbretriever", <<At("merger")>>)]

When(b, seq) == IF b THEN seq ELSE <<>>

\* Mutant: what was retrieved goes to the chain and past the reranker.
PastRerank(o) == IF o.multiquery THEN At("multiquery") ELSE At("chain")
AfterMerger(o) ==
  IF o.multiquery THEN At("multiquery") ELSE IF o.rerank THEN At("rerank") ELSE At("chain")

\* Mutant: the agent is not told which LLM to use.
ToChain(o) == <<At("chain")>>
AfterLLM(o) == <<At("chain")>> \o When(o.tools, <<At("agent")>>)

RedefineNodes(o) ==
  <<Entry(At("Input"), "input", <<At("prompt")>>),
    Entry(At("prompt"), "prompt", <<At("chain")>>),
    Entry(At("llm"), "llm", AfterLLM(o))>>
  \o (IF Retrieval(o)
      THEN Sources(o)
           \o When(o.upload,
                <<Entry(At("conversation"), "conversation", <<At("convretriever")>>),
                  Entry(At("convretriever"), "kbretriever", <<At("merger")>>)>>)
           \o <<Entry(At("merger"), "merger", <<AfterMerger(o)>>)>>
           \o When(o.multiquery,
                <<Entry(At("multiquery"), "multiquery", <<IF o.rerank THEN At("rerank") ELSE At("chain")>>)>>)
           \o When(o.rerank, <<Entry(At("rerank"), "rerank", <<At("chain")>>)>>)
           \o <<Entry(At("chain"), "qachain", <<At("Output")>>)>>
      ELSE <<Entry(At("chain"), "llmchain", <<At("Output")>>)>>)
  \o When(o.tools, <<Entry(At("agent"), "agent", <<At("chain")>>)>>)
  \o When(o.upload, <<Entry(At("documentloader"), "documentloader", <<At("chain")>>)>>)
  \o <<Entry(At("Output"), "output", <<>>)>>

Made == DOMAIN Forms
Apps == Made \cup DOMAIN HandMade
Nodes == [a \in Apps |-> IF a \in Made THEN RedefineNodes(Forms[a]) ELSE HandMade[a]]

Names(a)   == {e.name : e \in Range(Nodes[a])}
Pointed(a) == UNION {Range(e.next) : e \in Range(Nodes[a])}
OfKind(a, k) == {e \in Range(Nodes[a]) : e.kind = k}

\* The nodes of the runtime, those that point to each, and the input node.
Of     == [a \in Apps |-> [n \in Names(a) |-> CHOOSE e \in Range(Nodes[a]) : e.name = n]]
Before == [a \in Apps |-> [n \in Names(a) |-> {m \in Names(a) : n \in Range(Of[a][m].next)}]]
Kind(a, n) == Of[a][n].kind
Input(a) ==
  {Nodes[a][i].name : i \in {i \in DOMAIN Nodes[a] :
     /\ Nodes[a][i].kind = "input" /\ \A j \in (i + 1)..Len(Nodes[a]) : Nodes[a][j].kind # "input"}}

ASSUME FormsAssumption ==
  \A a \in Made :
    Forms[a] \in [kbs : Nat, upload : BOOLEAN, multiquery : BOOLEAN, rerank : BOOLEAN, tools : BOOLEAN]
ASSUME HandMadeAssumption ==
  \A a \in DOMAIN HandMade :
    /\ a \notin Made /\ HandMade[a] \in Seq(Entries)
    /\ \A i \in DOMAIN HandMade[a] :
         \A j \in DOMAIN HandMade[a] : i # j => HandMade[a][i].name # HandMade[a][j].name
ASSUME BoundsAssumption ==
  Fallible \subseteq Node /\ NoApp \notin Apps /\ MaxEdits \in Nat /\ MaxBreaks \in Nat /\ MaxRequests \in Nat

-----------------------------------------------------------------------------
(* The controller's reconcile *)

\* validateNodes: one input with a successor, one output without, and one arrow
\* to it, from a chain or an agent. The last node that has successors is looked
\* at for "it can only point to output", whichever node that is.
OneSuccessor(a) ==
  \E i \in DOMAIN Nodes[a] :
    Len(Nodes[a][i].next) = 1 /\ \A j \in (i + 1)..Len(Nodes[a]) : Nodes[a][j].next = <<>>

Arrows(a, n) == UNION {{<<e.name, j>> : j \in {j \in DOMAIN e.next : e.next[j] = n}} : e \in Range(Nodes[a])}

ValidateNodes(a) ==
  /\ \A e \in OfKind(a, "input") : e.next # <<>>
  /\ \A e \in OfKind(a, "output") : e.next = <<>>
  /\ Cardinality(OfKind(a, "input")) = 1 /\ Cardinality(OfKind(a, "output")) = 1
  /\ \A e \in OfKind(a, "output") :
       /\ Cardinality(Arrows(a, e.name)) = 1
       /\ \A f \in Range(Nodes[a]) : e.name \in Range(f.next) => f.kind \in MayEnd
  /\ OneSuccessor(a)

\* Init of the runtime: every name that is pointed to is a node's.
Valid    == {a \in Apps : ValidateNodes(a)}
Resolved == {a \in Apps : Pointed(a) \subseteq Names(a)}

\* Nodes on a circle or behind one: the queue never gets past them. They are
\* queued at all if one of them is the input or has a predecessor that is not
\* among them.
StuckIn(a) == UNION {S \in SUBSET Names(a) : \A n \in S : Before[a][n] \cap S # {}}
Stuck == UNION {{<<a, n>> : n \in StuckIn(a)} : a \in Apps}
Looping ==
  {a \in Resolved : \E n \in StuckIn(a) : n \in Input(a) \/ Before[a][n] \ StuckIn(a) # {}}

\* Ready: the object's condition, and what a retriever must come after.
Placed(a, n) ==
  CASE Kind(a, n) = "kbretriever" -> \E m \in Before[a][n] : Kind(a, m) \in KnowledgeBases
    [] Kind(a, n) \in {"multiquery", "rerank"} -> \E m \in Before[a][n] : Kind(a, m) \in Retrievers
    [] OTHER -> TRUE
Misplaced == UNION {{<<a, n>> : n \in {n \in Names(a) : ~Placed(a, n)}} : a \in Apps}
HasObject(a, n) == Kind(a, n) \notin {"input", "output", "conversation"}

\* The nodes that the walk finds not ready.
NotReady(a) ==
  {n \in Names(a) : /\ <<a, n>> \in Misplaced \/ (n \in broken /\ HasObject(a, n))
                    /\ <<a, n>> \notin Stuck}

Idle == [pc |-> "idle", app |-> NoApp, gen |-> 0, verdict |-> "none"]

\* Reconcile: the status waits if the spec has changed, then the nodes are
\* checked as they were fetched. A node that is not ready is met before the
\* walk goes round in circles, unless it is behind the circle.
Reconcile ==
  /\ pending /\ check.pc = "idle"
  /\ pending' = FALSE
  /\ IF observed # gen THEN status' = "waiting" /\ observed' = gen ELSE UNCHANGED <<status, observed>>
  /\ check' = [pc      |-> IF graph \in Valid /\ graph \in Looping /\ NotReady(graph) = {}
                            THEN "looping" ELSE "patch",
                app     |-> graph, gen |-> gen,
                verdict |-> IF graph \in Valid /\ graph \in Resolved /\ NotReady(graph) = {}
                            THEN "ready" ELSE "error"]
  /\ UNCHANGED <<graph, gen, broken, run, breaks, requests>>

\* patchStatus writes over whatever status there is. After an error the
\* application is looked at again.
PatchStatus ==
  /\ check.pc = "patch"
  /\ status' = check.verdict /\ observed' = check.gen
  /\ pending' = (pending \/ check.verdict = "error")
  /\ check' = Idle
  /\ UNCHANGED <<graph, gen, broken, run, breaks, requests>>

-----------------------------------------------------------------------------
(* Users and the nodes' own controllers *)

Edit ==
  /\ gen <= MaxEdits /\ gen' = gen + 1
  /\ \E a \in Apps \ {graph} : graph' = a
  /\ pending' = TRUE
  /\ UNCHANGED <<status, observed, broken, check, run, breaks, requests>>

\* FindNodesHas: an application is found by the first node of each kind only.
FirstOfKind(n) ==
  \E i \in DOMAIN Nodes[graph] :
    Nodes[graph][i].name = n /\ \A j \in 1..(i - 1) : Nodes[graph][j].kind # Nodes[graph][i].kind
\* Mutant: by the last.
LastOfKind(n) ==
  \E i \in DOMAIN Nodes[graph] :
    Nodes[graph][i].name = n /\ \A j \in (i + 1)..Len(Nodes[graph]) : Nodes[graph][j].kind # Nodes[graph][i].kind
Watched(n) == FirstOfKind(n)

ObjectChanges ==
  /\ breaks < MaxBreaks /\ breaks' = breaks + 1
  /\ \E n \in Fallible :
       /\ broken' = IF n \in broken THEN broken \ {n} ELSE broken \cup {n}
       /\ pending' = (pending \/ Watched(n))
  /\ UNCHANGED <<object, check, run, requests>>

-----------------------------------------------------------------------------
(* A request's run *)

\* The arguments: retrievers says of each whether it found something.
NoArgs == [prompt |-> FALSE, llm |-> FALSE, retrievers |-> <<>>, references |-> "absent",
           agent |-> FALSE, answer |-> FALSE]
\* Mutant: no documents are stored as nil, which is not a list of references.
RefsOrNil(found) == IF found THEN "some" ELSE "nil"
Refs(found) == IF found THEN "some" ELSE "empty"
Retrieved(d, found) == [d EXCEPT !.retrievers = <<found>>, !.references = Refs(found)]

Ok(d)       == [args |-> d, outcome |-> "ok"]
Missing(d)  == [args |-> d, outcome |-> "missing"]     \* an argument
Fails(d)    == [args |-> d, outcome |-> "failed"]      \* something outside
Panics(d)   == [args |-> d, outcome |-> "silent"]      \* recovered, without an error
NoDocs(d)   == [args |-> d, outcome |-> "phrase"]

\* The chain puts an answer into the arguments, perhaps an empty one.
Answers(d) == {Ok([d EXCEPT !.answer = b]) : b \in BOOLEAN} \cup {Fails(d)}

\* Knowledge bases append; a conversation's may not exist, which is no error.
Retrieve(a, n, d) ==
  {Ok([d EXCEPT !.retrievers = Append(@, f), !.references = IF f THEN "some" ELSE IF @ = "some" THEN @ ELSE "empty"])
     : f \in BOOLEAN}
  \cup {Fails(d)}
  \cup {Ok(d) : m \in {m \in Before[a][n] : Kind(a, m) = "conversation"}}

Merge(d) ==
  IF d.retrievers = <<>> THEN {Ok(d)} ELSE {Ok(Retrieved(d, TRUE \in Range(d.retrievers))), Fails(d)}

MultiQuery(d) ==
  IF d.retrievers = <<>> THEN {Ok(d)}
  ELSE IF ~d.llm THEN {Missing(d)}
  ELSE {Ok(Retrieved(d, f)) : f \in {FALSE, d.retrievers[1]}} \cup {Fails(d)}

\* An answer of the reranker with too few scores is an index out of range.
Rerank(d) ==
  CASE d.references = "absent" -> {Missing(d)}
    [] d.references = "empty"  -> {Ok([d EXCEPT !.retrievers = <<FALSE>>])}
    [] OTHER -> {Fails(d), Panics(d)} \cup
         {Ok([d EXCEPT !.references = Refs(f),
                       !.retrievers = IF @ = <<>> THEN @ ELSE <<f /\ @[1]>>]) : f \in BOOLEAN}

\* Without a retriever the chain falls back to an LLM chain; without documents,
\* the set phrase, if the application has one, is the answer.
Chain(k, d) ==
  IF ~d.llm \/ ~d.prompt THEN {Missing(d)}
  ELSE Answers(d) \cup
       (IF k = "qachain" /\ d.retrievers # <<>> /\ ~d.retrievers[1] /\ ~d.agent THEN {NoDocs(d)} ELSE {})

\* What the Run of a node may do with the arguments.
RunOf(a, n, d) ==
  LET k == Kind(a, n) IN
  CASE k = "prompt" -> {Ok([d EXCEPT !.prompt = TRUE])}
    [] k = "llm" -> {Ok([d EXCEPT !.llm = TRUE])}
    [] k = "kbretriever" -> IF Placed(a, n) THEN Retrieve(a, n, d) ELSE {Missing(d)}
    [] k = "merger" -> Merge(d)
    [] k = "multiquery" -> MultiQuery(d)
    [] k = "rerank" -> Rerank(d)
    [] k = "agent" -> IF d.llm THEN {Ok([d EXCEPT !.agent = b]) : b \in BOOLEAN} \cup {Fails(d)} ELSE {Missing(d)}
    [] k \in {"llmchain", "qachain"} -> Chain(k, d)
    [] k = "documentloader" -> {Ok(d), Fails(d)}
    [] OTHER -> {Ok(d)}

\* Starting nodes: the input, and, in the order of a map, those that nothing
\* points to.
Orders(S) == {q \in [1..Cardinality(S) -> S] : Range(q) = S}
\* Mutant: only the input starts.
InputStarts(a) == Orders(Input(a))
Starts(a) ==
  {i \o q : i \in Orders(Input(a)), q \in Orders({n \in Names(a) : Before[a][n] = {}} \ Input(a))}

NotRunning == [pc |-> "idle", app |-> NoApp, queue |-> <<>>, visited |-> {}, args |-> NoArgs]

\* GetApp and Init: whatever the spec is now, if the status is ready.
Begin ==
  /\ requests < MaxRequests /\ requests' = requests + 1
  /\ run.pc # "running" /\ status = "ready"
  /\ graph \in Resolved
  /\ \E q \in Starts(graph) :
       run' = [pc |-> "running", app |-> graph, queue |-> q, visited |-> {}, args |-> NoArgs]
  /\ UNCHANGED <<object, broken, pending, check, breaks>>

\* Mutant: a node runs when some node before it has.
WaitsForOne(a, n, visited) == Before[a][n] # {} /\ Before[a][n] \cap visited = {}
Waits(a, n, visited) == ~(Before[a][n] \subseteq visited)

\* The front of the queue: a node that waits is queued again, a node that has
\* run already queues its successors once more.
Step ==
  /\ run.pc = "running" /\ run.queue # <<>>
  /\ LET n == Head(run.queue)
         rest == Tail(run.queue) IN
     CASE n \notin run.visited /\ Waits(run.app, n, run.visited) ->
            run' = [run EXCEPT !.queue = Append(rest, n)]
       [] n \in run.visited ->
            run' = [run EXCEPT !.queue = rest \o Of[run.app][n].next]
       [] OTHER ->
            \E r \in RunOf(run.app, n, run.args) :
              run' = IF r.outcome = "ok" \/ (r.outcome = "phrase" /\ run.args.answer)
                     THEN [run EXCEPT !.queue = rest \o Of[run.app][n].next, !.args = r.args,
                                      !.visited = @ \cup {n}]
                     ELSE [run EXCEPT !.pc = r.outcome, !.queue = <<>>]
  /\ UNCHANGED <<object, broken, pending, check, breaks, requests>>

End ==
  /\ run.pc = "running" /\ run.queue = <<>>
  /\ run' = [run EXCEPT !.pc = IF run.args.answer THEN "answer" ELSE "no answer"]
  /\ UNCHANGED <<object, broken, pending, check, breaks, requests>>

-----------------------------------------------------------------------------
Init ==
  /\ graph \in Apps /\ gen = 1
  /\ status = "none" /\ observed = 0
  /\ broken = {} /\ pending = TRUE
  /\ check = Idle /\ run = NotRunning
  /\ breaks = 0 /\ requests = 0

Controller == Reconcile \/ PatchStatus
Request    == Step \/ End
Next == Controller \/ Edit \/ ObjectChanges \/ Begin \/ Request

Spec == Init /\ [][Next]_vars

\* The controller's worker and the request's goroutine run; the timer of a
\* reconcile that ended with an error fires.
FairSpec == Spec /\ WF_vars(Controller) /\ WF_vars(Request)

-----------------------------------------------------------------------------
Args == [prompt : BOOLEAN, llm : BOOLEAN, retrievers : Seq(BOOLEAN),
         references : {"absent", "empty", "some"}, agent : BOOLEAN, answer : BOOLEAN]
Statuses == {"none", "waiting", "ready", "error"}

TypeOK ==
  /\ graph \in Apps /\ gen \in 1..(MaxEdits + 1)
  /\ status \in Statuses /\ observed \in 0..(MaxEdits + 1)
  /\ broken \subseteq Fallible /\ pending \in BOOLEAN
  /\ check \in [pc : {"idle", "patch", "looping"}, app : Apps \cup {NoApp}, gen : 0..(MaxEdits + 1),
                 verdict : {"none", "ready", "error"}]
  /\ run \in [pc : {"idle", "running", "answer", "no answer", "phrase", "missing", "failed", "silent"},
               app : Apps \cup {NoApp}, queue : Seq(Node), visited : SUBSET Node, args : Args]
  /\ breaks \in 0..MaxBreaks /\ requests \in 0..MaxRequests

\* A run keeps the order of its nodes: none runs before the nodes that point to
\* it, none twice, and the end comes when no node is left that can be run, in
\* whatever order the starting nodes were queued.
Flow == INSTANCE NodeFlow WITH
  NoFlow <- NoApp,
  flow   <- IF run.app = NoApp THEN NoApp ELSE Before[run.app],
  ran    <- run.visited,
  state  <- CASE run.pc \in {"idle", "running"} -> run.pc
              [] run.pc \in {"answer", "no answer"} -> "complete"
              [] OTHER -> "broken off"
InOrder == Flow!Spec

\* Every argument that a node reads has been written when it runs, in the
\* applications that the API makes; except that a reranker finds no references
\* if the only knowledge base is a conversation's that does not exist.
OnlyConversation == {a \in Made : Forms[a].upload /\ Forms[a].rerank /\ Forms[a].kbs = 0}
NothingMissing == run.pc = "missing" => run.app \in DOMAIN HandMade \cup OnlyConversation

\* The controller finds nothing wrong with the applications that the API makes
\* as long as their objects are ready, and gets through all of them.
MadeAccepted ==
  /\ check.verdict = "error" /\ breaks = 0 => check.app \in DOMAIN HandMade
  /\ check.pc = "looping" => check.app \in DOMAIN HandMade

\* A run ends, whatever the nodes do, unless they go round in circles.
RunEnds == (run.pc = "running" /\ run.app \notin Looping) ~> run.pc # "running"

\* When nothing changes any more, a good application is ready, and one that is
\* ready has valid nodes of which only those that are not the first of their
\* kind may not be ready; unless the controller has gone round in circles.
Good == graph \in Valid /\ graph \in Resolved /\ graph \notin Looping /\ NotReady(graph) = {}
StatusFollows ==
  <>[](\/ check.pc = "looping"
       \/ /\ Good => status = "ready"
          /\ status = "ready" =>
               /\ graph \in Valid /\ graph \in Resolved
               /\ \A n \in NotReady(graph) : ~FirstOfKind(n))
=============================================================================
