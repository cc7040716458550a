---------------------------- MODULE MCApplication ----------------------------
(* Instances of Application for TLC: the app_*.cfg files. *)
EXTENDS Application, TLC

Form(kbs, upload, multiquery, rerank, tools) ==
  [kbs |-> kbs, upload |-> upload, multiquery |-> multiquery, rerank |-> rerank, tools |-> tools]

\* A chain with tools; two knowledge bases behind a multi query and a reranker;
\* one and uploaded files; uploaded files and a reranker; and everything at once.
MCForms ==
  "tools" :> Form(0, FALSE, FALSE, FALSE, TRUE) @@ "two bases" :> Form(2, FALSE, TRUE, TRUE, FALSE) @@
  "base and files" :> Form(1, TRUE, FALSE, FALSE, FALSE) @@ "files" :> Form(0, TRUE, FALSE, TRUE, FALSE) @@
  "all" :> Form(2, TRUE, TRUE, TRUE, TRUE)

Ends(next) == <<Entry(At("Input"), "input", next)>>
Last(next) == <<Entry(At("llm"), "llm", <<At("chain")>>), Entry(At("chain"), "llmchain", next),
                Entry(At("Output"), "output", <<>>)>>

\* A circle behind the input, one apart from it, a name that is no node's, and
\* a chain with an arrow beside the one to the output, which is accepted.
MCHandMade ==
  "circle" :> Ends(<<At("prompt")>>) \o <<Entry(At("prompt"), "prompt", <<At("agent"), At("chain")>>),
                             Entry(At("agent"), "agent", <<At("prompt")>>)>> \o Last(<<At("Output")>>) @@
  "circle apart" :> Ends(<<At("chain")>>) \o <<Entry(At("prompt"), "prompt", <<At("agent")>>),
                            Entry(At("agent"), "agent", <<At("prompt")>>)>> \o Last(<<At("Output")>>) @@
  "unknown" :> Ends(<<At("chain"), At("prompt")>>) \o Last(<<At("Output")>>) @@
  "beside" :> Ends(<<At("chain"), At("agent")>>) \o Last(<<At("agent"), At("Output")>>)
    \o <<Entry(At("agent"), "agent", <<At("documentloader")>>),
        Entry(At("documentloader"), "documentloader", <<>>)>>

MCFallible == {NodeAt("knowledgebase", 0), NodeAt("knowledgebase", 1)}
=============================================================================
