---------------------------- MODULE MCDataProcess ----------------------------
(* Instances of DataProcess for TLC: the data_*.cfg files. *)
EXTENDS DataProcess

\* Two files, the first of two parts.
MCParts == <<2, 1>>
\* Files as they should be, for questions and answers or for chunks; a page without
\* duplicates, then a file that cannot be processed; such a file, and a page that is
\* not begun for that reason.
Request(c, k) == [config |-> c, kinds |-> k]
MCRequests ==
  {Request("qa", <<"text", "text">>), Request("chunks", <<"text", "text">>),
   Request("dedup", <<"web", "other">>), Request("qa", <<"other", "web">>)}
=============================================================================
