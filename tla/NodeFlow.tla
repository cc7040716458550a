------------------------------- MODULE NodeFlow -------------------------------
(***************************************************************************)
(* What a run of an application promises (pkg/appruntime): it takes the    *)
(* nodes as they are when it begins, runs a node once and after every node *)
(* before it, and comes to its end when no node is left that can be run.   *)
(* Application implements it by a queue.                                   *)
(***************************************************************************)
CONSTANTS
  Node,
  NoFlow       \* there has been no run

VARIABLES
  flow,        \* the nodes of the run, and which come before each
  ran,         \* the nodes that have run
  state

vars == <<flow, ran, state>>

IsFlow(f) == DOMAIN f \subseteq Node /\ \A n \in DOMAIN f : f[n] \subseteq DOMAIN f

Init == flow = NoFlow /\ ran = {} /\ state = "idle"

Begin ==
  /\ state # "running" /\ state' = "running"
  /\ IsFlow(flow')
  /\ ran' = {}

Runnable == {n \in DOMAIN flow \ ran : flow[n] \subseteq ran}

RunNode ==
  /\ state = "running"
  /\ \E n \in Runnable : ran' = ran \cup {n}
  /\ UNCHANGED <<flow, state>>

Complete ==
  /\ state = "running" /\ Runnable = {}
  /\ state' = "complete"
  /\ UNCHANGED <<flow, ran>>

\* A node fails, panics, or finds nothing and the set phrase is the answer.
BreakOff ==
  /\ state = "running" /\ state' = "broken off"
  /\ UNCHANGED <<flow, ran>>

Next == Begin \/ RunNode \/ Complete \/ BreakOff

Spec == Init /\ [][Next]_vars
=============================================================================
