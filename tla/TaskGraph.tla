----------------------------- MODULE TaskGraph -----------------------------
(* The task graph of the model gateway (core/modelclaw/task_graph.py): the    *)
(* nodes of an acyclic graph are asked layer by layer.  A layer is gathered   *)
(* with a bounded number of seats; each node asks its sources in order until  *)
(* one returns a usable response.  A node whose dependency did not complete   *)
(* is skipped, and what its layer returns is visible only when the gather     *)
(* returns.  If a node raises, the gather raises: the request has failed, and *)
(* the siblings run on.                                                       *)
EXTENDS Naturals, FiniteSets, Sequences, Functions

CONSTANTS
  Nodes,    \* the nodes of the request
  Sources,  \* how many sources a node has
  Seats     \* the parallelism of the request

ASSUME GraphAssumption ==
  /\ IsFiniteSet(Nodes) /\ Nodes # {}
  /\ Sources \in Nat \ {0} /\ Seats \in Nat \ {0}

VARIABLES
  dependsOn,  \* the graph of the request
  graph,      \* what the request is at, or how it ended
  node,       \* what each node is at
  tried,      \* the attempts of a node that asks: the status of each source
  layer,      \* the nodes of the gather under way
  results     \* the nodes whose result the request has

graphVars == <<dependsOn, graph, node, tried, layer, results>>

-----------------------------------------------------------------------------
GraphEnded == {"completed", "partial", "blocked", "failed"}
Returned   == {"completed", "skipped", "blocked", "timed_out", "unavailable"}
Stages     == {"pending", "listed", "seated", "asking", "raised"} \cup Returned

(* validate_graph() resolves the nodes whose dependencies are resolved until  *)
(* none remains: no set of nodes may be left with no node to resolve.         *)
Acyclic(d) ==
  \A rest \in (SUBSET Nodes) \ {{}} : \E n \in rest : d[n] \cap rest = {}

Graphs == {d \in [Nodes -> SUBSET Nodes] : Acyclic(d)}

GraphInit ==
  /\ dependsOn \in Graphs
  /\ graph = "deciding"
  /\ node = [n \in Nodes |-> "pending"]
  /\ tried = [n \in Nodes |-> <<>>]
  /\ layer = {} /\ results = {}

Pending == Nodes \ results
Ready   == {n \in Pending : dependsOn[n] \subseteq results}

(* The nodes that hold the semaphore. *)
Seated == {n \in Nodes : node[n] \in {"seated", "asking"}}

SetNode(n, stage)  == node' = [node EXCEPT ![n] = stage]
FreeNode(n, stage) == SetNode(n, stage) /\ tried' = [tried EXCEPT ![n] = <<>>]

-----------------------------------------------------------------------------
(* Policy allows the graph, or blocks every node of it. *)
Decide ==
  /\ graph = "deciding"
  /\ \/ graph' = "running" /\ UNCHANGED node
     \/ graph' = "blocked" /\ node' = [n \in Nodes |-> "blocked"]
     \/ graph' = "failed" /\ UNCHANGED node
  /\ UNCHANGED <<dependsOn, tried, layer, results>>

BeginLayer ==
  /\ graph = "running" /\ layer = {} /\ Pending # {}
  /\ layer' = Ready
  /\ node' = [n \in Nodes |-> IF n \in Ready THEN "listed" ELSE node[n]]
  /\ UNCHANGED <<dependsOn, graph, tried, results>>

(* Mutant of Wanting: a node is skipped if every dependency of it failed. *)
WantingAll(n) ==
  dependsOn[n] # {} /\ \A d \in dependsOn[n] : node[d] # "completed"

Wanting(n) == \E d \in dependsOn[n] : node[d] # "completed"

(* A node that lacks a dependency's result is skipped without a seat. *)
Skip(n) ==
  /\ node[n] = "listed" /\ Wanting(n)
  /\ SetNode(n, "skipped")
  /\ UNCHANGED <<dependsOn, graph, tried, layer, results>>

Sit(n) ==
  /\ node[n] = "listed" /\ ~Wanting(n)
  /\ Cardinality(Seated) < Seats
  /\ SetNode(n, "seated")
  /\ UNCHANGED <<dependsOn, graph, tried, layer, results>>

(* _authorize_peer_message() on the node's own session. *)
Authorize(n) ==
  /\ node[n] = "seated"
  /\ \E stage \in {"asking", "blocked"} : SetNode(n, stage)
  /\ UNCHANGED <<dependsOn, graph, tried, layer, results>>

(* A source returns nothing usable or its time is over; the next one follows. *)
(* A completed answer without a response counts as no answer.                 *)
Ask(n) ==
  /\ node[n] = "asking" /\ Len(tried[n]) < Sources
  /\ \E status \in {"timed_out", "blocked", "empty"} :
       tried' = [tried EXCEPT ![n] = Append(@, status)]
  /\ UNCHANGED <<dependsOn, graph, node, layer, results>>

Answer(n) ==
  /\ node[n] = "asking" /\ Len(tried[n]) < Sources
  /\ FreeNode(n, "completed")
  /\ UNCHANGED <<dependsOn, graph, layer, results>>

Exhaust(n) ==
  LET statuses == Range(tried[n]) IN
  /\ node[n] = "asking" /\ Len(tried[n]) = Sources
  /\ FreeNode(n, CASE statuses = {"timed_out"} -> "timed_out"
                   [] "blocked" \in statuses -> "blocked"
                   [] OTHER -> "unavailable")
  /\ UNCHANGED <<dependsOn, graph, layer, results>>

(* Policy, the gateway or the database raises: the request fails with it. *)
RaiseNode(n) ==
  /\ node[n] \in {"seated", "asking"}
  /\ FreeNode(n, "raised")
  /\ graph' = "failed"
  /\ UNCHANGED <<dependsOn, layer, results>>

-----------------------------------------------------------------------------
LayerReturned == layer # {} /\ \A n \in layer : node[n] \in Returned

(* Mutant of EndLayer: a node without a result is tried again. *)
EndLayerRetry ==
  /\ graph = "running" /\ LayerReturned
  /\ results' = results \cup {n \in layer : node[n] # "unavailable"}
  /\ layer' = {}
  /\ UNCHANGED <<dependsOn, graph, node, tried>>

EndLayer ==
  /\ graph = "running" /\ LayerReturned
  /\ results' = results \cup layer
  /\ layer' = {}
  /\ UNCHANGED <<dependsOn, graph, node, tried>>

Conclude ==
  LET completed == {n \in Nodes : node[n] = "completed"} IN
  /\ graph = "running" /\ layer = {} /\ Pending = {}
  /\ graph' = CASE completed = Nodes -> "completed"
                [] completed \notin {{}, Nodes} -> "partial"
                [] OTHER -> "blocked"
  /\ UNCHANGED <<dependsOn, node, tried, layer, results>>

NodeStep(n) ==
  \/ Skip(n) \/ Sit(n) \/ Authorize(n) \/ Ask(n) \/ Answer(n) \/ Exhaust(n) \/ RaiseNode(n)

RequestStep == Decide \/ BeginLayer \/ EndLayer \/ Conclude

GraphNext == RequestStep \/ \E n \in Nodes : NodeStep(n)

(* The event loop runs every coroutine; each ask has its timeout. *)
GraphFairness ==
  /\ WF_graphVars(RequestStep)
  /\ \A n \in Nodes : WF_graphVars(NodeStep(n))

GraphSpec == GraphInit /\ [][GraphNext]_graphVars /\ GraphFairness

-----------------------------------------------------------------------------
GraphTypeOK ==
  /\ dependsOn \in Graphs
  /\ graph \in {"deciding", "running"} \cup GraphEnded
  /\ node \in [Nodes -> Stages]
  /\ tried \in [Nodes -> Seq({"timed_out", "blocked", "empty"})]
  /\ \A n \in Nodes : Len(tried[n]) =< Sources
  /\ layer \subseteq Pending /\ results \subseteq Nodes

(* A specialist is asked, and completes, only on the completed results of     *)
(* every node it depends on, and those the request has: evidence never comes  *)
(* from a node that was skipped, denied or is still at work.                  *)
AskedOnEvidence ==
  \A n \in Nodes : node[n] \in {"seated", "asking", "completed", "raised"} =>
    \A d \in dependsOn[n] : d \in results /\ node[d] = "completed"

(* While nodes are pending there is a layer to gather: the request's loop     *)
(* does not spin on an empty gather.                                          *)
NeverStuck == graph = "running" /\ Pending # {} => Ready # {}

(* No more than the allowed number of specialists are at work, also when one  *)
(* raised and its siblings run on.                                            *)
WithinSeats == Cardinality(Seated) =< Seats

(* Every request ends, whatever the sources answer or fail to.                *)
GraphEnds == graph = "running" ~> graph \in GraphEnded
=============================================================================
