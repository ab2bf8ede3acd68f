---------------------------- MODULE WorkflowGraph ----------------------------
(***************************************************************************)
(* The structural analysis of the main-connection graph (compiler/graph.ts *)
(* and compiler/analysis): what the gadget compiler reads of a workflow.   *)
(*                                                                         *)
(* Connections are functions from edge ids to records, as EdgeRef numbers  *)
(* them; the compiler's SCC walk, its reachability walks and its skip      *)
(* closure are stated by what they compute, over a walk bounded by the     *)
(* number of nodes.                                                        *)
(***************************************************************************)
EXTENDS Integers, FiniteSets

CONSTANTS
  Nodes,       \* node names
  Conn,        \* edge id -> [from, out, to, inp], the deduplicated main connections
  StartNodes,  \* declared start nodes
  Trigger,     \* the primary start node: the only one the initial marking feeds
  Required,    \* node -> its requiredInputs; {} where n8n declares none
  References,  \* node -> the nodes its $('Y') expressions name
  LoopNodes    \* nodes whose type is Loop Over Items

Edges == DOMAIN Conn

ASSUME GraphAssumption ==
  /\ IsFiniteSet(Nodes) /\ Nodes # {}
  /\ IsFiniteSet(Edges) /\ Edges \subseteq Nat \ {0}
  /\ Conn \in [Edges -> [from : Nodes, out : Nat, to : Nodes, inp : Nat]]
  /\ StartNodes \subseteq Nodes /\ Trigger \in StartNodes
  /\ Required \in [Nodes -> SUBSET Nat]
  /\ References \in [Nodes -> SUBSET Nodes]
  /\ LoopNodes \subseteq Nodes

Incoming(x) == {e \in Edges : Conn[e].to = x}
Outgoing(x) == {e \in Edges : Conn[e].from = x}
Outputs(x) == {Conn[e].out : e \in Outgoing(x)}
Succ(S) == {Conn[e].to : e \in {d \in Edges : Conn[d].from \in S}}
Pred(S) == {Conn[e].from : e \in {d \in Edges : Conn[d].to \in S}}

(***************************************************************************)
(* Every node reachable from S without entering avoid, S included: one     *)
(* frontier expansion per step, and no path needs more steps than there    *)
(* are nodes.                                                              *)
(***************************************************************************)
Walk(S, avoid) ==
  LET Widen(R) == R \cup (Succ(R) \ avoid)
      seen[n \in 0 .. Cardinality(Nodes)] == IF n = 0 THEN S \ avoid ELSE Widen(seen[n - 1])
  IN  seen[Cardinality(Nodes)]

\* The same walk against the edges: every node that feeds S.
WalkBack(S) ==
  LET Widen(R) == R \cup Pred(R)
      seen[n \in 0 .. Cardinality(Nodes)] == IF n = 0 THEN S ELSE Widen(seen[n - 1])
  IN  seen[Cardinality(Nodes)]

ReachOf == [x \in Nodes |-> Walk({x}, {})]
Reachable == Walk(StartNodes, {})

\* Tarjan's SCCs, by what they are: mutual reachability.
SameScc(x, y) == y \in ReachOf[x] /\ x \in ReachOf[y]

\* An edge inside one SCC is a cycle edge, any other a tree edge.
TreeEdges == {e \in Edges : ~SameScc(Conn[e].from, Conn[e].to)}
Cyclic == {x \in Nodes : \E e \in Edges \ TreeEdges : x = Conn[e].from}

-----------------------------------------------------------------------------
(***************************************************************************)
(* Input sides.                                                            *)
(***************************************************************************)

WiredInputs(x) == {Conn[e].inp : e \in Incoming(x)}

\* Required inputs nothing feeds, below the highest wired index: never written.
DeadInputs(x) ==
  {i \in Required[x] : i \notin WiredInputs(x) /\ \E j \in WiredInputs(x) : i < j}

InputIndexes == [x \in Nodes |-> WiredInputs(x) \cup DeadInputs(x)]

\* joinFormOf: the gadget form of the input side.
Form(x) ==
  IF Cardinality(InputIndexes[x]) <= 1
    THEN IF Cardinality(Incoming(x) \cap TreeEdges) > 1 THEN "or"
         ELSE IF Cardinality(Incoming(x)) <= 1 THEN "direct" ELSE "join"
    ELSE IF Required[x] = {} THEN "join" ELSE "choose-branch"

Forms == [x \in Nodes |-> Form(x)]

\* The k-safety facts: inputs fed by more than one edge.
MultiProducer(x) == \E i \in WiredInputs(x) : Cardinality({e \in Incoming(x) : Conn[e].inp = i}) > 1

\* Positional pairing needs every node to fire once: the budget drops to 1 otherwise.
BudgetKept(requested) == requested
EffectiveBudget(requested) ==
  IF Cyclic # {} \/ \E x \in Nodes : MultiProducer(x) THEN 1 ELSE requested

-----------------------------------------------------------------------------
(***************************************************************************)
(* $('Y') references and the skips somebody must hear of.                  *)
(***************************************************************************)

\* References with a read arc on Y's markers: Y unreachable, or reachable around x.
Guarded ==
  [x \in Nodes |->
     {y \in References[x] \ {x} : y \notin Reachable \/ y \in Walk(StartNodes, {x})}]

Referenced == UNION {Guarded[x] : x \in Nodes}

\* Unreachable referenced nodes: their skipped marker is seeded.
SeededSkipped == Referenced \ Reachable

SkipObservers ==
  {x \in Nodes : Forms[x] # "direct" \/ x \in Referenced \/ x \in Cyclic \/ x \in LoopNodes}

SkipObservable == WalkBack(SkipObservers)

\* A skipped node forwards its empties only when a successor must hear of it.
ForwardsToReferenced == {x \in Nodes : \E e \in Outgoing(x) : Conn[e].to \in Referenced}
SkipForwards == {x \in Nodes : \E e \in Outgoing(x) : Conn[e].to \in SkipObservable}

=============================================================================
