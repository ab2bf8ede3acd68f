--------------------------- MODULE AnalysisChecks ---------------------------
(***************************************************************************)
(* What analyse() computes, over every graph of three nodes and every      *)
(* small description, is what WorkflowGraph states; then Reader and        *)
(* StepGraph over small stored workflows and step graphs.  Evaluated by    *)
(* TLC at start-up.                                                        *)
(***************************************************************************)
LOCAL INSTANCE Reader

LOCAL Three == 1 .. 3
LOCAL Graphs == SUBSET (Three \X Three)
LOCAL SuccessorSeqs(g) == [x \in Three |-> SetToSeq({y \in Three : <<x, y>> \in g})]

\* Tarjan's components are the classes of mutual reachability, each emitted after every
\* component it reaches: the order depthOf relies on.
ASSUME ComponentsAreMutualReachability ==
  \A g \in Graphs :
    LET succ == SuccessorSeqs(g)
        sccs == Tarjan(<<1, 2, 3>>, succ)
        reach == [x \in Three |-> ReachableFrom({x}, succ)]
    IN  /\ \A x \in Three : Cardinality({i \in DOMAIN sccs : x \in sccs[i]}) = 1
        /\ \A x, y \in Three : (SccOf(sccs, x) = SccOf(sccs, y)) <=> (y \in reach[x] /\ x \in reach[y])
        /\ \A e \in g : SccOf(sccs, e[2]) <= SccOf(sccs, e[1])

-----------------------------------------------------------------------------
LOCAL ANode(x, required) ==
  [name |-> x, id |-> x, pos |-> <<x % 2, x>>, onError |-> "stopWorkflow", inputs |-> 2, outputs |-> 1,
   required |-> required, refs |-> <<>>, rounds |-> {}, calls |-> {}]
LOCAL Free == [count |-> {}, list |-> {}]
LOCAL First == [count |-> {}, list |-> {<<0>>}]
LOCAL Both == [count |-> {2}, list |-> {}]
LOCAL Wires == {<<x, 0, y, i>> : x \in Three, y \in {2, 3}, i \in {0, 1}}
LOCAL Describe(required, connections, tools) ==
  [nodes |-> [x \in Three |-> ANode(x, IF x = 3 THEN required ELSE Free)],
   connections |-> connections, tools |-> tools, starts |-> <<1>>]
LOCAL Listed(S) == SetToSeq(S)
LOCAL UpTo(n, S) == {T \in SUBSET S : Cardinality(T) <= n}
LOCAL NoOptions == [profile |-> "v1", rounds |-> {}, calls |-> {}, trigger |-> {}]
LOCAL ToolSets == UpTo(2, {<<2, 3>>, <<3, 2>>, <<1, 3>>, <<1, 2>>})

\* The graph WorkflowGraph is stated over, from the edges analyse() numbered.
LOCAL G(d) == INSTANCE WorkflowGraph WITH
  Nodes <- Names(d),
  Conn <- [i \in DOMAIN MainEdges(d) |->
             LET e == MainEdges(d)[i] IN [from |-> e[1], out |-> e[2], to |-> e[3], inp |-> e[4]]],
  StartNodes <- Entries(d.starts), Trigger <- d.starts[1],
  Required <- [x \in Names(d) |-> UNION RequiredInputs(NodeOf(d, x))],
  References <- [x \in Names(d) |-> {}], LoopNodes <- {}

\* WorkflowGraph's operators, which the gadgets' model reads, are what the walks find.
ASSUME GraphIsWhatTheWalksFind ==
  \A connections \in UpTo(3, Wires) :
  \A required \in IF Cardinality(connections) = 3 THEN {First} ELSE {Free, First, Both} :
    LET d == Describe(required, Listed(connections), <<>>)
        sccs == Sccs(d)
    IN  /\ CyclicNodes(d, sccs) = G(d)!Cyclic
        /\ \A i \in DOMAIN MainEdges(d) : (EdgeKind(sccs, MainEdges(d)[i]) = "tree") <=> (i \in G(d)!TreeEdges)
        /\ ReachableNodes(d) = G(d)!Reachable
        /\ \A n \in Entries(d.nodes) : FormOf(d, sccs, n) = G(d)!Form(n.name)

\* Along every tree edge out of a reachable node depth grows, so the deeper node has the
\* higher priority, and by no more than the longest path; a start's own depth is 0 unless
\* another start reaches it.
ASSUME DepthFollowsTheEdges ==
  \A connections \in UpTo(4, {w \in Wires : w[4] = 0}) :
    LET d == Describe(Free, Listed(connections), <<>>)
        sccs == Sccs(d)
        depth == DepthOf(d, sccs)
        tree == {e \in Entries(MainEdges(d)) : EdgeKind(sccs, e) = "tree" /\ e[1] \in ReachableNodes(d)}
    IN  /\ \A e \in tree : depth[e[3]] > depth[e[1]]
        /\ \A x \in Names(d) : depth[x] > 0 =>
             \E e \in tree : SccOf(sccs, e[3]) = SccOf(sccs, x) /\ depth[e[1]] = depth[x] - 1

(***************************************************************************)
(* The result does not depend on the order a file lists its nodes,         *)
(* connections and tools in, nor on a connection listed twice: two         *)
(* executions of one workflow share one compiled net.                      *)
(***************************************************************************)
ASSUME FileOrderIsForgotten ==
  \A connections \in UpTo(2, Wires) : \A tools \in ToolSets :
    LET listed == Listed(connections)
        d == Describe(Free, listed, Listed(tools))
        e == [nodes |-> Reverse(d.nodes), connections |-> Reverse(listed) \o listed,
              tools |-> Reverse(d.tools), starts |-> d.starts]
    IN  /\ Refusals(e, NoOptions) = Refusals(d, NoOptions)
        /\ Refusals(d, NoOptions) = {} => Digest(e, NoOptions) = Digest(d, NoOptions)

\* A tool is fed by nothing and feeds nothing on a main edge, and no node lost an input
\* that another producer still feeds; a tool is deeper than its agents, but in a dispatch cycle.
ASSUME ToolsAnswerTheirAgentsOnly ==
  \A connections \in UpTo(3, {w \in Wires : w[4] = 0}) : \A tools \in ToolSets :
    LET d == Describe(Free, Listed(connections), Listed(tools))
        main == Entries(MainEdges(d))
        depth == DepthOf(d, Sccs(d))
        dispatch == [x \in Three |-> SetToSeq(ToolsOf(d, x))]
    IN  Refusals(d, NoOptions) = {} =>
          /\ \A e \in main : ~IsTool(d, e[1]) /\ ~IsTool(d, e[3])
          /\ \A e, f \in connections : e \notin main /\ f[3] = e[3] => f \notin main
          /\ \A x \in Three : \A y \in ToolsOf(d, x) :
               x \notin ReachableFrom({y}, dispatch) => depth[y] > depth[x]

-----------------------------------------------------------------------------
LOCAL Plain == [inputs |-> {}, chooses |-> FALSE]
LOCAL RawNode(x, type, id) ==
  [name |-> {x}, id |-> id, type |-> type, version |-> 1, pos |-> <<0, x>>, disabled |-> FALSE, onError |-> {},
   params |-> Plain, mentions |-> <<>>, rounds |-> {}, calls |-> {}, policyCalls |-> {}]
LOCAL Wire(from, key, group, to, type, index) ==
  [from |-> from, key |-> key, group |-> group, to |-> to, type |-> type, index |-> index]
LOCAL Empty == [x \in {} |-> 0]
LOCAL NoTypes == [byName |-> Empty, byVersion |-> Empty, byType |-> Empty]
LOCAL Options == [profile |-> "v1", rounds |-> {}, calls |-> {}, trigger |-> {}]

\* A node's id prefixes every place name of its gadget. Ids may be missing, empty, hold a '/',
\* occur twice, or be spelled as a fallback: the prefixes still differ.
ASSUME PrefixesDiffer ==
  \A a, b, c \in {{}, {0}, {-1}, {1}, {100}, {101}, {102}} :
    LET ids == NodePrefixes(<< <<a, 0>>, <<b, 1>>, <<c, 2>> >>)
    IN  Cardinality(Entries(ids)) = 3 /\ \A x \in Entries(ids) : x > 0

-----------------------------------------------------------------------------
LOCAL Kinds == {"plain", "trigger", "stickyNote", "if"}
LOCAL AsWritten ==
  {Wire(f, "main", o, {t}, {"main"}, {o}) : f \in {1, 2}, o \in {0, 1}, t \in {2, 3}}
  \cup {Wire(f, k, 0, {2}, {k}, {0}) : f \in {1, 3}, k \in {"ai_tool", "ai_model"}}
LOCAL AsFound ==
  {Wire(f, "main", 0, t, y, i) : f \in {1, 9}, t \in {{}, {2}, {8}}, y \in {{}, {"ai_tool"}}, i \in {{}, {1}}}
LOCAL Raw(kinds, wires) ==
  [nodes |-> [x \in 1 .. 3 |-> RawNode(x, kinds[x], {x})], wires |-> SetToSeq(wires)]
LOCAL KindSeqs == {<<a, b, "plain">> : a \in {"plain", "trigger"}, b \in Kinds}
LOCAL FailsOver(raw, x) == [raw EXCEPT !.nodes[x].onError = {"continueErrorOutput"}]

\* Whatever a file without node types holds, the description the reader guesses for it passes
\* every check of the analysis on names, ids, starts and connections, error outputs included:
\* a guess never refuses a workflow it cannot see the types of.
ASSUME GuessesAreAdmitted ==
  \A kind \in {"plain", "stickyNote"} : \A wires \in UpTo(2, AsWritten) \cup UpTo(2, AsFound) :
    LET raw == FailsOver(Raw(<<"trigger", kind, "plain">>, wires), 1)
    IN  JsonRefused(raw, FALSE, {}) \/ Refusals(DescribeJson(raw, NoTypes, FALSE, {}), Options) = {}

\* What n8n's node types declare, and the same as a node-types file holds it.
LOCAL Declared2 == [ins |-> <<"main", "ai_tool", "main">>, outs |-> <<"main", "main">>, required |-> NoneRequired, labels |-> <<>>]
LOCAL Declared1 == [Declared2 EXCEPT !.labels = <<"true", "false">>]
LOCAL DeclaredTypes == [type \in Kinds |-> IF type = "if" THEN Declared1 ELSE Declared2]
LOCAL SuppliedTypes == [NoTypes EXCEPT !.byType = [type \in Kinds |-> Shape(2, 2)]]
LOCAL Unwired(raw) ==
  \A x \in 1 .. 3 : raw.nodes[x].type = "stickyNote" => \A w \in Entries(raw.wires) : w.from # x /\ w.to # {x}

\* The file reader verifies what the engine runs: for a workflow as n8n writes it, with its
\* types at hand, both readers describe the same nodes, connections and tools.
ASSUME FileReadsAsLive ==
  \A kinds \in KindSeqs : \A wires \in UpTo(2, AsWritten) :
    LET raw == FailsOver(Raw(kinds, wires), 2)
        file == DescribeJson(raw, SuppliedTypes, FALSE, {})
        live == DescribeWorkflow(raw, DeclaredTypes, file.starts, <<>>)
    IN  Unwired(raw) => /\ ~JsonRefused(raw, FALSE, {})
                        /\ file.nodes = live.nodes /\ file.starts = live.starts
                        /\ file.connections = live.connections /\ file.tools = live.tools

\* The start it picks is run, and is a trigger nothing feeds when there is an enabled one.
ASSUME StartIsATrigger ==
  \A kinds \in KindSeqs : \A wires \in UpTo(2, AsWritten) : \A off \in SUBSET {1, 2} :
    LET raw == [Raw(kinds, wires) EXCEPT !.nodes = [x \in 1 .. 3 |-> [@[x] EXCEPT !.disabled = x \in off]]]
        json == JsonNodes(raw, FALSE)
        kept == JsonKept(raw, json, FALSE)
        main == JsonMain(raw, json, FALSE)
        free == {n \in Entries(kept) : n.type = "trigger" /\ ~n.disabled /\ \A c \in Entries(main) : c[3] # n.name}
        start == StartNode({}, kept, main)
    IN  kept # <<>> => /\ start \subseteq {n.name : n \in Entries(kept)}
                       /\ free # {} => start \subseteq {n.name : n \in free}

-----------------------------------------------------------------------------
LOCAL Annotated(a, b) ==
  <<RawNode(1, "trigger", {1}), [RawNode(2, "stickyNote", {2}) EXCEPT !.name = a],
    [RawNode(3, "stickyNote", {3}) EXCEPT !.name = b], RawNode(2000, "plain", {4})>>

\* Under engineV2 n8n's converter walks every main wire: the description holds each one as a
\* connection or lists it as stray, and one without a target leads to every nameless annotation.
ASSUME NoWireIsLost ==
  \A a \in {{}, {2}} : \A b \in {{}, {0}, {3}} :
  \A wires \in UpTo(1, AsFound) \cup {{w, Wire(Undefined, "main", 0, {2}, {"main"}, {0})} : w \in AsFound} :
    LET raw == [nodes |-> Annotated(a, b), wires |-> SetToSeq(wires)]
        json == JsonNodes(raw, TRUE)
        d == DescribeJson(raw, NoTypes, TRUE, {})
        walked == {<<c[1], c[3]>> : c \in Entries(d.connections)} \cup d.stray.main
    IN  NodesRefused(raw, TRUE) \/
        /\ \A w \in Entries(raw.wires) : \A x \in w.to : <<w.from, x>> \in walked
        /\ \A w \in Entries(raw.wires) : \A x \in Entries(json.nameless) : w.to = {} => <<w.from, x>> \in walked
        /\ Cardinality(json.names) = Len(json.nodes)

-----------------------------------------------------------------------------
LOCAL V1(type, goesOn) == [kind |-> "v1", type |-> type, continueOnFail |-> goesOn]
LOCAL Steps ==
  {[id |-> 2, name |-> n, type |-> t, config |-> c] : n \in {1, 2}, t \in {"batch", "v1-node", "wait", "trigger", "loop"},
     c \in {{}, {V1("set", TRUE)}, {V1("splitInBatches", FALSE)}, {[kind |-> "batch", size |-> 0]}, {[kind |-> "batch", size |-> 2]}}}
LOCAL StepEdges == {<<f, o, t, i>> : f \in {1, 2}, o \in {0, 2}, t \in {2, 3}, i \in {-1, 1}}
LOCAL GraphOf(step, edges) ==
  [nodes |-> <<[id |-> 1, name |-> 1, type |-> "trigger", config |-> {}], step>>, edges |-> SetToSeq(edges)]

\* A step graph that is accepted describes a workflow the analysis accepts too, from the
\* graph's one trigger; a graph with two triggers, a stray edge or a batch step out of its
\* two outputs is refused before it is described.
ASSUME StepGraphsAreAdmitted ==
  \A step \in Steps : \A edges \in UpTo(1, StepEdges) \cup {{<<1, 0, 2, 0>>, e} : e \in StepEdges} :
    LET g == GraphOf(step, edges)
    IN  IF Refused(g) THEN
          \/ step.name = 1 \/ step.type \in {"trigger", "loop", "batch", "v1-node"}
          \/ \E e \in edges : e[3] = 3 \/ e[4] < 0
        ELSE /\ Refusals(GraphToDescription(g), Options) = {}
             /\ \A n \in Entries(GraphToDescription(g).nodes) : n.loop => n.outputs = 2

=============================================================================
