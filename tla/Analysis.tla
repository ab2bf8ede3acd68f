------------------------------ MODULE Analysis ------------------------------
(***************************************************************************)
(* analyse(), compiler/graph.ts: from a workflow's description to the      *)
(* graph the gadgets are built from, as the code computes it: validation,  *)
(* the canonical order, the tools' wiring, Tarjan's walk over an explicit  *)
(* frame stack, and depths.  WorkflowGraph states what the results are.    *)
(*                                                                         *)
(* A description is [nodes, connections, tools, starts, diagnostics], all  *)
(* sequences in the order of the file.  A node's name is a number, ordered *)
(* as its string is; its id is 0 when empty, negative when it holds a '/'. *)
(* A connection is <<from, output, to, input>>, a tool's <<agent, tool>>.  *)
(***************************************************************************)
EXTENDS Integers, Sequences, FiniteSets, SequencesExt

Entries(s) == {s[i] : i \in DOMAIN s}
Names(d) == {n.name : n \in Entries(d.nodes)}
NodeOf(d, x) == CHOOSE n \in Entries(d.nodes) : n.name = x
Twice(s, field) == \E i, j \in DOMAIN s : i # j /\ s[i][field] = s[j][field]
Once(s) == SelectSeq([i \in DOMAIN s |-> <<i, s[i]>>], LAMBDA p : \A j \in 1 .. (p[1] - 1) : s[j] # p[2])
Distinct(s) == [i \in DOMAIN Once(s) |-> Once(s)[i][2]]

-----------------------------------------------------------------------------
(***************************************************************************)
(* Options and validation: the codes analyse() may refuse with.            *)
(***************************************************************************)
ProfileRefusals(options, d) ==
  {c \in {"invalid-options"} :
     \/ options.profile \notin {"v1", "engineV2"}
     \/ options.profile = "engineV2" /\ options.rounds \cup options.calls # {}
     \/ options.profile = "v1" /\ options.trigger # {}}
  \cup {c \in {"empty-workflow"} : d.nodes = <<>> /\ options.profile = "v1"}

IdentityRefusals(d) ==
  {c \in {"duplicate-node-name"} : Twice(d.nodes, "name")}
  \cup {c \in {"empty-node-id"} : \E n \in Entries(d.nodes) : n.id = 0}
  \cup {c \in {"invalid-node-id"} : \E n \in Entries(d.nodes) : n.id < 0}
  \cup {c \in {"duplicate-node-id"} : Twice(d.nodes, "id")}

NodeRefusals(d) ==
  {c \in {"no-start-node"} : d.starts = <<>>}
  \cup {c \in {"unknown-start-node"} : \E s \in Entries(d.starts) : s \notin Names(d)}
  \cup {c \in {"invalid-count"} : \E n \in Entries(d.nodes) : n.inputs < 0 \/ n.outputs < 0}

\* The canvas order, top to bottom and left to right, then by name.
Above(m, n) ==
  \/ m.pos[2] < n.pos[2]
  \/ m.pos[2] = n.pos[2] /\ m.pos[1] < n.pos[1]
  \/ m.pos = n.pos /\ m.name < n.name
Canvas(d) == SetToSortSeq(Entries(d.nodes), Above)
Index(d, x) == CHOOSE i \in DOMAIN d.nodes : Canvas(d)[i].name = x

\* The primary start first, the others in canvas order.
Starts(d) ==
  LET declared == Entries(d.starts)
      rest == SelectSeq(Canvas(d), LAMBDA n : n.name \in declared \ {d.starts[1]})
  IN  <<d.starts[1]>> \o [i \in DOMAIN rest |-> rest[i].name]

ErrorOutput(n) == IF n.onError = "continueErrorOutput" THEN {n.outputs} ELSE {}
OutputCount(n) == n.outputs + Cardinality(ErrorOutput(n))

\* requiredInputs: absent, a number, or a sequence of input indexes.
AllRequired(n) ==
  \/ \E k \in n.required.count : k = n.inputs
  \/ \E s \in n.required.list : Len(s) = n.inputs
RequiredInputs(n) ==
  IF AllRequired(n) THEN {0 .. (n.inputs - 1)}
  ELSE {Entries(s) \cap (0 .. (n.inputs - 1)) : s \in {t \in n.required.list : t # <<>>}}

\* References to nodes of the workflow, each once.
KnownReferences(d, n) == Distinct(SelectSeq(n.refs, LAMBDA y : y \in Names(d)))

-----------------------------------------------------------------------------
(***************************************************************************)
(* The canonical connections: each once, in the order of its ends.         *)
(***************************************************************************)
ConnectionRefusals(d) ==
  UNION {IF c[1] \notin Names(d) \/ c[3] \notin Names(d) THEN {"unknown-connection-node"}
         ELSE {k \in {"output-index-out-of-range"} : c[2] \notin 0 .. (OutputCount(NodeOf(d, c[1])) - 1)}
              \cup {k \in {"input-index-out-of-range"} : c[4] \notin 0 .. (NodeOf(d, c[3]).inputs - 1)}
         : c \in Entries(d.connections)}

Before(d, c, e) ==
  LET key(x) == <<Index(d, x[1]), x[2], Index(d, x[3]), x[4]>>
      j == CHOOSE i \in 1 .. 4 : key(c)[i] # key(e)[i] /\ \A k \in 1 .. (i - 1) : key(c)[k] = key(e)[k]
  IN  c # e /\ key(c)[j] < key(e)[j]
Canonical(d) == SetToSortSeq(Entries(d.connections), LAMBDA c, e : Before(d, c, e))

-----------------------------------------------------------------------------
(***************************************************************************)
(* The tools' wiring: a tool's result goes to its agent, so a node is a    *)
(* tool only while nothing feeds it, and its main outputs carry nothing.   *)
(***************************************************************************)
ToolRefusals(d) ==
  {c \in {"unknown-tool-connection-node"} : \E t \in Entries(d.tools) : t[1] \notin Names(d) \/ t[2] \notin Names(d)}

Fed(d) == {c[3] : c \in Entries(d.connections)}
ToolConnections(d) ==
  LET kept == {t \in Entries(d.tools) : t[1] # t[2] /\ t[2] \notin Fed(d)}
      first(s, t) == \/ Index(d, s[1]) < Index(d, t[1])
                     \/ s[1] = t[1] /\ Index(d, s[2]) < Index(d, t[2])
  IN  SetToSortSeq(kept, first)

AgentsOf(d, x) == {t[1] : t \in {u \in Entries(ToolConnections(d)) : u[2] = x}}
ToolsOf(d, x) == {t[2] : t \in {u \in Entries(ToolConnections(d)) : u[1] = x}}
IsTool(d, x) == AgentsOf(d, x) # {}

\* A node a tool and another node both feed could never be given the tool's side.
MixedRefusals(d) ==
  {c \in {"tool-main-consumer"} :
     \E e, o \in Entries(d.connections) : e[3] = o[3] /\ IsTool(d, e[1]) /\ ~IsTool(d, o[1])}
MainEdges(d) == SelectSeq(Canonical(d), LAMBDA c : ~IsTool(d, c[1]))

-----------------------------------------------------------------------------
(***************************************************************************)
(* Tarjan's algorithm, its recursion an explicit stack of frames; the head *)
(* of a sequence is its top.  index 0 is a node not entered yet.           *)
(***************************************************************************)
SuccessorsOf(d, x) == LET out == SelectSeq(MainEdges(d), LAMBDA e : e[1] = x)
                      IN  [i \in DOMAIN out |-> out[i][3]]

EnterNode(t, v) ==
  [t EXCEPT !.index[v] = t.counter, !.low[v] = t.counter, !.counter = @ + 1,
            !.stack = <<v>> \o @, !.frames = <<[v |-> v, pos |-> 1]>> \o @]

\* Every successor visited: the component is what lies above its root, root included.
LeaveNode(t, v) ==
  IF t.low[v] # t.index[v] THEN t
  ELSE LET k == CHOOSE i \in DOMAIN t.stack : t.stack[i] = v
       IN  [t EXCEPT !.sccs = Append(@, {t.stack[i] : i \in 1 .. k}),
                     !.stack = SubSeq(@, k + 1, Len(@))]

Lower(t, v, n) == [t EXCEPT !.low[v] = IF n < @ THEN n ELSE @]

Visit(t, succ) ==
  LET v == t.frames[1].v
      at == t.frames[1].pos
      on == [t EXCEPT !.frames[1].pos = @ + 1]
      back == LeaveNode([t EXCEPT !.frames = Tail(@)], v)
  IN  IF at <= Len(succ[v])
        THEN LET w == succ[v][at]
             IN  IF t.index[w] = 0 THEN EnterNode(on, w)
                 ELSE IF w \in Entries(t.stack) THEN Lower(on, v, t.index[w])
                 ELSE on
        ELSE IF back.frames = <<>> THEN back
        ELSE Lower(back, back.frames[1].v, back.low[v])

RECURSIVE Unwind(_, _)
Unwind(t, succ) == IF t.frames = <<>> THEN t ELSE Unwind(Visit(t, succ), succ)

\* Components in reverse topological order.
Tarjan(names, succ) ==
  LET unvisited == [n \in Entries(names) |-> 0]
      new == [index |-> unvisited, low |-> unvisited, counter |-> 1,
              stack |-> <<>>, frames |-> <<>>, sccs |-> <<>>]
  IN  FoldLeft(LAMBDA t, v : IF t.index[v] = 0 THEN Unwind(EnterNode(t, v), succ) ELSE t, new, names).sccs

NamesInOrder(d) == [i \in DOMAIN d.nodes |-> Canvas(d)[i].name]
Sccs(d) == Tarjan(NamesInOrder(d), [x \in Names(d) |-> SuccessorsOf(d, x)])
SccOf(sccs, x) == CHOOSE i \in DOMAIN sccs : x \in sccs[i]
CyclicNodes(d, sccs) ==
  UNION {c \in Entries(sccs) : Cardinality(c) > 1} \cup {e[1] : e \in {f \in Entries(MainEdges(d)) : f[1] = f[3]}}
EdgeKind(sccs, e) == IF SccOf(sccs, e[1]) = SccOf(sccs, e[3]) THEN "cycle" ELSE "tree"

-----------------------------------------------------------------------------
(***************************************************************************)
(* Depth: the longest path from a start in the condensation, then one more *)
(* than its agent for a tool, bounded by the number of tool connections.   *)
(***************************************************************************)
SccDepths(d, sccs) ==
  LET starts == [i \in DOMAIN sccs |-> IF sccs[i] \cap Entries(d.starts) # {} THEN 0 ELSE -1]
      reached(i) == {SccOf(sccs, e[3]) : e \in {f \in Entries(MainEdges(d)) : f[1] \in sccs[i] /\ EdgeKind(sccs, f) = "tree"}}
      Relax(depth, i) ==
        IF depth[i] < 0 THEN depth
        ELSE [j \in DOMAIN sccs |-> IF j \in reached(i) /\ depth[j] < depth[i] + 1 THEN depth[i] + 1 ELSE depth[j]]
  IN  FoldLeft(Relax, starts, Reverse([i \in DOMAIN sccs |-> i]))

DepthOf(d, sccs) ==
  LET tools == ToolConnections(d)
      main == [x \in Names(d) |-> LET n == SccDepths(d, sccs)[SccOf(sccs, x)] IN IF n < 0 THEN 0 ELSE n]
      Sink(depth, t) == [depth EXCEPT ![t[2]] = IF @ < depth[t[1]] + 1 THEN depth[t[1]] + 1 ELSE @]
  IN  FoldLeft(LAMBDA depth, pass : FoldLeft(Sink, depth, tools), main, [i \in 1 .. Len(tools) + 1 |-> i])

\* Everything a start reaches, and the tools of every agent that is reached.
ReachableFrom(S, succ) ==
  LET Widen(R) == R \cup UNION {Entries(succ[x]) : x \in R}
      walk[n \in 0 .. Cardinality(DOMAIN succ)] == IF n = 0 THEN S ELSE Widen(walk[n - 1])
  IN  walk[Cardinality(DOMAIN succ)]
ReachableNodes(d) ==
  LET main == ReachableFrom(Entries(d.starts), [x \in Names(d) |-> SuccessorsOf(d, x)])
      tools == [x \in Names(d) |-> SetToSeq(ToolsOf(d, x))]
  IN  ReachableFrom(main, tools)

-----------------------------------------------------------------------------
(***************************************************************************)
(* The assembled node: its form, and an agent's rounds and calls, declared *)
(* or assumed.                                                             *)
(***************************************************************************)
DefaultRounds == 10
DefaultToolCalls == 64

DeadInputsOf(d, n) ==
  LET wired == {e[4] : e \in {f \in Entries(MainEdges(d)) : f[3] = n.name}}
  IN  UNION {{i \in req : i \notin wired /\ \E w \in wired : i < w} : req \in RequiredInputs(n)}

FormOf(d, sccs, n) ==
  LET into == {e \in Entries(MainEdges(d)) : e[3] = n.name}
      inputs == {e[4] : e \in into} \cup DeadInputsOf(d, n)
  IN  IF IsTool(d, n.name) THEN "tool"
      ELSE IF Cardinality(inputs) <= 1
             THEN IF Cardinality({e \in into : EdgeKind(sccs, e) = "tree"}) > 1 THEN "or"
                  ELSE IF Cardinality(into) <= 1 THEN "direct" ELSE "join"
             ELSE IF RequiredInputs(n) = {} THEN "join" ELSE "choose-branch"

Declared(y, z, default) == IF y # {} THEN y ELSE IF z # {} THEN z ELSE {default}
AgentLimits(d, n, options) ==
  IF ToolsOf(d, n.name) = {} THEN [rounds |-> {}, roundsAssumed |-> FALSE, calls |-> {}]
  ELSE [rounds |-> Declared(n.rounds, options.rounds, DefaultRounds),
        roundsAssumed |-> n.rounds = {},
        calls |-> Declared(n.calls, options.calls, DefaultToolCalls)]

\* Only an agent's limits are looked at.
LimitRefusals(d, options) ==
  {c \in {"invalid-count"} :
     \/ \E k \in options.rounds \cup options.calls : k < 1
     \/ \E n \in Entries(d.nodes) : ToolsOf(d, n.name) # {} /\ \E k \in n.rounds \cup n.calls : k < 1}

\* What structuralHash digests: the order of the file is gone.
Digest(d, options) ==
  [profile |-> options.profile, starts |-> Starts(d), nodes |-> Canvas(d),
   limits |-> [i \in DOMAIN d.nodes |-> AgentLimits(d, Canvas(d)[i], options)],
   edges |-> MainEdges(d), tools |-> ToolConnections(d)]

\* The gates in the order analyse() passes them: the first that refuses speaks.
Refusals(d, options) ==
  LET first == ProfileRefusals(options, d)
      second == IdentityRefusals(d) \cup NodeRefusals(d)
      third == ConnectionRefusals(d)
      fourth == ToolRefusals(d)
  IN  IF first # {} THEN first ELSE IF second # {} THEN second
      ELSE IF third # {} THEN third ELSE IF fourth # {} THEN fourth
      ELSE IF MixedRefusals(d) # {} THEN MixedRefusals(d) ELSE LimitRefusals(d, options)

=============================================================================
