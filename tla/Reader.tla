------------------------------- MODULE Reader -------------------------------
(***************************************************************************)
(* A workflow as n8n stores it, and the two readers that turn it into the  *)
(* description Analysis takes: describeWorkflow (n8n/adapter) over a live  *)
(* Workflow, describeWorkflowJson (verify/workflow-json) over an export.   *)
(*                                                                         *)
(* raw.nodes: [name, id, type, version, pos, disabled, onError, params,    *)
(* mentions, rounds, calls].  raw.wires: [from, key, group, to, type,      *)
(* index], in the order of the file.  What may be absent is a set of at    *)
(* most one value; a name or an id 0 is the empty string, an id -1 one     *)
(* with a '/'.                                                             *)
(***************************************************************************)
EXTENDS Analysis

Annotations == {"stickyNote"}
LoopTypes == {"splitInBatches"}
TriggerTypes == {"trigger", "webhook"}
The(y) == CHOOSE v \in y : TRUE
Else(y, z) == IF y # {} THEN y ELSE z
Mapped(s, F(_)) == [i \in DOMAIN s |-> F(s[i])]

-----------------------------------------------------------------------------
(***************************************************************************)
(* Which nodes the scheduler runs, and the id each is named by.            *)
(***************************************************************************)
\* Sources of a wire other than main and ai_tool: sub-nodes, resolved by supplyData.
SubNodeSources(wires) == {w.from : w \in {v \in Entries(wires) : v.key \notin {"main", "ai_tool"}}}

IsSchedulerNode(n, main, tools, subNodes) ==
  /\ n.type \notin Annotations
  /\ \/ \E c \in Entries(main) : n.name \in {c[1], c[3]}
     \/ \E t \in Entries(tools) : n.name \in {t[1], t[2]}
     \/ n.name \notin subNodes
Scheduled(nodes, main, tools, subNodes) ==
  SelectSeq(nodes, LAMBDA n : IsSchedulerNode(n, main, tools, subNodes))

\* n<k> as the code spells it: a string a workflow may use as an id too.
Fallback(k) == 100 + k
Prefix(id, index, used) ==
  IF \E x \in id : x > 0 /\ x \notin used THEN The(id)
  ELSE Fallback(CHOOSE k \in index .. index + Cardinality(used) :
                  /\ Fallback(k) \notin used
                  /\ \A j \in index .. (k - 1) : Fallback(j) \in used)
\* slots: the id and the index of each node, in order.
NodePrefixes(slots) == FoldLeft(LAMBDA ids, s : Append(ids, Prefix(s[1], s[2], Entries(ids))), <<>>, slots)

\* Names an expression of the node mentions, each once, in order.
ScanReferences(n, names) == Distinct(SelectSeq(n.mentions, LAMBDA x : x \in names))
PositiveOption(y) == {k \in y : k > 0}
\* The policy's own maxToolCalls before the node's option.
PolicyCalls(n) == Else(n.policyCalls, PositiveOption(n.calls))

-----------------------------------------------------------------------------
(***************************************************************************)
(* The live reader.  n8n has built the Workflow: connections keep every    *)
(* source and target, and every node type resolves.                        *)
(***************************************************************************)
LiveTargets(raw, key) ==
  LET names == {The(n.name) : n \in Entries(raw.nodes)}
  IN  SelectSeq(raw.wires, LAMBDA w : /\ w.key = key /\ w.type = {key}
                                      /\ w.from \in names /\ w.to \subseteq names /\ w.to # {})
LiveMain(raw) == Mapped(LiveTargets(raw, "main"), LAMBDA w : <<w.from, w.group, The(w.to), The(w.index)>>)
LiveTools(raw) == Mapped(LiveTargets(raw, "ai_tool"), LAMBDA w : <<The(w.to), w.from>>)

\* n8n's getNodeInputs and getNodeOutputs, over [ins, outs, required, labels] of the node's
\* type: it adds the error output last.
NodeInputs(n, declared) == declared.ins
NodeOutputs(n, declared) ==
  IF n.onError = {"continueErrorOutput"} THEN Append(declared.outs, "main") ELSE declared.outs
OfMain(ports) == SelectSeq(ports, LAMBDA p : p = "main")
LabelsOf(outs, labels) ==
  LET at == [i \in DOMAIN outs |-> IF i \in DOMAIN labels THEN labels[i] ELSE ""]
  IN  IF \A i \in DOMAIN at : at[i] = "" THEN {} ELSE {at}
LiveShape(n, declared) ==
  LET outs == OfMain(NodeOutputs(n, declared))
      own == SubSeq(outs, 1, Len(outs) - (IF n.onError = {"continueErrorOutput"} THEN 1 ELSE 0))
  IN  [inputs |-> Len(OfMain(NodeInputs(n, declared))), outputs |-> Len(own), required |-> declared.required,
       loop |-> n.type \in LoopTypes, labels |-> LabelsOf(own, declared.labels)]

\* What Analysis reads of a node, its shape looked up.
Described(n, id, shape, names) ==
  [name |-> n.name, id |-> id, pos |-> n.pos, onError |-> IF n.onError = {} THEN "stopWorkflow" ELSE The(n.onError),
   inputs |-> shape.inputs, outputs |-> shape.outputs, required |-> shape.required,
   refs |-> ScanReferences(n, names), rounds |-> PositiveOption(n.rounds), calls |-> PolicyCalls(n)]

\* The nodes that await and those that ran, each once: a resumed run starts from both.
StartNodesOf(stack, ran) == Distinct(stack \o ran)

DescribeWorkflow(raw, declared, stack, ran) ==
  LET all == Mapped(raw.nodes, LAMBDA n : [n EXCEPT !.name = The(@)])
      names == {n.name : n \in Entries(all)}
      kept == Scheduled(all, LiveMain(raw), LiveTools(raw), SubNodeSources(raw.wires))
      ids == NodePrefixes([i \in DOMAIN kept |-> <<kept[i].id, i - 1>>])
  IN  [nodes |-> [i \in DOMAIN kept |-> Described(kept[i], ids[i], LiveShape(kept[i], declared[kept[i].type]), names)],
       connections |-> LiveMain(raw), tools |-> LiveTools(raw), starts |-> StartNodesOf(stack, ran)]

-----------------------------------------------------------------------------
(***************************************************************************)
(* The file reader.  engineV2 keeps the annotations: n8n's converter does. *)
(***************************************************************************)
ResolveProfile(choice, settings) ==
  IF choice = {"auto"} THEN IF settings = {"v2"} THEN "engineV2" ELSE "v1"
  ELSE IF choice = {} THEN "v1" ELSE The(choice)

Unnamed(n) == n.name \in {{}, {0}}
Nameless(n, v2) == n.type \in Annotations /\ v2 /\ n.name = {}
KeptIndexes(raw, v2) ==
  {i \in DOMAIN raw.nodes : LET n == raw.nodes[i] IN
     \/ n.type \notin Annotations
     \/ v2 /\ ~Unnamed(n)
     \/ Nameless(n, v2)}
NodesRefused(raw, v2) ==
  LET kept == KeptIndexes(raw, v2)
  IN  \/ \E i \in kept : Unnamed(raw.nodes[i]) /\ ~Nameless(raw.nodes[i], v2)
      \/ \E i, j \in kept : i # j /\ raw.nodes[i].name = raw.nodes[j].name /\ raw.nodes[i].name # {}

\* '(nameless nodes[i])', primed until it is nobody's name.
Primed(i, k) == 1000 * i + k
NamelessName(i, taken) ==
  LET ks == 0 .. Cardinality(taken)
      k == CHOOSE k \in ks : Primed(i, k) \notin taken /\ \A j \in ks : j < k => Primed(i, j) \in taken
  IN  Primed(i, k)

\* The nodes kept, named, and with the index they had in the file.
JsonNodes(raw, v2) ==
  LET at == SetToSortSeq(KeptIndexes(raw, v2), LAMBDA i, j : i < j)
      taken == UNION {raw.nodes[i].name : i \in KeptIndexes(raw, v2)}
      Name(named, i) ==
        LET n == raw.nodes[i]
            new == IF Nameless(n, v2) THEN NamelessName(i, taken \cup {m.name : m \in Entries(named)}) ELSE The(n.name)
        IN  Append(named, [n EXCEPT !.name = new])
      nodes == FoldLeft(Name, <<>>, at)
      nameless == SelectSeq(at, LAMBDA i : Nameless(raw.nodes[i], v2))
  IN  [nodes |-> nodes, names |-> {n.name : n \in Entries(nodes)},
       ids |-> NodePrefixes([k \in DOMAIN at |-> <<raw.nodes[at[k]].id, at[k] - 1>>]),
       nameless |-> [k \in DOMAIN nameless |-> nodes[CHOOSE j \in DOMAIN at : at[j] = nameless[k]].name]]

\* Under engineV2 a wire without a target means the last nameless annotation: n8n keys
\* nodes by name, so the one spelled undefined is whichever came last.
Target(w, json, v2) ==
  IF w.to = {} /\ w.key = "main" /\ v2 /\ json.nameless # <<>> THEN {json.nameless[Len(json.nameless)]} ELSE w.to
NotAnIndex == -1
JsonTargets(raw, json, v2, key) ==
  SelectSeq(raw.wires, LAMBDA w :
    /\ w.key = key /\ w.type \in {{}, {key}} /\ w.from \in json.names
    /\ \E x \in Target(w, json, v2) : x \in json.names)
JsonMain(raw, json, v2) ==
  Mapped(JsonTargets(raw, json, v2, "main"), LAMBDA w :
    <<w.from, w.group, The(Target(w, json, v2)),
      IF w.index # {} THEN The(w.index) ELSE IF v2 THEN NotAnIndex ELSE 0>>)
JsonTools(raw, json, v2) ==
  Mapped(JsonTargets(raw, json, v2, "ai_tool"), LAMBDA w : <<The(w.to), w.from>>)

\* What an engineV2 description lists beside its connections: n8n walks those too.
AiOutputs(wires, from) ==
  {w.key : w \in {v \in Entries(wires) : v.from = from /\ v.key # "main"}}
  \cup {IF w.type = {} THEN "undefined" ELSE The(w.type) :
          w \in {v \in Entries(wires) : v.from = from /\ v.key = "main" /\ v.type # {"main"}}}
Undefined == -2
StrayConnections(raw, names, nameless) ==
  LET main == SelectSeq(raw.wires, LAMBDA w : w.key = "main")
      through == UNION {w.to : w \in {v \in Entries(main) : v.from = Undefined}}
      held(w) == w.from \in names /\ w.to \subseteq names /\ w.type \in {{}, {"main"}}
  IN  [main |-> UNION {IF w.to = {} THEN {<<w.from, x>> : x \in Entries(nameless) \cup through}
                       ELSE IF held(w) THEN {} ELSE {<<w.from, The(w.to)>>} : w \in Entries(main)},
       sources |-> {s \in {[name |-> x, aiOutputs |-> AiOutputs(raw.wires, x)] :
                              x \in {w.from : w \in Entries(raw.wires)} \ names} : s.aiOutputs # {}}]

-----------------------------------------------------------------------------
(***************************************************************************)
(* Shapes: the supplied one, then the built-in, then a guess from the use. *)
(***************************************************************************)
NoneRequired == [count |-> {}, list |-> {}]
Shape(ins, outs) == [inputs |-> ins, outputs |-> outs, required |-> NoneRequired, loop |-> FALSE, labels |-> {}]

\* params: [inputs, chooses] of a merge.
MergeInputs(params) == IF \E k \in params.inputs : k >= 2 THEN The(params.inputs) ELSE 2
BuiltIn(type, params) ==
  CASE type = "if" -> {[Shape(1, 2) EXCEPT !.labels = {<<"true", "false">>}]}
    [] type = "filter" -> {Shape(1, 1)}
    [] type = "splitInBatches" -> {[Shape(1, 2) EXCEPT !.loop = TRUE, !.labels = {<<"done", "loop">>}]}
    [] type = "compareDatasets" -> {Shape(2, 4)}
    [] type = "merge" -> {[Shape(MergeInputs(params), 1) EXCEPT !.required.list = IF params.chooses THEN {<<0, 1>>} ELSE {}]}
    [] OTHER -> {}

WithLoop(type, shape) == [shape EXCEPT !.loop = @ \/ type \in LoopTypes]
\* A supplied shape of the built-in's size takes the names and the required inputs it lacks.
WithBuiltInNames(type, params, shape) ==
  LET known == {b \in BuiltIn(type, params) : b.inputs = shape.inputs /\ b.outputs = shape.outputs}
  IN  IF known = {} THEN shape
      ELSE [shape EXCEPT !.labels = Else(@, The(known).labels),
                         !.required = IF @ = NoneRequired THEN The(known).required ELSE @]

\* types: [byName, byVersion, byType], partial functions.
At(fn, x) == IF x \in DOMAIN fn THEN {fn[x]} ELSE {}
Supplied(n, types) ==
  Else(At(types.byName, n.name), Else(At(types.byVersion, <<n.type, n.version>>), At(types.byType, n.type)))

MaxPort(ports) == IF ports = {} THEN -1 ELSE CHOOSE p \in ports : \A o \in ports : o <= p
LooksLikeTrigger(type) == type \in TriggerTypes
Guessed(n, main) ==
  LET into == MaxPort({c[4] : c \in {e \in Entries(main) : e[3] = n.name}})
      out == MaxPort({c[2] : c \in {e \in Entries(main) : e[1] = n.name}}) + 1
      errors == IF n.onError = {"continueErrorOutput"} THEN 1 ELSE 0
  IN  Shape(IF into >= 0 THEN into + 1 ELSE IF LooksLikeTrigger(n.type) THEN 0 ELSE 1,
            IF out - errors > 1 THEN out - errors ELSE 1)

ShapeOf(n, main, types) ==
  LET supplied == Supplied(n, types)
      known == BuiltIn(n.type, n.params)
  IN  WithLoop(n.type, IF supplied # {} THEN WithBuiltInNames(n.type, n.params, The(supplied))
                       ELSE IF known # {} THEN The(known) ELSE Guessed(n, main))

-----------------------------------------------------------------------------
(***************************************************************************)
(* The start node: an enabled root, a trigger before any other.            *)
(***************************************************************************)
FirstOf(s) == IF s = <<>> THEN {} ELSE {s[1].name}
PickStart(nodes, main) ==
  LET ordered == SetToSortSeq(Entries(nodes), Above)
      roots == SelectSeq(ordered, LAMBDA n : ~n.disabled /\ \A c \in Entries(main) : c[3] # n.name)
      triggers == SelectSeq(roots, LAMBDA n : LooksLikeTrigger(n.type))
  IN  Else(FirstOf(triggers), Else(FirstOf(roots), FirstOf(ordered)))
StartRefused(requested, scheduled, main) ==
  Else(requested, PickStart(scheduled, main)) \cap {n.name : n \in Entries(scheduled)} = {}
StartNode(requested, scheduled, main) == Else(requested, PickStart(scheduled, main))

JsonKept(raw, json, v2) ==
  IF v2 THEN json.nodes
  ELSE Scheduled(json.nodes, JsonMain(raw, json, v2), JsonTools(raw, json, v2), SubNodeSources(raw.wires))

JsonRefused(raw, v2, requested) ==
  \/ NodesRefused(raw, v2)
  \/ LET json == JsonNodes(raw, v2)
     IN  IF v2 THEN requested # {}
         ELSE StartRefused(requested, JsonKept(raw, json, v2), JsonMain(raw, json, v2))

DescribeJson(raw, types, v2, requested) ==
  LET json == JsonNodes(raw, v2)
      main == JsonMain(raw, json, v2)
      kept == JsonKept(raw, json, v2)
      guessFrom == SelectSeq(main, LAMBDA c : ~v2 \/ c[4] >= 0)
      idOf(n) == json.ids[CHOOSE i \in DOMAIN json.nodes : json.nodes[i].name = n.name]
      stray == StrayConnections(raw, json.names, json.nameless)
  IN  [nodes |-> Mapped(kept, LAMBDA n : Described(n, idOf(n), ShapeOf(n, guessFrom, types), json.names)),
       connections |-> main, tools |-> JsonTools(raw, json, v2),
       starts |-> IF v2 THEN <<>> ELSE SetToSeq(StartNode(requested, kept, main)),
       stray |-> IF v2 THEN stray ELSE [main |-> {}, sources |-> {}]]

-----------------------------------------------------------------------------
(***************************************************************************)
(* graphToDescription, n8n/v2-graph.ts: the graph engine v2 hands over,    *)
(* read as a workflow description, or refused.                             *)
(*                                                                         *)
(* graph.nodes: [id, name, type, config], config {} when absent, else      *)
(* what the step's own check reads of it.  graph.edges: <<from, output,    *)
(* to, input>> over ids; an index that is no whole number is -1.           *)
(***************************************************************************)
StepTypes == {"trigger", "v1-node", "wait", "subworkflow", "batch"}
ManualTrigger == "manualTrigger"
SplitInBatches == "splitInBatches"
BatchOutputs == <<"done", "loop">>

\* config: [kind |-> "v1", type, continueOnFail] | [kind |-> "batch", size] | [kind |-> "other"].
TriggerConfig(n) == {c \in n.config : c.kind = "v1"}
BatchConfig(n) == {c \in n.config : c.kind = "batch" /\ c.size >= 1}

NodeById(g, id) == CHOOSE n \in Entries(g.nodes) : n.id = id
Triggers(g) == SelectSeq(g.nodes, LAMBDA n : n.type = "trigger")
MaxIn(g, n) == MaxPort({e[4] : e \in {f \in Entries(g.edges) : f[3] = n.id}})
MaxOut(g, n) == MaxPort({e[2] : e \in {f \in Entries(g.edges) : f[1] = n.id}})

GraphRefused(g) ==
  \/ Twice(g.nodes, "id") \/ Twice(g.nodes, "name")
  \/ Len(Triggers(g)) # 1
  \/ \E e \in Entries(g.edges) : {e[1], e[3]} \ {n.id : n \in Entries(g.nodes)} # {} \/ e[2] < 0 \/ e[4] < 0

StepRefused(g, n) ==
  \/ n.type \notin StepTypes
  \/ n.type = "batch" /\ (BatchConfig(n) = {} \/ MaxOut(g, n) >= Len(BatchOutputs))
  \/ n.type = "v1-node" /\ n.config # {} /\ TriggerConfig(n) = {}
  \/ n.type = "v1-node" /\ \E c \in TriggerConfig(n) : c.type = SplitInBatches

StepNodeType(n) ==
  CASE n.type = "trigger" -> The(Else({c.type : c \in TriggerConfig(n)}, {ManualTrigger}))
    [] n.type = "batch" -> SplitInBatches
    [] n.type = "v1-node" -> The(Else({c.type : c \in TriggerConfig(n)}, {"opaque"}))
    [] OTHER -> n.type
StepShape(g, n) ==
  IF n.type = "batch"
    THEN [Shape(MaxIn(g, n) + 1, Len(BatchOutputs)) EXCEPT !.loop = TRUE, !.labels = {BatchOutputs}]
    ELSE Shape(MaxIn(g, n) + 1, MaxOut(g, n) + 1)
\* A failing step of a v1 node told to continue answers on its regular output.
StepOnError(n) ==
  IF n.type = "v1-node" /\ \E c \in TriggerConfig(n) : c.continueOnFail THEN "continueRegularOutput" ELSE "stopWorkflow"

StepNode(g, i) ==
  LET n == g.nodes[i]
      shape == StepShape(g, n)
  IN  [name |-> n.name, id |-> n.id, pos |-> <<i - 1, 0>>, onError |-> StepOnError(n), type |-> StepNodeType(n),
       inputs |-> shape.inputs, outputs |-> shape.outputs, required |-> shape.required,
       loop |-> shape.loop, refs |-> <<>>, rounds |-> {}, calls |-> {}]

Refused(g) == GraphRefused(g) \/ \E n \in Entries(g.nodes) : StepRefused(g, n)
GraphToDescription(g) ==
  [nodes |-> [i \in DOMAIN g.nodes |-> StepNode(g, i)],
   connections |-> Mapped(g.edges, LAMBDA e : <<NodeById(g, e[1]).name, e[2], NodeById(g, e[3]).name, e[4]>>),
   tools |-> <<>>, starts |-> <<Triggers(g)[1].name>>]
=============================================================================
