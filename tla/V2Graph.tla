------------------------------- MODULE V2Graph -------------------------------
(***************************************************************************)
(* The graph engine v2 is given, and the analysis of it: the port of n8n's *)
(* V1WorkflowConverter (analysis/engine-v2/root.ts), its loop marking      *)
(* (loops.ts) and its validator (shape.ts).  Every operator here is pure   *)
(* and takes the graph it reads, so that one run can hold a graph in a     *)
(* variable and another can fix a few of them by a constant.               *)
(*                                                                         *)
(* An edge is a record [from, out, to, in]: the two nodes and the two slot *)
(* indices.  Edges are a set: dedupeEdges keeps one edge per key, and node *)
(* ids here never collide in a key.  Of a node's description only what the *)
(* converter asks of it is kept: whether it is disabled, of a trigger      *)
(* type, a Split In Batches, and the traits it refuses.                    *)
(***************************************************************************)
EXTENDS Naturals, FiniteSets, FiniteSetsExt

DoneSlot == 0
LoopSlot == 1
NoLoop == "outside every loop"

Into(n, edges) == {e \in edges : e.to = n}
OutOf(n, edges) == {e \in edges : e.from = n}
Targets(edges) == {e.to : e \in edges}

(* reachFrom: what a walk from `starts` along `edges` visits, itself included. *)
ReachFrom(starts, edges) ==
    LET visit[seen \in SUBSET (starts \cup Targets(edges))] ==
          LET next == seen \cup {e.to : e \in {x \in edges : x.from \in seen}}
          IN IF next = seen THEN seen ELSE visit[next]
    IN visit[starts]

Component(n, edges) == {m \in ReachFrom({n}, edges) : n \in ReachFrom({m}, edges)}

(* The components a cycle runs through, a self loop included. *)
CyclicComponents(edges) ==
    {Component(e.from, edges) : e \in {x \in edges : x.from \in ReachFrom({x.to}, edges)}}

-----------------------------------------------------------------------------
(***************************************************************************)
(* The converter.  A description d is a record: nodes, edges, disabled,    *)
(* batch (the Split In Batches v3), triggers (the nodes of a trigger type),*)
(* fired (the trigger the caller names, or Unnamed) and traits, a function *)
(* from each node to the subset of Traits it shows.                        *)
(***************************************************************************)
Unnamed == "no trigger named"
ConverterTraits == {"continueErrorOutput", "mergeChooseBranch", "mergeExpressionMode", "batchConfig"}
Traits == ConverterTraits \cup {"aiOutput", "unexecutable"}

EnabledTriggers(d) == d.triggers \ d.disabled

TriggerRefusals(d) ==
    IF d.fired # Unnamed
      THEN IF d.fired \notin d.nodes \ d.disabled THEN {"unknownTrigger"}
           ELSE IF d.fired \notin d.triggers THEN {"notATrigger"} ELSE {}
      ELSE IF Cardinality(EnabledTriggers(d)) > 1 THEN {"ambiguousTrigger"} ELSE {}

(* The trigger that fired, if there is one: without, the converter goes on to its end. *)
FiredTrigger(d) == IF d.fired # Unnamed THEN {d.fired} ELSE EnabledTriggers(d)

(* rootAt: the nodes the trigger reaches, walking through disabled nodes too. *)
Rooted(d) == IF FiredTrigger(d) = {} THEN d.nodes ELSE ReachFrom(FiredTrigger(d), d.edges)

NodeRefusals(d) ==
    UNION {d.traits[n] \cap ConverterTraits : n \in Rooted(d) \ (d.disabled \cup FiredTrigger(d))}

TypeRefusals(d) == IF \E n \in Rooted(d) : "aiOutput" \in d.traits[n] THEN {"connectionType"} ELSE {}

(* One disabled node spliced out: an edge into its input 0 is joined to every edge out of it. *)
Splice(edges, n) ==
    LET incoming == {e \in Into(n, edges) : e.from # n /\ e.in = 0}
        outgoing == {e \in OutOf(n, edges) : e.to # n}
    IN {e \in edges : e.from # n /\ e.to # n}
         \cup {[from |-> p[1].from, out |-> p[1].out, to |-> p[2].to, in |-> p[2].in] :
                 p \in incoming \X outgoing}

(* One round of markBackEdges over the edges not yet marked. *)
EntriesOf(members, edges, batch) ==
    LET outside == {e.to : e \in {x \in edges : x.to \in members /\ x.from \notin members}}
    IN IF outside # {} THEN outside ELSE members \cap batch

RoundRefusals(edges, batch) ==
    UNION {IF members \cap batch = {} THEN {"unbatchedCycle"}
           ELSE IF \E entry \in batch : EntriesOf(members, edges, batch) = {entry} THEN {}
           ELSE {"loopEntry"} : members \in CyclicComponents(edges)}

RoundMarks(edges, batch) ==
    {e \in edges : \E members \in CyclicComponents(edges) :
                      e.from \in members /\ EntriesOf(members, edges, batch) = {e.to}}

-----------------------------------------------------------------------------
(***************************************************************************)
(* The validator, on the converted graph: its nodes, edges, trigger, batch *)
(* nodes and back edges.                                                   *)
(***************************************************************************)
LoopHeads(back) == Targets(back)

LoopOf(n, edges, back) ==
    IF \E b \in LoopHeads(back) : n \in Component(b, edges)
      THEN CHOOSE b \in LoopHeads(back) : n \in Component(b, edges)
      ELSE NoLoop

LoopRefusals(b, edges, back, batch, trigger) ==
    LET members == Component(b, edges)
        forward == edges \ back
        entries == {e \in Into(b, forward) : e.from \notin members}
        exits == {e \in forward : e.from \in members /\ e.to \notin members}
        When(rule, holds) == IF holds THEN {rule} ELSE {}
    IN When("triggerInLoop", trigger \in members)
       \cup When("nestedLoop", \E n \in members \ {b} : n \in batch)
       \cup When("backEdgeSlot", \E e \in Into(b, back) : e.in # 0)
       \cup When("severalBackEdges", Cardinality(Into(b, back)) > 1)
       \cup When("batchInputSlot", \E e \in Into(b, forward) : e.in # 0)
       \cup When("batchOutputSlot", \E e \in OutOf(b, edges) : e.out \notin {DoneSlot, LoopSlot})
       \cup When("severalEntries", Cardinality(entries) > 1)
       \cup When("midBodyExit", \E e \in exits : e.from # b)
       \cup When("loopSlotExit", \E e \in exits : e.from = b /\ e.out # DoneSlot)
       \cup When("doneFeedsMember", \E e \in OutOf(b, edges) : e.out = DoneSlot /\ e.to \in members)
       \cup When("midBodyEntry", \E e \in forward : e.to \in members \ {b} /\ e.from \notin members)

ShapeRefusals(nodes, edges, back, batch, trigger) ==
    LET reachable == ReachFrom({trigger}, edges)
        forward == edges \ back
    IN (IF CyclicComponents(forward) # {} THEN {"forwardCycle"} ELSE {})
       \cup (IF (batch \cap nodes) \ LoopHeads(back) # {} THEN {"noBackEdge"} ELSE {})
       \cup UNION {LoopRefusals(b, edges, back, batch, trigger) : b \in LoopHeads(back)}
       \cup (IF \E e \in edges : e.to \in reachable /\ e.from \notin reachable
               THEN {"unreachableFeeder"} ELSE {})
       \cup (IF \E e \in forward : \E f \in forward \ {e} : e.to = f.to /\ e.in = f.in
               THEN {"convergingInput"} ELSE {})

EdgeClass(e, edges, back) ==
    LET source == LoopOf(e.from, edges, back)
        target == LoopOf(e.to, edges, back)
    IN IF e \in back THEN "back"
       ELSE IF source # NoLoop /\ source = target THEN "intra"
       ELSE IF source # NoLoop THEN "exit"
       ELSE IF target # NoLoop THEN "entry" ELSE "plain"

(***************************************************************************)
(* The analysis of an accepted graph, which is all the net, the codec and  *)
(* the settlement policy read of it: the nodes the trigger reaches, their  *)
(* edges, each node's loop (its batch node) and each edge's class.         *)
(***************************************************************************)
Analysed(edges, trigger, back) ==
    LET reachable == ReachFrom({trigger}, edges)
        kept == {e \in edges : e.from \in reachable}
    IN [nodes |-> reachable, trigger |-> trigger, edges |-> kept,
        loop |-> [n \in reachable |-> LoopOf(n, kept, back)],
        class |-> [e \in kept |-> EdgeClass(e, kept, back)]]

(* markBackEdges: rounds until one is refused or marks nothing. *)
Marking(edges, batch) ==
    LET mark[known \in SUBSET edges] ==
          LET refused == RoundRefusals(edges \ known, batch)
              next == known \cup RoundMarks(edges \ known, batch)
          IN IF refused # {} \/ next = known THEN [refused |-> refused, back |-> known] ELSE mark[next]
    IN mark[{}]
MarkedBack(edges, batch) == Marking(edges, batch).back

-----------------------------------------------------------------------------
(***************************************************************************)
(* The whole analysis of a workflow (analysis/engine-v2/analyse): the      *)
(* converter's steps in n8n's order, the validator on what it produced,    *)
(* then the steps v2 has no executor for.  Of several defects of one stage *)
(* all are given, the code throws its first.  Connections of a key that    *)
(* names no node are left out.                                             *)
(***************************************************************************)
\* The throw sites of n8n without a code of ours: a graph of the port never gets there.
Silent == {"unknownEndpoint", "notBatchTarget", "backEdgeFromOutside"}

\* refuseV2.
Raised(sites) == IF sites \cap Silent # {} THEN "internal" ELSE "refused"

Spliced(edges, disabled) == FoldSet(LAMBDA n, es : Splice(es, n), edges, disabled)

\* convert: the refusals of its first refusing step, or the graph.
Converted(d) ==
    LET kept == Rooted(d) \cap d.nodes
        live == kept \ d.disabled
        edges == Spliced({e \in d.edges : e.from \in kept /\ e.to \in kept}, kept \cap d.disabled)
        marking == Marking(edges, live \cap d.batch)
        steps == <<TriggerRefusals(d), NodeRefusals(d), TypeRefusals(d), marking.refused,
                   IF FiredTrigger(d) = {} THEN {"noTrigger"} ELSE {}>>
        refusing == {i \in DOMAIN steps : steps[i] # {}}
    IN IF refusing # {} THEN [refused |-> steps[Min(refusing)]]
       ELSE [refused |-> {}, trigger |-> CHOOSE t \in FiredTrigger(d) : TRUE, nodes |-> live,
             edges |-> edges, back |-> marking.back, unrooted |-> d.nodes \ kept,
             spliced |-> kept \cap d.disabled]

\* What the port checks where n8n does, though nothing it converts can break it.
BrokenInvariants(nodes, edges, back, batch) ==
    (IF \E e \in edges : e.from \notin nodes \/ e.to \notin nodes THEN {"unknownEndpoint"} ELSE {})
      \cup (IF LoopHeads(back) \subseteq batch THEN {} ELSE {"notBatchTarget"})
      \cup (IF \E e \in back : e.from \notin Component(e.to, edges) THEN {"backEdgeFromOutside"} ELSE {})

StepRefusals(d, reachable) ==
    IF \E n \in reachable : "unexecutable" \in d.traits[n] THEN {"unsupportedStep"} ELSE {}

\* analyseEngineV2.
AnalyseV2(d) ==
    LET c == Converted(d)
        shape == BrokenInvariants(c.nodes, c.edges, c.back, d.batch)
                   \cup ShapeRefusals(c.nodes, c.edges, c.back, d.batch, c.trigger)
    IN IF c.refused # {} THEN [refused |-> c.refused]
       ELSE IF shape # {} THEN [refused |-> shape]
       ELSE [refused |-> StepRefusals(d, ReachFrom({c.trigger}, c.edges)),
             graph |-> Analysed(c.edges, c.trigger, c.back)]

-----------------------------------------------------------------------------
(***************************************************************************)
(* What the rest relies on in an accepted graph: every node but the        *)
(* trigger is fed, no cycle runs through forward edges, and a loop is one  *)
(* strongly connected component, entered and re-entered at its batch node  *)
(* by one edge each, and left by that node's done slot alone.              *)
(***************************************************************************)
LoopIsClosed(g, b) ==
    LET Of(class) == {e \in Into(b, g.edges) : (g.class[e] = "back") = class}
        members == {n \in g.nodes : g.loop[n] = b}
    IN /\ \E return \in Of(TRUE), entry \in Of(FALSE) :
            /\ Of(TRUE) = {return} /\ Of(FALSE) = {entry}
            /\ return.from \in members /\ entry.from \notin members
       /\ \A S \in SUBSET (members \ {b}) : S # {} =>
            /\ \E e \in g.edges : e.from \notin S /\ e.to \in S
            /\ \E e \in g.edges : e.from \in S /\ e.to \notin S

IsAccepted(g) ==
    /\ g.trigger \in g.nodes /\ NoLoop \notin g.nodes
    /\ \A e \in g.edges : e.from \in g.nodes /\ e.to \in g.nodes
    /\ \A n \in g.nodes : g.loop[n] = NoLoop \/ (g.loop[n] \in g.nodes /\ g.loop[g.loop[n]] = g.loop[n])
    /\ g.loop[g.trigger] = NoLoop
    /\ \A n \in g.nodes : n = g.trigger <=> Into(n, g.edges) = {}
    /\ \A S \in SUBSET g.nodes : S # {} =>
         \E n \in S : \A e \in Into(n, g.edges) : e.from \in S => g.class[e] = "back"
    /\ \A e \in g.edges :
         /\ g.class[e] = "back" => g.loop[e.to] = e.to
         /\ g.loop[e.to] \notin {NoLoop, e.to} => g.loop[e.from] = g.loop[e.to]
         /\ g.loop[e.from] = e.from =>
              IF g.loop[e.to] = e.from THEN e.out = LoopSlot ELSE e.out = DoneSlot
         /\ g.loop[e.from] \notin {NoLoop, e.from} => g.loop[e.to] = g.loop[e.from]
    /\ \A b \in g.nodes : g.loop[b] = b => LoopIsClosed(g, b)
=============================================================================
