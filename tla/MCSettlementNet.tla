---------------------------- MODULE MCSettlementNet ----------------------------
(***************************************************************************)
(* Four small graphs for the engineV2 net, and what the port of n8n's      *)
(* converter promises over small descriptions, as assumptions TLC          *)
(* evaluates: among them what the net and its proofs take for granted of a *)
(* graph.                                                                  *)
(***************************************************************************)
EXTENDS SettlementNet, TLC, ConformanceChecks, NetShapeChecks

Edge(from, out, to, in) == [from |-> from, out |-> out, to |-> to, in |-> in]
GraphOf(edges, batch) == Analysed(edges, "T", MarkedBack(edges, batch))

\* An If whose two sides join again, the sides skipped or run.
Diamond == GraphOf({Edge("T", 0, "A", 0), Edge("A", 0, "L", 0), Edge("A", 1, "R", 0),
                    Edge("L", 0, "J", 0), Edge("R", 0, "J", 1), Edge("J", 0, "Z", 0)}, {})
\* A loop whose body forks and joins, left by its done slot.
Forked == GraphOf({Edge("T", 0, "B", 0), Edge("B", 1, "X", 0), Edge("B", 1, "Y", 0),
                   Edge("X", 0, "V", 0), Edge("Y", 0, "V", 1), Edge("V", 0, "B", 0),
                   Edge("B", 0, "Z", 0)}, {"B"})
\* A self loop that is reached by a conditional edge, its exit joined with the other side.
SelfLoop == GraphOf({Edge("T", 0, "A", 0), Edge("A", 0, "B", 0), Edge("A", 1, "J", 0),
                     Edge("B", 1, "B", 0), Edge("B", 0, "J", 1)}, {"B"})
\* Two slots into one consumer, so that the node routes split.
SplitRoutes == GraphOf({Edge("T", 0, "S", 0), Edge("S", 0, "J", 0), Edge("S", 1, "J", 1), Edge("S", 2, "K", 0)}, {})

McGraphs == [diamond |-> Diamond, forked |-> Forked, selfLoop |-> SelfLoop, split |-> SplitRoutes]

-----------------------------------------------------------------------------
AtMost(k, S) == UNION {kSubset(i, S) : i \in 0 .. k}
Description(edges, disabled, batch) ==
    [nodes |-> {"T", "A", "B"}, edges |-> edges, disabled |-> disabled, batch |-> batch, triggers |-> {"T"},
     fired |-> Unnamed, traits |-> [n \in {"T", "A", "B"} |-> {}]]

Wires == {<<"T", "A">>, <<"T", "B">>, <<"A", "B">>, <<"B", "A">>, <<"A", "A">>, <<"B", "B">>, <<"A", "T">>}
Wirings == {Edge(p[1], o, p[2], 0) : p \in Wires, o \in {0, 1}}
Descriptions ==
    {Description(edges, disabled, batch) :
       edges \in AtMost(4, Wirings), disabled \in {{}, {"B"}}, batch \in {{"A"}, {"A", "B"}}}

(***************************************************************************)
(* "An entry with no codes is a throw that cannot fire on a graph the port *)
(* produces" (refusals.ts), and "marks made by markBackEdges always leave  *)
(* an acyclic rest" (shape.ts): whatever converts, the validator raises    *)
(* none of them.                                                           *)
(***************************************************************************)
ASSUME PortIsClosed ==
    \A d \in Descriptions : LET r == AnalyseV2(d).refused IN Raised(r) = "refused" /\ "forwardCycle" \notin r

(***************************************************************************)
(* Whatever the validator accepts is what the net, the codec and the       *)
(* proofs about them rely on: a loop is entered once, returns once, and is *)
(* left by the done slot of its batch node alone, every member lies on the *)
(* way from it back to it, and nothing else runs in a circle.              *)
(***************************************************************************)
ASSUME AcceptedIsSound ==
    \A d \in Descriptions : LET r == AnalyseV2(d) IN r.refused = {} => IsAccepted(r.graph)

(***************************************************************************)
(* Splicing one disabled node after the other joins exactly the live nodes *)
(* a path through disabled ones joins, each entered on its input 0, and    *)
(* the order of the nodes does not matter.                                 *)
(***************************************************************************)
Through(edges, disabled) ==
    LET Joined(seen) == {[from |-> p[1].from, out |-> p[1].out, to |-> p[2].to, in |-> p[2].in] :
                           p \in {q \in seen \X edges : q[1].to \in disabled /\ q[1].to = q[2].from /\ q[1].in = 0}}
        path[k \in 0 .. 2 * Cardinality(edges)] == IF k = 0 THEN edges ELSE path[k - 1] \cup Joined(path[k - 1])
    IN {e \in path[2 * Cardinality(edges)] : e.from \notin disabled /\ e.to \notin disabled}
Bypassed ==
    {<<"T", "D">>, <<"T", "E">>, <<"D", "E">>, <<"E", "D">>, <<"D", "D">>, <<"D", "A">>, <<"E", "A">>, <<"A", "E">>}
ASSUME DisabledAreTransparent ==
    \A edges \in AtMost(4, {Edge(p[1], 0, p[2], i) : p \in Bypassed, i \in {0, 1}}) :
      /\ Splice(Splice(edges, "D"), "E") = Splice(Splice(edges, "E"), "D")
      /\ Spliced(edges, {"D", "E"}) = Through(edges, {"D", "E"})
=============================================================================
