---- MODULE MCSettlement ----
EXTENDS Settlement, TLC

Edge(from, out, to, in) == [from |-> from, out |-> out, to |-> to, in |-> in]
GraphOf(edges, batch) == Analysed(edges, "T", MarkedBack(edges, batch))

\* Two branches of the trigger joined, one of them through a step that may be skipped.
Joined == GraphOf({Edge("T", 0, "A", 0), Edge("T", 0, "C", 0), Edge("A", 0, "J", 0),
                   Edge("C", 1, "S", 0), Edge("S", 0, "J", 1)}, {})
\* The same join of two steps, for the executions that are cancelled.
Cut == GraphOf({Edge("T", 0, "A", 0), Edge("T", 0, "C", 0), Edge("A", 0, "J", 0), Edge("C", 1, "J", 1)}, {})
\* A self loop beside a branch, its exit joined with the branch.
Looped == GraphOf({Edge("T", 0, "B", 0), Edge("T", 0, "D", 0), Edge("B", 1, "B", 0),
                   Edge("B", 0, "J", 0), Edge("D", 0, "J", 1)}, {"B"})

McGraphs == [cut |-> Cut, joined |-> Joined, looped |-> Looped]
====
