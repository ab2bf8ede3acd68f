----------------------------- MODULE MCVerifier -----------------------------
(***************************************************************************)
(* Nets of four state classes: what the last three mark, and how they are  *)
(* joined, are enumerated.  L runs a node of a cycle.                      *)
(***************************************************************************)
EXTENDS Verifier, TLC, PolicyChecks, AnalysisChecks

Bag(places, S, two) == [p \in places |-> IF p \in two THEN 2 ELSE IF p \in S THEN 1 ELSE 0]

Line == {<<1, "a", 2>>, <<2, "b", 3>>, <<3, "c", 4>>}
Fork == {<<1, "start", 2>>, <<1, "skip", 3>>, <<2, "b", 4>>}
Loop == {<<1, "a", 2>>, <<2, "L", 3>>, <<3, "L", 2>>, <<3, "b", 4>>}
Rounds == {<<1, "L", 2>>, <<2, "L", 3>>, <<3, "L", 4>>}
LoopsOf(moves) == {m[2] : m \in moves} \cap {"L"}

\* v1: a join slot, an edge, a running place, a failure place, and the terminals.
Places == {"slot", "edge", "x", "y", "z", "failed", "tries", "retries", "paused", "halted", "waits"}
Roles == [p \in Places |->
  CASE p = "slot" -> "ready" [] p = "edge" -> "edge-data" [] p \in {"x", "y", "z"} -> "running"
    [] p \in {"tries", "retries"} -> "tries" [] p = "failed" -> "failed" [] p = "paused" -> "pause" [] p = "halted" -> "halt" [] OTHER -> "waiting"]
Node(name, running, attempts, line, tries, refunded) ==
  [node |-> name, running |-> running, attempts |-> attempts, line |-> line,
   tries |-> tries, maxTries |-> 2, refunded |-> refunded]
Nodes1 == {Node("A", "x", {}, TRUE, "tries", FALSE), Node("B", "y", {"failed"}, TRUE, "none", FALSE),
           Node("C", "z", {"failed"}, FALSE, "retries", TRUE)}
Joins1 == {[place |-> "slot", or |-> FALSE, round |-> 0], [place |-> "x", or |-> TRUE, round |-> 2]}

Between == {Bag(Places, {"x", "y"}, {}), Bag(Places, {"x"}, {"tries", "failed"})}
Middle == {Bag(Places, {}, {}), Bag(Places, {"slot"}, {}), Bag(Places, {"paused", "slot", "edge"}, {}),
           Bag(Places, {"waits", "slot", "edge"}, {})}
Ends == Middle \cup {Bag(Places, {"halted", "slot", "edge"}, {}), Bag(Places, {"waits", "slot"}, {}),
                     Bag(Places, {}, {"x"})}
V1Nets ==
  {[profile |-> "v1", marks |-> <<Bag(Places, {}, {}), m2, m3, m4>>, moves |-> moves, stuck |-> stuck,
    loops |-> LoopsOf(moves), role |-> Roles, budget |-> "x", units |-> 1,
    nodes |-> Nodes1, wires |-> {<<"C", "A">>}, start |-> "B", joins |-> Joins1, edges |-> {"edge"}] :
     moves \in {Line, Fork, Loop, Rounds}, m2 \in Between, m3 \in Middle, m4 \in Ends, stuck \in {{}, {4}}}
V1Lines == {<<{}, FALSE, {"mutex"}>>, <<{"proper-completion", "budget"}, TRUE, {}>>,
            <<{"settlement", "retry-bound", "mutual-exclusion"}, FALSE, {}>>}
V1Opts ==
  {[properties |-> l[1], strict |-> l[2], flags |-> l[3], maxClasses |-> cap, builds |-> cap # 1,
    solver |-> s[1], closes |-> s[2]] :
     l \in V1Lines, cap \in {0, 1, 3, 9},
     s \in {<<"absent", {}>>, <<"refused", {}>>, <<"answers", {"whole"}>>,
            <<"answers", {"whole", "bound", "together", "dead"}>>}}

\* engineV2: an edge's arrival, a running step, and a node done, skipped or failed.
StepPlaces == {"arrived", "runs", "done", "skipped", "halted"}
StepRoles == [p \in StepPlaces |-> IF p = "runs" THEN "running" ELSE IF p = "halted" THEN "halt" ELSE p]
Steps2 == {[pairs |-> {<<"start", "skip">>}, running |-> "runs", markers |-> {"done", "skipped"}],
           [pairs |-> {}, running |-> "arrived", markers |-> {}]}
Steps == {Bag(StepPlaces, {"runs"}, {}), Bag(StepPlaces, {"arrived"}, {"runs"})}
Settled == {Bag(StepPlaces, S, {}) :
              S \in {{"done"}, {"skipped"}, {"done", "skipped"}, {"done", "arrived"}, {"halted", "arrived"}}}
V2Nets ==
  {[profile |-> "engineV2", marks |-> <<Bag(StepPlaces, {"arrived"}, {}), m2, m3, m4>>, moves |-> moves,
    stuck |-> {}, loops |-> {}, role |-> StepRoles, steps |-> Steps2, ended |-> {"done"}] :
     moves \in {Line, Fork}, m2 \in Steps, m3 \in Settled, m4 \in Settled}
V2Opts ==
  {[properties |-> l[1], strict |-> l[2], flags |-> l[3], maxClasses |-> cap, builds |-> TRUE,
    solver |-> "absent", closes |-> {}] :
     l \in {<<{}, TRUE, {}>>, <<{"settlement", "dead-nodes"}, FALSE, {}>>, <<{}, FALSE, {"start"}>>},
     cap \in {0, 2, 3, 9}}

\* z3 is time blind: nets with a class that is stuck in time are left to the graph.
MCCases ==
  {[net |-> n, opts |-> o] : n \in V2Nets, o \in V2Opts}
  \cup {[net |-> n, opts |-> o] : n \in {x \in V1Nets : x.stuck = {}}, o \in V1Opts}
  \cup {[net |-> n, opts |-> o] : n \in {x \in V1Nets : x.stuck # {}}, o \in {x \in V1Opts : x.closes = {}}}

=============================================================================
