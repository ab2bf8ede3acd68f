------------------------------ MODULE Verifier ------------------------------
(***************************************************************************)
(* n8n-libpetri verify: a report over the state-class graph of a compiled  *)
(* net, and over z3 where the graph did not close (verify/).               *)
(*                                                                         *)
(* A net is its state classes, numbered from 1, the initial one: what each *)
(* marks, the moves between them <<from, transition, to>>, the classes     *)
(* that are stuck in time although something is enabled, the transitions   *)
(* that run a node of a cycle, the role of each place, and its gadgets.  A *)
(* graph is what libpetri explored of it under a cap.                      *)
(***************************************************************************)
EXTENDS Integers, Sequences, FiniteSets, SequencesExt, FiniteSetsExt

CONSTANTS
  Cases,        \* the nets verified, each with the command line it is verified with
  FirstPass,    \* FIRST_PASS_MAX_CLASSES
  Affordable    \* the classes the heap can hold

\* A net has an initial class, and its moves join its classes.  z3 does not know time: where
\* it answers for the whole net, no class is stuck in time.
IsNet(n) ==
  /\ {"marks", "moves", "loops"} \subseteq DOMAIN n
  /\ Len(n.marks) \in Nat \ {0}
  /\ \A m \in n.moves : {m[1], m[3]} \subseteq 1 .. Len(n.marks)
TimeIsSeen(n, o) == o.solver = "answers" /\ "whole" \in o.closes => n.stuck = {}
ASSUME CasesAssumption == \A x \in Cases : IsNet(x.net) /\ TimeIsSeen(x.net, x.opts)

VARIABLES
  case,    \* the net and the command line
  pass,    \* where the command is: flags, first, full or done
  report,  \* the checks recorded so far
  exit     \* the exit code, -1 until there is one
vars == <<case, pass, report, exit>>

(***************************************************************************)
(* Which tokens may rest: a finished run, one that is paused, one halted.  *)
(***************************************************************************)
RestRoles == {"idle", "done", "skipped", "free", "tries", "budget", "halt", "pause",
              "waiting", "stopped", "ran", "nil", "rounds", "calls"}
TerminalRoles == {"pause", "halt", "waiting", "stopped"}
PauseRestRoles == RestRoles \cup {"in-data", "ready", "hasdata", "retry", "failed",
                                  "in-tool", "queue", "drained", "outstanding", "dispatched"}
HaltRestRoles == PauseRestRoles \cup {"in-empty", "edge-data", "edge-empty"}
SettlementPendingRoles == {"arrived", "live", "running", "ok"}

Marked(n, c) == {p \in DOMAIN n.role : n.marks[c][p] > 0}
RolesAt(n, c) == {n.role[p] : p \in Marked(n, c)}

\* A marking that holds both markers is encoded on the halt path.
TerminalKind(roles) ==
  IF "halt" \in roles THEN "halt" ELSE IF roles \cap TerminalRoles # {} THEN "pause" ELSE "none"
RestRolesFor(kind) ==
  CASE kind = "halt" -> HaltRestRoles [] kind = "pause" -> PauseRestRoles [] OTHER -> RestRoles

\* The pending work a class at rest holds: a stranding, when there is any.
Pending(n, c) ==
  {p \in Marked(n, c) : n.role[p] \notin RestRolesFor(TerminalKind(RolesAt(n, c)))}
SettlementResidue(n, c) == {p \in Marked(n, c) : n.role[p] \in SettlementPendingRoles}

\* The same filter declared to the solver: sinks, and more sinks while a marker is marked.
ConditionalSinks == {<<"pause", PauseRestRoles>>, <<"halt", HaltRestRoles>>}
CompletionSinks(n, c) ==
  RestRoles \cup UNION {s[2] : s \in {t \in ConditionalSinks : t[1] \in RolesAt(n, c)}}
OutsideSinks(n, c) == {p \in Marked(n, c) : n.role[p] \notin CompletionSinks(n, c)}

-----------------------------------------------------------------------------
(***************************************************************************)
(* The graph.  libpetri pops classes in the order it found them and stops  *)
(* once it holds `cap` of them.                                            *)
(***************************************************************************)
EffectiveMaxClasses(requested) ==
  IF requested <= 0 THEN requested ELSE Max({1, Min({requested, Affordable})})

Leaving(moves, c) == {m \in moves : m[1] = c}
NewClasses(n, g) ==
  SetToSeq({m[3] : m \in Leaving(n.moves, g.found[g.head + 1])} \ ToSet(g.found))
Pop(n, cap, g) ==
  IF g.head = Len(g.found) \/ Len(g.found) >= cap THEN g
  ELSE [found |-> g.found \o NewClasses(n, g), head |-> g.head + 1]

Popped(n, cap) ==
  LET Bfs[i \in 0 .. Len(n.marks)] ==
        IF i = 0 THEN [found |-> <<1>>, head |-> 0] ELSE Pop(n, cap, Bfs[i - 1])
  IN Bfs

StateClassGraph(n, cap) ==
  LET end == Popped(n, cap)[Len(n.marks)]
  IN [found |-> end.found, complete |-> end.head = Len(end.found), built |-> TRUE,
      moves |-> {m \in n.moves : \E i \in 1 .. end.head : end.found[i] = m[1]}]

\* No graph when libpetri refuses the net or runs out of memory.
NoGraph == [found |-> << >>, complete |-> FALSE, built |-> FALSE, moves |-> {}]
Explore(n, o, requested) ==
  IF o.builds THEN StateClassGraph(n, EffectiveMaxClasses(requested)) ELSE NoGraph

Enabled(n, c) ==
  {m[2] : m \in Leaving(n.moves, c)} \cup (IF c \in n.stuck THEN {"timed"} ELSE {})

\* Classes whose successors were computed are a prefix: it ends with the last that has any.
ExpandedPrefix(g) ==
  IF g.complete THEN Len(g.found)
  ELSE Max({0} \cup {i \in DOMAIN g.found : Leaving(g.moves, g.found[i]) # {}})
WasExpanded(n, g, i) == i <= ExpandedPrefix(g) \/ Enabled(n, g.found[i]) = {}

\* At rest: nothing enabled, or nothing that can fire where the graph did try.
IsQuiescent(n, g, i) ==
  \/ Enabled(n, g.found[i]) = {}
  \/ (WasExpanded(n, g, i) /\ Leaving(g.moves, g.found[i]) = {})

(***************************************************************************)
(* The fewest runs of cyclic nodes on a path to each class, and the number *)
(* of them every run of which the prefix closes, 0 for none.               *)
(***************************************************************************)
Weight(n, m) == IF m[2] \in n.loops THEN 1 ELSE 0
Onwards(n, moves, most, before) ==
  before \cup {<<x[2][3], x[1][2] + Weight(n, x[2])>> :
                 x \in {y \in before \X moves : y[1][1] = y[2][1] /\ y[1][2] + Weight(n, y[2]) <= most}}
Walks(n, moves, most) ==
  LET W[i \in 0 .. Len(n.marks) * (most + 1)] ==
        IF i = 0 THEN {<<1, 0>>} ELSE Onwards(n, moves, most, W[i - 1])
  IN W
LoopRuns(n, moves, most) == Walks(n, moves, most)[Len(n.marks) * (most + 1)]

LoopDistances(n, g) ==
  LET reached == LoopRuns(n, g.moves, Len(g.found))
  IN [c \in {w[1] : w \in reached} |-> Min({w[2] : w \in {v \in reached : v[1] = c}})]
NearestFrontier(n, g) ==
  LET d == LoopDistances(n, g)
  IN {d[g.found[i]] : i \in {j \in DOMAIN g.found : ~WasExpanded(n, g, j) /\ g.found[j] \in DOMAIN d}}

RunsToFrontier(n, g) ==
  LET near == IF g.complete \/ ~g.built \/ n.loops = {} THEN {} ELSE NearestFrontier(n, g)
  IN IF near = {} THEN 0 ELSE Min(near)
ClosedCyclicRuns(n, g) == Max({0, RunsToFrontier(n, g) - 1})

-----------------------------------------------------------------------------
(***************************************************************************)
(* The questions.  Breaks is what a class has to be to answer one: over a  *)
(* bound, two nodes running at once, a node that does run, work stranded   *)
(* at rest; of an engineV2 net start and skip enabled together, a node     *)
(* decided twice or, in a run that did not fail, never, a loop likewise.   *)
(***************************************************************************)
Ask(f, k, a) == [family |-> f, kind |-> k, a |-> a]
AskBound(f, p, most) == [family |-> f, kind |-> "bound", a |-> p, most |-> most]

Count(n, c, places) == FoldSet(LAMBDA p, k : n.marks[c][p] + k, 0, places)
SettledRest(n, c, atRest) == atRest /\ "halt" \notin RolesAt(n, c)

CoMarked(n, c, a, b) == {a, b} \subseteq Marked(n, c)

Breaks(n, q, c, atRest) ==
  CASE q.kind \in {"bound", "tries"} -> n.marks[c][q.a] > q.most
    [] q.kind = "chain" -> \E p \in q.places : n.marks[c][p] > 1
    [] q.kind = "together" -> CoMarked(n, c, q.a, q.b)
    [] q.kind = "dead" -> n.marks[c][q.a] > 0
    [] q.kind = "whole" -> atRest /\ Pending(n, c) # {}
    [] q.kind = "completes" -> atRest /\ q.a \in Pending(n, c)
    [] q.kind = "exclusive" -> {q.a, q.b} \subseteq Enabled(n, c)
    [] q.kind = "rests" -> SettledRest(n, c, atRest) /\ SettlementResidue(n, c) # {}
    [] q.kind = "decided" ->
         IF SettledRest(n, c, atRest) THEN Count(n, c, q.places) # 1 ELSE Count(n, c, q.places) > 1
    [] OTHER -> FALSE

Found(n, g, q) ==
  \E i \in DOMAIN g.found : Breaks(n, q, g.found[i], IsQuiescent(n, g, i))
AtRest(q) == q.kind \in {"rests", "decided"}
RestClasses(n, g) ==
  {i \in DOMAIN g.found : SettledRest(n, g.found[i], IsQuiescent(n, g, i))}

\* A witness is decisive however little was explored, its absence only in a complete graph.
GraphVerdict(n, g, q) ==
  IF Found(n, g, q) THEN "violated" ELSE IF g.complete THEN "proven" ELSE "unknown"

(***************************************************************************)
(* z3: what it closes is true of every reachable class, and it is time     *)
(* blind.  One whole-net question is asked for every completion row, and   *)
(* its witness is some class at rest outside the sinks.  Bound, together   *)
(* and dead questions are answered here over the timed classes; the query  *)
(* asked of z3 is about the untimed net, so a net whose untimed markings   *)
(* break a question that its timed classes keep is not among the cases.    *)
(***************************************************************************)
Reachable(n) == {w[1] : w \in LoopRuns([n EXCEPT !.loops = {}], n.moves, 0)}
Witnesses(n) == {c \in Reachable(n) : Enabled(n, c) = {} /\ OutsideSinks(n, c) # {}}

AskedAs(q) == IF q.kind = "tries" THEN "bound" ELSE q.kind
SmtDecision(n, o, q) ==
  IF o.solver # "answers" \/ AskedAs(q) \notin o.closes THEN "unknown"
  ELSE IF \E c \in Reachable(n) : Breaks(n, q, c, FALSE) THEN "violated" ELSE "proven"

Excused(n, w) == Pending(n, w) = {}
WitnessMarks(n, w, p) == p \in Marked(n, w)
WitnessStrands(n, w, p) == p \in Pending(n, w)

Completion(n, o, w) ==
  IF o.solver # "answers" \/ "whole" \notin o.closes THEN "unknown"
  ELSE IF Witnesses(n) = {} THEN "proven"
  ELSE IF Excused(n, w) THEN "unknown" ELSE "violated"

BoundedOrUnknown(n, g, verdict) ==
  IF verdict = "unknown" /\ ClosedCyclicRuns(n, g) >= 1 THEN "bounded" ELSE verdict

WholeNetVerdict(n, o, g, q, w) ==
  IF GraphVerdict(n, g, q) # "unknown" THEN GraphVerdict(n, g, q)
  ELSE BoundedOrUnknown(n, g, Completion(n, o, w))

\* A row takes the answer of the whole net, but a stranding only where it is the row's own.
RowVerdict(n, o, g, q, w) ==
  IF GraphVerdict(n, g, q) = "unknown" /\ Completion(n, o, w) = "violated"
  THEN IF WitnessStrands(n, w, q.a) THEN "violated" ELSE "unknown"
  ELSE WholeNetVerdict(n, o, g, q, w)

BoundVerdict(n, o, g, q) ==
  IF GraphVerdict(n, g, q) # "unknown" THEN GraphVerdict(n, g, q)
  ELSE BoundedOrUnknown(n, g, SmtDecision(n, o, q))

\* A marked running place is not a proof of life, an unmarked one is of death.
DeadVerdict(n, o, g, q) ==
  LET decision == IF GraphVerdict(n, g, q) # "unknown" THEN GraphVerdict(n, g, q)
                  ELSE SmtDecision(n, o, q)
  IN IF decision = "proven" /\ ~q.entry THEN "violated" ELSE "unknown"

\* The bound on a failure place or on the tries, and what produces it.
WeakestVerdict(verdicts) ==
  IF "violated" \in verdicts THEN "violated"
  ELSE IF "unknown" \in verdicts THEN "unknown"
  ELSE IF "bounded" \in verdicts THEN "bounded" ELSE "proven"
ChainVerdict(n, o, g, q) ==
  IF q.refunded THEN "violated"
  ELSE WeakestVerdict({BoundVerdict(n, o, g, AskBound(q.family, p, 1)) : p \in q.places})
TriesVerdict(n, o, g, q) ==
  LET b == BoundVerdict(n, o, g, q)
  IN IF q.refunded THEN "violated" ELSE IF b \in {"proven", "bounded"} THEN b ELSE "unknown"

\* engineV2: the graph alone, and no claim about rests when nothing rests.
SettlementVerdict(n, g, q) ==
  LET answer == GraphVerdict(n, g, q)
  IN IF answer = "proven" /\ AtRest(q) /\ RestClasses(n, g) = {} THEN "unknown" ELSE answer

Verdict(n, o, g, q, w) ==
  IF q.kind = "none" THEN "unknown"
  ELSE IF n.profile = "engineV2" THEN SettlementVerdict(n, g, q)
  ELSE CASE q.kind \in {"bound", "together"} -> BoundVerdict(n, o, g, q)
    [] q.kind = "dead" -> DeadVerdict(n, o, g, q)
    [] q.kind = "chain" -> ChainVerdict(n, o, g, q)
    [] q.kind = "tries" -> TriesVerdict(n, o, g, q)
    [] q.kind = "whole" -> WholeNetVerdict(n, o, g, q, w)
    [] OTHER -> RowVerdict(n, o, g, q, w)

-----------------------------------------------------------------------------
(***************************************************************************)
(* The questions each family asks of a net: of its nodes, its join inputs, *)
(* its edges; of its steps, arrivals and loops under engineV2.             *)
(***************************************************************************)
BudgetQuestions(n) == {AskBound("budget", n.budget, n.units)}
ActivationQuestions(n) == {AskBound("no-double-activation", x.running, 1) : x \in n.nodes}

\* A chain that is not a line of attempts, and tries something produces, are no bound at all.
AttemptBounds(n) ==
  UNION {{AskBound("retry-bound", p, 1) : p \in x.attempts} : x \in n.nodes}
ChainQuestions(n) ==
  {[family |-> "retry-bound", kind |-> "chain", places |-> x.attempts, refunded |-> ~x.line] :
     x \in {y \in n.nodes : y.attempts # {}}}
TriesBounds(n) == {AskBound("retry-bound", x.tries, x.maxTries - 1) : x \in {y \in n.nodes : y.tries # "none"}}
TriesQuestions(n) ==
  {[family |-> "retry-bound", kind |-> "tries", a |-> x.tries, most |-> x.maxTries - 1,
    refunded |-> x.refunded] : x \in {y \in n.nodes : y.tries # "none"}}

ExclusionQuestions(n) ==
  {[family |-> "mutual-exclusion", kind |-> "together", a |-> p[1].running, b |-> p[2].running] :
     p \in {z \in n.nodes \X n.nodes : z[1] # z[2]}}

\* What only another entry point of the workflow reaches is not dead.
Onward(n, from) ==
  LET F[i \in 0 .. Cardinality(n.nodes)] ==
        IF i = 0 THEN from ELSE LET b == F[i - 1] IN b \cup {w[2] : w \in {v \in n.wires : v[1] \in b}}
  IN F[Cardinality(n.nodes)]
Entries(n) ==
  {x.node : x \in n.nodes} \ (Onward(n, {n.start}) \cup {w[2] : w \in n.wires})
DeadQuestions(n) ==
  {[family |-> "dead-nodes", kind |-> "dead", a |-> x.running,
    entry |-> x.node \in Onward(n, Entries(n)) \ Onward(n, {n.start})] : x \in n.nodes}

\* An OR input queues a round, a join slot holds one arrival.
ArrivalCapacity(j) == IF j.or THEN j.round ELSE 1
CompletionQuestions(n) ==
  {Ask("proper-completion", "whole", "none")}
  \cup {AskBound("proper-completion", j.place, ArrivalCapacity(j)) : j \in n.joins}
  \cup {Ask("proper-completion", "completes", p) : p \in {j.place : j \in n.joins} \cup n.edges}

\* Start against skip of a step, a batch's second pair too; done and skipped; a loop's end.
SettlementQuestions(n) ==
  {[family |-> "settlement", kind |-> "exclusive", a |-> p[1], b |-> p[2]] :
     p \in UNION {x.pairs : x \in n.steps}}
  \cup {AskBound("settlement", p, 1) :
          p \in {q \in DOMAIN n.role : n.role[q] = "arrived"} \cup {x.running : x \in n.steps}}
  \cup {Ask("settlement", "rests", "none")}
  \cup {[family |-> "settlement", kind |-> "decided", places |-> x.markers] :
          x \in {y \in n.steps : y.markers # {}}}
  \cup {[family |-> "settlement", kind |-> "decided", places |-> {p}] : p \in n.ended}

AllQuestions(n) ==
  IF n.profile = "engineV2" THEN SettlementQuestions(n)
  ELSE BudgetQuestions(n) \cup ActivationQuestions(n) \cup AttemptBounds(n) \cup ChainQuestions(n)
       \cup TriesBounds(n) \cup TriesQuestions(n) \cup ExclusionQuestions(n)
       \cup DeadQuestions(n) \cup CompletionQuestions(n)

DefaultProperties(profile) ==
  IF profile = "engineV2" THEN {"settlement"}
  ELSE {"budget", "no-double-activation", "dead-nodes", "retry-bound", "proper-completion"}
SelectProperties(o, profile) ==
  IF o.properties # {} THEN o.properties
  ELSE DefaultProperties(profile) \cup (IF "mutex" \in o.flags THEN {"mutual-exclusion"} ELSE {})
Applies(family, profile) == (family = "settlement") = (profile = "engineV2")

\* A family of the other profile is answered by one row that decides nothing.
Questions(n, o) ==
  LET chosen == SelectProperties(o, n.profile) IN
  {q \in AllQuestions(n) : q.family \in chosen}
  \cup {[kind |-> "none", family |-> f] : f \in {x \in chosen : ~Applies(x, n.profile)}}

RunReport(n, o, cap, w) ==
  LET g == Explore(n, o, cap) IN
  [truncated |-> g.built /\ ~g.complete, runs |-> ClosedCyclicRuns(n, g),
   verdicts |-> [q \in Questions(n, o) |-> Verdict(n, o, g, q, w)]]

\* A cyclic net truncates at every cap, and engineV2 has one route: one pass each.
StagedCap(n, o) ==
  IF n.loops # {} \/ n.profile = "engineV2" THEN o.maxClasses ELSE Min({o.maxClasses, FirstPass})

Counted(r, verdicts) == {q \in DOMAIN r.verdicts : r.verdicts[q] \in verdicts}
WorthEscalating(r) == r.truncated /\ Counted(r, {"violated", "bounded", "unknown"}) # {}

UnprovenUnknown(r) == Counted(r, {"unknown"})
Unproven(r) == Counted(r, {"unknown", "bounded"})
ExitCode(n, o, r) ==
  IF Counted(r, {"violated"}) # {} THEN 1
  ELSE IF n.profile = "v1" /\ o.solver = "absent" THEN 3
  ELSE IF n.profile = "engineV2" /\ Counted(r, {"proven", "bounded"}) = {} THEN 3
  ELSE IF o.strict /\ Unproven(r) # {} THEN 1 ELSE 0

\* --trigger is engineV2's, --start, --budget and --mutex are v1's.
FlagsFit(o, profile) ==
  o.flags \cap (IF profile = "v1" THEN {"trigger"} ELSE {"start", "budget", "mutex"}) = {}

-----------------------------------------------------------------------------
NoReport == [truncated |-> FALSE, runs |-> 0, verdicts |-> << >>]
SomeWitness(n) == IF Witnesses(n) = {} THEN {1} ELSE Witnesses(n)

Init ==
  /\ case \in Cases
  /\ pass = "flags" /\ report = NoReport /\ exit = -1

UsageError ==
  /\ pass = "flags" /\ ~FlagsFit(case.opts, case.net.profile)
  /\ pass' = "done" /\ exit' = 2
  /\ UNCHANGED <<case, report>>

FirstReport ==
  /\ pass = "flags" /\ FlagsFit(case.opts, case.net.profile)
  /\ \E w \in SomeWitness(case.net) :
       report' = RunReport(case.net, case.opts, StagedCap(case.net, case.opts), w)
  /\ pass' = "first"
  /\ UNCHANGED <<case, exit>>

Escalates == StagedCap(case.net, case.opts) # case.opts.maxClasses /\ WorthEscalating(report)

Escalate ==
  /\ pass = "first" /\ Escalates
  /\ \E w \in SomeWitness(case.net) :
       report' = RunReport(case.net, case.opts, case.opts.maxClasses, w)
  /\ pass' = "full"
  /\ UNCHANGED <<case, exit>>

Finish ==
  /\ \/ pass = "full"
     \/ pass = "first" /\ ~Escalates
  /\ exit' = ExitCode(case.net, case.opts, report)
  /\ pass' = "done"
  /\ UNCHANGED <<case, report>>

Next == UsageError \/ FirstReport \/ Escalate \/ Finish
Spec == Init /\ [][Next]_vars

-----------------------------------------------------------------------------
(***************************************************************************)
(* What a run can really come to: the classes it reaches with at most so   *)
(* many runs of cyclic nodes, at rest when no move leaves them.            *)
(***************************************************************************)
BrokenIn(n, q, classes) == \E c \in classes : Breaks(n, q, c, Leaving(n.moves, c) = {})
Within(n, runs) == {w[1] : w \in LoopRuns(n, n.moves, runs)}

TrulyHolds(n, q) ==
  /\ q.kind \notin {"none", "dead"}
  /\ ~BrokenIn(n, q, Reachable(n))
  /\ q.kind \in {"chain", "tries"} => ~q.refunded
  /\ AtRest(q) => \E c \in Reachable(n) : SettledRest(n, c, Leaving(n.moves, c) = {})
TrulyBroken(n, q) ==
  IF q.kind = "dead" THEN ~BrokenIn(n, q, Reachable(n)) /\ ~q.entry
  ELSE BrokenIn(n, q, Reachable(n)) \/ (q.kind \in {"chain", "tries"} /\ q.refunded)

(***************************************************************************)
(* What a report proves holds in every class a run can reach, and what it  *)
(* calls violated is, whichever graph was cut where and whatever z3 found: *)
(* a row is never given the stranding of another.                          *)
(***************************************************************************)
VerdictsAreTrue ==
  \A q \in DOMAIN report.verdicts :
    /\ report.verdicts[q] = "proven" => TrulyHolds(case.net, q)
    /\ report.verdicts[q] = "violated" => TrulyBroken(case.net, q)

(***************************************************************************)
(* A bounded verdict is exact: no run with at most the reported number of  *)
(* runs of cyclic nodes breaks the check, wherever the graph was cut.      *)
(***************************************************************************)
BoundsHold ==
  \A q \in Counted(report, {"bounded"}) :
    report.runs >= 1 /\ ~BrokenIn(case.net, q, Within(case.net, report.runs))

(***************************************************************************)
(* An exit code is earned.  0: nothing decided is broken, some route did   *)
(* decide it, and under --strict every check asked for holds in every      *)
(* class a run can reach.  And the first pass under its own cap is only a  *)
(* saving: what is left undecided, one pass under the full cap would have  *)
(* left so too.                                                            *)
(***************************************************************************)
LeftOpen ==
  {q \in Counted(report, {"unknown"}) :
     case.net.profile = "v1" /\ q.kind \notin {"none", "dead", "tries", "chain"}}
ExitIsEarned ==
  /\ exit = 0 =>
       /\ Counted(report, {"violated"}) = {}
       /\ case.opts.strict => \A q \in DOMAIN report.verdicts : TrulyHolds(case.net, q)
       /\ case.net.profile = "v1" => case.opts.solver # "absent"
  /\ exit \in {0, 1, 3} =>
       \A q \in LeftOpen :
         GraphVerdict(case.net, Explore(case.net, case.opts, case.opts.maxClasses), q) = "unknown"

=============================================================================
