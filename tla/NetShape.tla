------------------------------ MODULE NetShape ------------------------------
(***************************************************************************)
(* The net compile() builds for n8n's own engine, as data: one gadget per  *)
(* node (compiler/gadget/), composed over shared and edge places, its      *)
(* initial marking, and what the structural actions put out.               *)
(*                                                                         *)
(* A place or transition is named by a tuple, its node's name first; a     *)
(* workflow-wide place has node 0.  A transition is [name, role, port,     *)
(* take, read, not, outs, prio]: take counts tokens per input place, 0     *)
(* meaning all of them; outs is the set of its flat output branches.       *)
(*                                                                         *)
(* A node of the description here also has steps, the actions of its       *)
(* onFailure chain, deadline, retries (maxTries, a set of at most one) and *)
(* loop.                                                                   *)
(***************************************************************************)
EXTENDS Analysis

Budget == <<0, "_budget">>
Halt == <<0, "_halt">>
Pause == <<0, "_pause">>

-----------------------------------------------------------------------------
(***************************************************************************)
(* The facts a gadget is built from.                                       *)
(***************************************************************************)
\* Everything the starts reach without entering x.
AroundNode(d, x) ==
  ReachableFrom(Entries(d.starts) \ {x},
                [y \in Names(d) |-> SelectSeq(SuccessorsOf(d, y), LAMBDA z : z # x)])

ReferenceKind(d, reachable, x, y) ==
  IF y = x THEN "unguarded"
  ELSE IF y \notin reachable THEN "seeded"
  ELSE IF y \in AroundNode(d, x) THEN "read" ELSE "unguarded"

\* The nodes a skip of x must be forwarded towards: observers, and all that leads to one.
ObservableFrom(observers, edges) ==
  LET Widen(S) == S \cup {e.from : e \in {f \in edges : f.to \in S}}
      back[n \in 0 .. Cardinality(edges)] == IF n = 0 THEN observers ELSE Widen(back[n - 1])
  IN  back[Cardinality(edges)]

Observes(n, form, referenced, cyclic) ==
  form \notin {"direct", "tool"} \/ n.name \in referenced \cup cyclic \/ n.loop
References(d, reachable, n) ==
  {<<y, ReferenceKind(d, reachable, n.name, y)>> : y \in Entries(KnownReferences(d, n))}

GraphFacts(d) ==
  LET main == MainEdges(d)
      sccs == Sccs(d)
      reachable == ReachableNodes(d)
      cyclic == CyclicNodes(d, sccs)
      edges == {[id |-> i, from |-> main[i][1], out |-> main[i][2], to |-> main[i][3],
                 inp |-> main[i][4], tree |-> EdgeKind(sccs, main[i]) = "tree"] : i \in DOMAIN main}
      form == [x \in Names(d) |-> FormOf(d, sccs, NodeOf(d, x))]
      guarded == [x \in Names(d) |->
                    {r[1] : r \in {s \in References(d, reachable, NodeOf(d, x)) : s[2] # "unguarded"}}]
      referenced == UNION {guarded[x] : x \in Names(d)}
      observers == {x \in Names(d) : Observes(NodeOf(d, x), form[x], referenced, cyclic)}
  IN  [edges |-> edges, depth |-> DepthOf(d, sccs), reachable |-> reachable, cyclic |-> cyclic, form |-> form,
       guarded |-> guarded, referenced |-> referenced, observable |-> ObservableFrom(observers, edges)]

AnalysedNode(d, options, g, n) ==
  [name |-> n.name, index |-> Index(d, n.name), depth |-> g.depth[n.name], cyclic |-> n.name \in g.cyclic,
   reachable |-> n.name \in g.reachable, form |-> g.form[n.name],
   incoming |-> {e \in g.edges : e.to = n.name}, outgoing |-> {e \in g.edges : e.from = n.name},
   required |-> UNION RequiredInputs(n), dead |-> DeadInputsOf(d, n),
   guarded |-> g.guarded[n.name], referenced |-> n.name \in g.referenced,
   forwards |-> \E e \in g.edges : e.from = n.name /\ e.to \in g.observable,
   stops |-> n.onError = "stopWorkflow" \/ n.steps # <<>>,
   steps |-> n.steps, deadline |-> n.deadline, retries |-> n.retries,
   tools |-> ToolsOf(d, n.name), agents |-> AgentsOf(d, n.name),
   limits |-> AgentLimits(d, n, options)]

Analysed(d, options) ==
  LET g == GraphFacts(d)
  IN  [trigger |-> Starts(d)[1], seeded |-> g.referenced \ g.reachable, reachable |-> g.reachable,
       node |-> [x \in Names(d) |-> AnalysedNode(d, options, g, NodeOf(d, x))]]

-----------------------------------------------------------------------------
(***************************************************************************)
(* The places between nodes belong to the consumer, which alone knows      *)
(* whether its one input needs no arm.  Only a tree edge carries empties.  *)
(***************************************************************************)
EdgeData(a, e) == IF a.node[e.to].form = "direct" THEN <<e.to, "in">> ELSE <<e.to, "in", e.inp, e.id>>
EdgeEmpty(a, e) ==
  IF a.node[e.to].form = "direct" THEN <<e.to, "in_empty">> ELSE <<e.to, "in_empty", e.inp, e.id>>
Trees(E) == {e \in E : e.tree}
DataPlaces(a, E) == {EdgeData(a, e) : e \in E}
EmptyPlaces(a, E) == {EdgeEmpty(a, e) : e \in E}

InPlace(f) == <<f.name, "in">>
InEmpty(f) == <<f.name, "in_empty">>
InTool(x) == <<x, "in_tool">>
Idle(f) == <<f.name, "idle">>
Done(x) == <<x, "done">>
Waiting(f) == <<f.name, "waiting">>
Stopped(f) == <<f.name, "stopped">>
Skipped(x) == <<x, "skipped">>
Hasdata(f) == <<f.name, "hasdata">>
HasdataOf(f, i) == <<f.name, "hasdata", i>>
RanOf(f, i) == <<f.name, "ran", i>>
FreeOf(f, i) == <<f.name, "free", i>>
NilOf(f, o) == <<f.name, "nil", o>>
OkOf(f, o) == <<f.name, "ok", o>>
RoutedOf(f, o) == <<f.name, "routed", o>>
Routed(f) == <<f.name, "routed">>
Retry(f) == <<f.name, "retry">>
Tries(f) == <<f.name, "tries">>
Running(f, k) == IF k = 1 THEN <<f.name, "running">> ELSE <<f.name, "running", k>>
Failed(f, k) == <<f.name, "failed", k>>
TimedOut(f, k) == <<f.name, "timedout", k>>
RoutedReq(f) == <<f.name, "routed_req">>
Queue(f) == <<f.name, "queue">>
Calls(f) == <<f.name, "calls">>
Drained(f) == <<f.name, "drained">>
Outstanding(f) == <<f.name, "outstanding">>
Dispatched(f) == <<f.name, "dispatched">>
Rounds(f) == <<f.name, "rounds">>
Response(x) == <<x, "response">>
RunningFailed(f) == <<f.name, "running_failed">>

-----------------------------------------------------------------------------
(***************************************************************************)
(* The input side.                                                         *)
(***************************************************************************)
Inputs(f) == {e.inp : e \in f.incoming} \cup f.dead
Feeds(f, i) == {e \in f.incoming : e.inp = i}
EmptyCapable(f, i) == Trees(Feeds(f, i)) # {}
SeedEmpty(a, f, i) == f.reachable /\ Feeds(f, i) # {} /\ \A e \in Feeds(f, i) : e.from \notin a.reachable
UnreachableEdges(a, f, i) == {e \in Trees(Feeds(f, i)) : e.from \notin a.reachable}

Slotted(f) == f.form \in {"join", "choose-branch"}
OrInput(f) == CHOOSE i \in Inputs(f) : TRUE
Round(f) == Cardinality(Trees(Feeds(f, OrInput(f))))
SplitSlot(f, i) == f.form = "choose-branch" /\ i \in f.required
ReadySlot(f, i, variant) ==
  IF SplitSlot(f, i) THEN <<f.name, "ready", i, variant>> ELSE <<f.name, "ready", i>>
\* A required input no tree edge feeds has no place for an empty.
HasReadySlot(f, i, variant) == SplitSlot(f, i) /\ variant = "empty" => EmptyCapable(f, i)
Frees(f) == IF Slotted(f) THEN {FreeOf(f, i) : i \in Inputs(f)} ELSE {}

CanSkip(f) ==
  CASE f.form = "tool" -> FALSE
    [] f.form = "direct" -> Trees(f.incoming) # {}
    [] f.form = "or" -> TRUE
    [] f.form = "join" -> \E i \in Inputs(f) : EmptyCapable(f, i)
    [] f.form = "choose-branch" -> \E i \in Inputs(f) \cap f.required : EmptyCapable(f, i)

One(S) == [p \in S |-> 1]
AllOf(S) == [p \in S |-> 0]
Both(g, h) == [p \in DOMAIN g \cup DOMAIN h |-> IF p \in DOMAIN g THEN g[p] ELSE h[p]]
T(f, local, role, port, take, read, not, outs, prio) ==
  [name |-> <<f.name>> \o local, role |-> role, port |-> port, take |-> take, read |-> read,
   not |-> not, outs |-> outs, prio |-> prio]

Activation(f) ==
  CASE f.form = "tool" -> One({InTool(f.name)})
    [] f.form = "direct" -> One({InPlace(f)})
    [] f.form = "or" -> One({HasdataOf(f, OrInput(f))})
    [] f.form = "join" -> Both(One({ReadySlot(f, i, "data") : i \in Inputs(f)}), AllOf({Hasdata(f)}))
    [] f.form = "choose-branch" -> One({ReadySlot(f, i, "data") : i \in Inputs(f)})
StartPlaces(f) ==
  {Running(f, 1)} \cup (IF f.form = "or" THEN {RanOf(f, OrInput(f))} ELSE Frees(f))

StartTransitions(f) ==
  LET take == Both(Activation(f), One({Budget, Idle(f)}))
      not == {Halt, Pause}
  IN  {T(f, <<"start">>, "start", {}, take, {Done(y) : y \in f.guarded}, not, {StartPlaces(f)}, f.depth)}
      \cup {T(f, <<"start_unmet", y>>, "start-unmet", {}, take, {Skipped(y)}, not, {StartPlaces(f)}, f.depth - 1)
            : y \in f.guarded}

ArmPlaces(f, e, variant) ==
  IF f.form = "or"
    THEN {p \in {ReadySlot(f, e.inp, "data")} : variant = "empty" \/ e.tree}
         \cup {p \in {HasdataOf(f, e.inp)} : variant = "data"}
    ELSE {ReadySlot(f, e.inp, variant)} \cup {p \in {Hasdata(f)} : variant = "data" /\ f.form = "join"}
ArmTransitions(a, f) ==
  IF f.form \in {"direct", "tool"} THEN {}
  ELSE LET Arm(e, variant, source) ==
             T(f, <<"arm", e.id, variant>>, "arm", {},
               One({source} \cup {p \in {FreeOf(f, e.inp)} : Slotted(f)}), {}, {Halt},
               {ArmPlaces(f, e, variant)}, f.depth)
       IN  {Arm(e, "data", EdgeData(a, e)) : e \in f.incoming}
           \cup {Arm(e, "empty", EdgeEmpty(a, e)) : e \in Trees(f.incoming)}

\* A node in a cycle that cannot be skipped writes no empties at all.
WritesEmpty(f) == ~f.cyclic \/ CanSkip(f)
SkipPlaces(a, f) ==
  (IF f.forwards /\ WritesEmpty(f) THEN EmptyPlaces(a, Trees(f.outgoing)) ELSE {})
  \cup {Skipped(f.name)} \cup Frees(f)

\* Choose-branch: one skip for every way the required inputs can be filled but all with data.
Combinations(f) ==
  {c \in [Inputs(f) \cap f.required -> {"data", "empty"}] :
     /\ \E i \in DOMAIN c : c[i] = "empty"
     /\ \A i \in DOMAIN c : c[i] = "empty" => EmptyCapable(f, i)}

SkipTransitions(a, f) ==
  LET out == {SkipPlaces(a, f)}
      Skip(local, take, read, not) == T(f, local, "skip", {}, take, read, not \cup {Halt}, out, f.depth)
      i == OrInput(f)
      Filled(c) == {ReadySlot(f, j, IF j \in DOMAIN c THEN c[j] ELSE "data") : j \in Inputs(f)}
  IN  IF ~CanSkip(f) THEN {}
      ELSE CASE f.form = "direct" -> {Skip(<<"skip">>, One({InEmpty(f)}), {}, {})}
        [] f.form = "or" ->
             {Skip(<<"skip">>, [p \in {ReadySlot(f, i, "data")} |-> Round(f)], {Idle(f)}, {HasdataOf(f, i), RanOf(f, i)})}
        [] f.form = "join" ->
             {Skip(<<"skip">>, One({ReadySlot(f, j, "data") : j \in Inputs(f)}), {}, {Hasdata(f)})}
        [] OTHER -> {Skip(<<"skip", c>>, One(Filled(c)), {}, {}) : c \in Combinations(f)}

\* The round of an OR input is over: its deliveries and the runs they made are taken away.
ClearTransitions(f) ==
  {T(f, <<"clear", i>>, "clear", {i},
     Both([p \in {ReadySlot(f, i, "data")} |-> Round(f)], AllOf({RanOf(f, i)})),
     {Idle(f)}, {HasdataOf(f, i), Halt}, {}, f.depth) : i \in {j \in Inputs(f) : f.form = "or"}}

-----------------------------------------------------------------------------
(***************************************************************************)
(* The output side: how a run ends, and where what it emits is put.        *)
(***************************************************************************)
SplitAbove == 3
Connected(f) == {e.out : e \in f.outgoing}
Split(f) == Cardinality(Connected(f)) > SplitAbove
EdgesOf(f, o) == {e \in f.outgoing : e.out = o}

NothingOn(a, f, o) == IF f.cyclic THEN {NilOf(f, o)} ELSE EmptyPlaces(a, EdgesOf(f, o))
Emits(a, f, o) == {DataPlaces(a, EdgesOf(f, o)), NothingOn(a, f, o)}
RouteOutput(a, f, o, filled) == IF o \in filled THEN DataPlaces(a, EdgesOf(f, o)) ELSE NothingOn(a, f, o)
Delivered(a, f, filled) == UNION {RouteOutput(a, f, o, filled) : o \in Connected(f)}

Succeeds(a, f) ==
  IF f.form = "tool" THEN {{Response(x), Routed(f)} : x \in f.agents}
  ELSE IF Split(f) THEN {{OkOf(f, o) : o \in Connected(f)}}
  ELSE {Delivered(a, f, filled) \cup {Routed(f)} : filled \in SUBSET Connected(f)}
Halts == {Halt, Budget}
Waits(f) == {Waiting(f), Pause, Budget}
Stops(f) == {Stopped(f), Pause, Budget}

IsAgent(f) == f.tools # {}
Ends(a, f) == Succeeds(a, f) \cup {b \in {Halts} : f.stops} \cup {Waits(f), Stops(f)}
Fails(f, k) ==
  IF f.steps # <<>> THEN {{Failed(f, k)}} ELSE {{Retry(f)} : n \in f.retries}
Outcome(a, f, k) == {b \cup {Idle(f)} : b \in Ends(a, f) \cup Fails(f, k)}
Asks(f) == {{RoutedReq(f), Idle(f)} : t \in {u \in {f} : IsAgent(u)}}

RunTransitions(a, f) ==
  LET Tried(k) == Outcome(a, f, k) \cup Asks(f) \cup {b \in {{TimedOut(f, k), Idle(f)}} : f.steps # <<>> /\ f.deadline}
      Run(k) == T(f, IF k = 1 THEN <<"run">> ELSE <<"run", k>>, "run", {}, One({Running(f, k)}), {}, {}, Tried(k), f.depth + 1)
  IN  {Run(k) : k \in DOMAIN f.steps \cup {1}}
      \cup {t \in {T(f, <<"run_failed">>, "run-failed", {}, One({RunningFailed(f)}), {}, {}, Outcome(a, f, 1), f.depth + 1)}
            : IsAgent(f)}

RouteTransitions(a, f) ==
  {T(f, <<"route", o>>, "route", {o}, One({OkOf(f, o)}), {}, {},
     {b \cup {RoutedOf(f, o)} : b \in Emits(a, f, o)}, f.depth + 1) : o \in {p \in Connected(f) : Split(f)}}
DoneTransition(f) ==
  T(f, <<"done">>, "done", {},
    One(IF Split(f) THEN {RoutedOf(f, o) : o \in Connected(f)} ELSE {Routed(f)}), {}, {},
    {{Budget, Done(f.name)}}, f.depth + 1)
SinkTransitions(f) ==
  {T(f, <<"sink", o>>, "sink", {}, One({NilOf(f, o)}), {}, {}, {}, f.depth) : o \in {p \in Connected(f) : f.cyclic}}

-----------------------------------------------------------------------------
(***************************************************************************)
(* Failure: retryOnFail, and the onFailure chain.                          *)
(***************************************************************************)
RetryTransitions(a, f) ==
  UNION {{T(f, <<"retry_wait">>, "retry", {}, One({Retry(f), Tries(f), Idle(f)}), {}, {Halt, Pause},
            {{Running(f, 1)}}, f.depth),
          T(f, <<"exhausted">>, "exhausted", {}, One({Retry(f)}), {}, {Tries(f), Halt},
            Ends(a, f), f.depth + 1)} : n \in f.retries}

\* A chain has a halt branch even where the node's own onError has none.
StepTransitions(a, f) ==
  LET Step(k) ==
        IF f.steps[k] = "retry"
          THEN T(f, <<"attempt", k>>, "attempt", {}, One({Failed(f, k), Idle(f)}), {}, {Halt, Pause},
                 {{Running(f, k + 1)}}, f.depth)
          ELSE T(f, <<"attempt", k>>, "attempt", {}, One({Failed(f, k)}), {}, {Halt},
                 Succeeds(a, f) \cup {Halts, Waits(f), Stops(f)}, f.depth + 1)
      Deadline(k) ==
        T(f, <<"timeout", k>>, "deadline", {}, One({TimedOut(f, k)}), {}, {Halt}, {{Failed(f, k)}}, f.depth + 1)
  IN  {Step(k) : k \in DOMAIN f.steps} \cup {Deadline(k) : k \in {j \in DOMAIN f.steps : f.deadline}}

-----------------------------------------------------------------------------
(***************************************************************************)
(* An agent's round over its tools.                                        *)
(***************************************************************************)
AgentTransitions(f) ==
  IF ~IsAgent(f) THEN {}
  ELSE {T(f, <<"done_req">>, "done-request", {}, One({RoutedReq(f)}), {}, {},
          {{Budget, Queue(f), Dispatched(f)}, {Budget, Drained(f), Dispatched(f)}}, f.depth + 1),
        T(f, <<"dispatch">>, "dispatch", {}, One({Queue(f), Calls(f)}), {}, {Halt, Pause},
          {{InTool(t), Outstanding(f), next} : t \in f.tools, next \in {Queue(f), Drained(f)}}, f.depth + 1),
        T(f, <<"collect">>, "collect", {}, One({Outstanding(f), Response(f.name)}), {}, {}, {}, f.depth + 2),
        T(f, <<"resume">>, "resume", {}, One({Dispatched(f), Drained(f), Rounds(f), Idle(f), Budget}), {},
          {Outstanding(f), Halt, Pause}, {{Running(f, 1)}}, f.depth),
        T(f, <<"calls_out">>, "calls-out", {}, One({Dispatched(f), Queue(f), Idle(f), Budget}), {},
          {Calls(f), Outstanding(f), Halt, Pause}, {{RunningFailed(f)}}, f.depth - 1),
        T(f, <<"rounds_out">>, "rounds-out", {}, One({Dispatched(f), Drained(f)}), {},
          {Outstanding(f), Rounds(f), Halt}, {{Stopped(f), Pause}}, f.depth - 1)}

Gadget(a, f) ==
  StartTransitions(f) \cup RunTransitions(a, f) \cup RouteTransitions(a, f) \cup {DoneTransition(f)}
  \cup AgentTransitions(f) \cup SkipTransitions(a, f) \cup ClearTransitions(f) \cup ArmTransitions(a, f)
  \cup RetryTransitions(a, f) \cup StepTransitions(a, f) \cup SinkTransitions(f)
Net(a) == UNION {Gadget(a, a.node[x]) : x \in DOMAIN a.node}

-----------------------------------------------------------------------------
(***************************************************************************)
(* The places a gadget declares, with the role and port the map files them *)
(* under.                                                                  *)
(***************************************************************************)
Place(name, role, port) == [name |-> name, role |-> role, node |-> name[1], port |-> port]

InputPlaces(a, f) ==
  LET Edges == {Place(EdgeData(a, e), "edge-data", {e.inp}) : e \in f.incoming}
                 \cup {Place(EdgeEmpty(a, e), "edge-empty", {e.inp}) : e \in Trees(f.incoming)}
      Ready(i) == {Place(ReadySlot(f, i, "data"), "ready", {i})}
                    \cup {Place(ReadySlot(f, i, "empty"), "ready", {i}) : s \in {j \in {i} : SplitSlot(f, i) /\ EmptyCapable(f, i)}}
      Slots == UNION {Ready(i) \cup {Place(FreeOf(f, i), "free", {i})} : i \in Inputs(f)}
      i == OrInput(f)
  IN  CASE f.form = "tool" -> {Place(InTool(f.name), "in-tool", {})}
        [] f.form = "direct" -> {Place(InPlace(f), "in-data", Inputs(f))}
                                  \cup {Place(InEmpty(f), "in-empty", {e.inp}) : e \in Trees(f.incoming)}
        [] f.form = "or" -> Edges \cup Ready(i) \cup {Place(HasdataOf(f, i), "hasdata", {i}), Place(RanOf(f, i), "ran", {i})}
        [] f.form = "join" -> Edges \cup Slots \cup {Place(Hasdata(f), "hasdata", {})}
        [] f.form = "choose-branch" -> Edges \cup Slots

OutputPlaces(f) ==
  {Place(NilOf(f, o), "nil", {o}) : o \in {p \in Connected(f) : f.cyclic}}
  \cup (IF Split(f) THEN UNION {{Place(OkOf(f, o), "ok", {o}), Place(RoutedOf(f, o), "routed", {o})} : o \in Connected(f)}
        ELSE {Place(Routed(f), "routed", {})})

FailurePlaces(f) ==
  UNION {{Place(Retry(f), "retry", {}), Place(Tries(f), "tries", {})} : n \in f.retries}
  \cup {Place(Running(f, k), "running", {}) : k \in DOMAIN f.steps \ {1}}
  \cup {Place(Failed(f, k), "failed", {}) : k \in DOMAIN f.steps}
  \cup {Place(TimedOut(f, k), "failed", {}) : k \in {j \in DOMAIN f.steps : f.deadline}}

AgentPlaces(f) ==
  IF ~IsAgent(f) THEN {}
  ELSE {Place(p[1], p[2], {}) : p \in
         {<<RoutedReq(f), "routed-request">>, <<Queue(f), "queue">>, <<Calls(f), "calls">>,
          <<Drained(f), "drained">>, <<Outstanding(f), "outstanding">>, <<Dispatched(f), "dispatched">>,
          <<Rounds(f), "rounds">>, <<Response(f.name), "response">>, <<RunningFailed(f), "running-failed">>}}

\* The skip marker is the gadget's, or the host's for a node others reference that never skips.
MarkerPlaces(f) ==
  {Place(p[1], p[2], {}) : p \in {<<Idle(f), "idle">>, <<Running(f, 1), "running">>, <<Done(f.name), "done">>,
                                  <<Waiting(f), "waiting">>, <<Stopped(f), "stopped">>}}
  \cup {Place(Skipped(f.name), "skipped", {}) : s \in {x \in {f} : CanSkip(x) \/ x.referenced}}

PlacesOf(a, f) == MarkerPlaces(f) \cup InputPlaces(a, f) \cup OutputPlaces(f) \cup FailurePlaces(f) \cup AgentPlaces(f)
SharedInfos == {Place(Budget, "budget", {}), Place(Halt, "halt", {}), Place(Pause, "pause", {})}
MapPlaces(a) == SharedInfos \cup UNION {PlacesOf(a, a.node[x]) : x \in DOMAIN a.node}

\* The places compose() puts in the net: those on some arc.
ArcPlaces(t) == DOMAIN t.take \cup t.read \cup t.not \cup UNION t.outs
NetPlaces(a) == UNION {ArcPlaces(t) : t \in Net(a)}

\* What compile() and NetMap refuse to publish: a place or transition mapped twice, or not at all.
MapRefused(a) ==
  \/ \E p, q \in MapPlaces(a) : p.name = q.name /\ p # q
  \/ NetPlaces(a) # {p.name : p \in MapPlaces(a)}
  \/ \E t, u \in Net(a) : t.name = u.name /\ t # u

\* The collections the verifier reads.
OfRole(a, roles) == {p.name : p \in {q \in MapPlaces(a) : q.role \in roles}}
ReadyPlaces(f, i) ==
  {ReadySlot(f, i, v) : v \in {w \in {"data", "empty"} : f.form = "or" \/ HasReadySlot(f, i, w)}}
InputsOf(a) == UNION {{<<x, i>> : i \in Inputs(a.node[x])} : x \in DOMAIN a.node}
JoinReadyPlaces(a) ==
  {ReadyPlaces(a.node[g[1]], g[2]) : g \in {h \in InputsOf(a) : a.node[h[1]].form \notin {"direct", "tool"}}}
JoinInputPlaces(a) == OfRole(a, {"ready"})
EdgeDataPlaces(a) == OfRole(a, {"in-data", "edge-data"})
RunningPlaces(a) == UNION {{Running(a.node[x], k) : k \in DOMAIN a.node[x].steps \cup {1}} : x \in DOMAIN a.node}

-----------------------------------------------------------------------------
(***************************************************************************)
(* compile(): above one unit of budget every node must run at most once.   *)
(***************************************************************************)
MultiProducerInputs(a) == {g \in InputsOf(a) : Cardinality(Feeds(a.node[g[1]], g[2])) > 1}
KSafety(a) ==
  IF \E x \in DOMAIN a.node : a.node[x].cyclic THEN "cyclic"
  ELSE IF MultiProducerInputs(a) # {} THEN "multi-producer-input" ELSE "none"
\* The budget is a set of at most one integer, 1 when it is left out.
BudgetRefused(budget) == \E k \in budget : k < 1
EffectiveBudget(a, budget) ==
  IF KSafety(a) = "none" THEN IF budget = {} THEN 1 ELSE CHOOSE k \in budget : TRUE ELSE 1

-----------------------------------------------------------------------------
(***************************************************************************)
(* The marking an execution starts from.                                   *)
(***************************************************************************)
SeededSlots(a, f) ==
  IF ~Slotted(f) THEN <<>>
  ELSE One({IF SeedEmpty(a, f, i) THEN ReadySlot(f, i, "empty") ELSE FreeOf(f, i) : i \in Inputs(f)})
SeededRound(a, f) ==
  LET i == OrInput(f)
      n == Cardinality(UnreachableEdges(a, f, i))
  IN  [p \in {q \in {ReadySlot(f, i, "data")} : f.reachable /\ n > 0} |-> n]
SeedNode(a, f) ==
  LET tries == [p \in {Tries(f) : n \in f.retries} |-> (CHOOSE n \in f.retries : TRUE) - 1]
      agent == Both([p \in {Rounds(f) : n \in f.limits.rounds} |-> CHOOSE n \in f.limits.rounds : TRUE],
                    [p \in {Calls(f) : n \in f.limits.calls} |-> CHOOSE n \in f.limits.calls : TRUE])
      own == Both(One({Idle(f)}), Both(tries, agent))
  IN  CASE f.form = "or" -> Both(own, SeededRound(a, f))
        [] Slotted(f) -> Both(own, SeededSlots(a, f))
        [] OTHER -> own

\* The trigger's own slots all hold data, whatever feeds them.
StartMarking(f) ==
  CASE f.form = "direct" -> One({InPlace(f)})
    [] f.form = "or" -> One({HasdataOf(f, OrInput(f))})
    [] OTHER -> One({ReadySlot(f, i, "data") : i \in Inputs(f)} \cup {p \in {Hasdata(f)} : f.form = "join"})
StartSlots(f) ==
  IF Slotted(f) THEN Frees(f) \cup UNION {{ReadySlot(f, i, v) : v \in {"data", "empty"}} : i \in Inputs(f)} ELSE {}

InitialMarking(a, budget) ==
  LET start == a.node[a.trigger]
      seeds == FoldLeft(Both, [p \in {Budget} |-> budget],
                        SetToSeq({SeedNode(a, a.node[x]) : x \in DOMAIN a.node}) \o <<One({Skipped(y) : y \in a.seeded})>>)
      given == StartMarking(start)
  IN  [p \in NetPlaces(a) |-> IF p \in DOMAIN given THEN given[p]
                              ELSE IF p \in DOMAIN seeds /\ p \notin StartSlots(start) THEN seeds[p] ELSE 0]
TriggerRefused(a) == a.node[a.trigger].form = "tool"

-----------------------------------------------------------------------------
(***************************************************************************)
(* What the structural actions put out, with no node code: a run succeeds, *)
(* an agent asks for nothing, the outputs in filled carry data.            *)
(***************************************************************************)
Foremost(a, S) == CHOOSE x \in S : \A y \in S : a.node[x].index <= a.node[y].index
Succeeded(a, f, filled) ==
  IF f.form = "tool" THEN {Response(Foremost(a, f.agents)), Routed(f)}
  ELSE IF Split(f) THEN {OkOf(f, o) : o \in Connected(f)}
  ELSE Delivered(a, f, filled) \cup {Routed(f)}

RunAction(a, f, filled) == Succeeded(a, f, filled) \cup {Idle(f)}
RouteAction(a, f, o, filled) == RouteOutput(a, f, o, filled) \cup {RoutedOf(f, o)}
DoneAction(f) == {Budget, Done(f.name)}
ArmAction(f, e, variant) == ArmPlaces(f, e, variant)
AttemptAction(a, f, k, filled) ==
  CASE f.steps[k] = "retry" -> {Running(f, k + 1)}
    [] f.steps[k] = "stop" -> Halts
    [] OTHER -> Succeeded(a, f, filled)
DeadlineAction(f, k) == {Failed(f, k)}
DoneRequestAction(f) == {Budget, Drained(f), Dispatched(f)}
DispatchAction(a, f) == {InTool(Foremost(a, f.tools)), Drained(f), Outstanding(f)}
ReenterAction(f) == {Running(f, 1)}
CallsOutAction(f) == {RunningFailed(f)}
RoundsOutAction(f) == {Stopped(f), Pause}

\* structuralActions; a sink, a clear and a collect put nothing.
Puts(a, f, t, filled) ==
  CASE t.role \in {"start", "start-unmet"} -> StartPlaces(f)
    [] t.role \in {"run", "run-failed"} -> RunAction(a, f, filled)
    [] t.role = "route" -> RouteAction(a, f, CHOOSE o \in t.port : TRUE, filled)
    [] t.role = "done" -> DoneAction(f)
    [] t.role = "exhausted" -> Succeeded(a, f, filled)
    [] t.role = "skip" -> SkipPlaces(a, f)
    [] t.role = "arm" -> ArmAction(f, CHOOSE e \in f.incoming : e.id = t.name[3], t.name[4])
    [] t.role = "retry" -> {Running(f, 1)}
    [] t.role = "attempt" -> AttemptAction(a, f, t.name[3], filled)
    [] t.role = "deadline" -> DeadlineAction(f, t.name[3])
    [] t.role = "done-request" -> DoneRequestAction(f)
    [] t.role = "dispatch" -> DispatchAction(a, f)
    [] t.role = "resume" -> ReenterAction(f)
    [] t.role = "calls-out" -> CallsOutAction(f)
    [] t.role = "rounds-out" -> RoundsOutAction(f)
    [] OTHER -> {}

=============================================================================
