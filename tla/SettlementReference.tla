-------------------------- MODULE SettlementReference --------------------------
(***************************************************************************)
(* What engine v2 itself decides, as conformance/v2/reference.ts asks it:  *)
(* the rule of decideSuccessors and of countExpectedSettledSteps, which    *)
(* are n8n's and are injected there, and the two answers the file builds   *)
(* from them, R(S) and the completion test.  The rule reads rows only: it  *)
(* knows nothing of the net it is compared with.                           *)
(***************************************************************************)
EXTENDS StepRows

(* latestTerminal: the batch nodes whose latest row is terminal. *)
LoopHasEnded(rows, b) == HasRow(rows, b) /\ IsTerminalRow(rows[<<b, Latest(rows, b)>>])

(* The row an edge into step <<n, pass>> is read from: {} while there is none. *)
SourceKeys(g, rows, e, pass) ==
    CASE g.class[e] = "back" -> {<<e.from, pass - 1>>}
      [] g.class[e] = "intra" -> {<<e.from, pass>>}
      [] g.class[e] = "exit" ->
           LET b == g.loop[e.from] IN IF LoopHasEnded(rows, b) THEN {<<b, Latest(rows, b)>>} ELSE {}
      [] OTHER -> {<<e.from, 0>>}

(* An edge into a step is pending, dead or live. *)
IsPending(g, rows, e, pass) ==
    ~\E k \in SourceKeys(g, rows, e, pass) \cap DOMAIN rows : rows[k].status \in SettledStatuses
IsLive(g, rows, e, pass) ==
    \E k \in SourceKeys(g, rows, e, pass) \cap DOMAIN rows :
       rows[k].status = "completed" /\ e.out \in rows[k].filled

(* A batch node takes its first step from its entry edge and every later one from its return. *)
EdgesOfStep(g, key) ==
    IF IsBatch(g, NodeOf(key)) THEN {IF PassOf(key) = 0 THEN EntryEdge(g, NodeOf(key)) ELSE BackEdge(g, NodeOf(key))}
    ELSE Incoming(g, NodeOf(key))

(* targetKey, and batchStepDecides: a running pass decides the body, a terminal row the exits. *)
TargetKey(g, e, pass) ==
    <<e.to, CASE g.class[e] = "back" -> pass + 1
              [] g.class[e] \in {"exit", "entry"} -> 0
              [] OTHER -> pass>>

BatchStepDecides(g, e, row) == IsTerminalRow(row) <=> g.class[e] = "exit"

CandidateKeys(g, settled, rows) ==
    {TargetKey(g, e, PassOf(settled)) :
       e \in {x \in OutOf(NodeOf(settled), g.edges) :
                IsBatch(g, NodeOf(settled)) /\ settled \in DOMAIN rows
                  => BatchStepDecides(g, x, rows[settled])}} \ DOMAIN rows

(* decideSuccessors, at a row set S that holds every row it names. *)
DecideSuccessors(g, settled, rows) ==
    LET decided == {k \in CandidateKeys(g, settled, rows) :
                      \A e \in EdgesOfStep(g, k) : ~IsPending(g, rows, e, PassOf(k))}
        live == {k \in decided : \E e \in EdgesOfStep(g, k) : IsLive(g, rows, e, PassOf(k))}
    IN [toQueue |-> live, toSkip |-> decided \ live]

HasFailed(rows) == \E k \in DOMAIN rows : rows[k].status = "failed"

(* referenceAnswer: R(S). *)
ReferenceAnswer(g, rows) ==
    LET deciding == {k \in DOMAIN rows : rows[k].status \in {"completed", "skipped"}}
        plans == {DecideSuccessors(g, k, rows) : k \in deciding}
    IN IF HasFailed(rows) THEN [toQueue |-> {}, toSkip |-> {}]
       ELSE [toQueue |-> UNION {p.toQueue : p \in plans}, toSkip |-> UNION {p.toSkip : p \in plans}]

(* countExpectedSettledSteps, once every loop has ended: a loop owes its body one step a pass. *)
ExpectedSteps(g, rows) ==
    Cardinality({n \in g.nodes : ~InLoop(g, n)})
      + MapThenSumSet(LAMBDA b : Latest(rows, b) * Cardinality(Members(g, b)) + 1, BatchesOf(g))

SettledSteps(rows) == Cardinality({k \in DOMAIN rows : rows[k].status \in SettledStatuses})

ReferenceFinished(g, rows) ==
    /\ \A b \in BatchesOf(g) : LoopHasEnded(rows, b)
    /\ SettledSteps(rows) >= ExpectedSteps(g, rows)
-----------------------------------------------------------------------------
(***************************************************************************)
(* simulate: engine v2's event loop, with no database and no queue.  A run *)
(* is [rows, pending, resumed, end]; any pending event <<type, key>> may   *)
(* be handled next.  A behaviour fixes what each step does, the same in    *)
(* every order: how many passes a batch node makes, the batch nodes that   *)
(* end with nothing accumulated, and of every other step the slots it      *)
(* fills, whether it fails and whether it suspends first.                  *)
(***************************************************************************)
Outcome(g, does, key) ==
    LET n == NodeOf(key)
        completed(filled, waits) == [status |-> "completed", filled |-> filled, waits |-> waits]
    IN IF IsBatch(g, n)
         THEN completed(IF PassOf(key) + 1 < does.passes THEN {LoopSlot}
                        ELSE IF n \in does.empty THEN {} ELSE {DoneSlot}, FALSE)
       ELSE IF n \in does.fails THEN [status |-> "failed", filled |-> {}, waits |-> FALSE]
       ELSE completed(does.fills[n], n \in does.waits)

(* decisionKeys: the rows a decision about the successors of `settled` reads. *)
DecisionKeys(g, rows, settled) ==
    LET targets == CandidateKeys(g, settled, rows)
    IN {settled} \cup targets \cup
         UNION {UNION {SourceKeys(g, rows, e, PassOf(k)) : e \in EdgesOfStep(g, k)} : k \in targets}

(* handlerPlan: decideSuccessors, from those rows alone. *)
HandlerPlan(g, rows, settled) ==
    DecideSuccessors(g, settled, [k \in DecisionKeys(g, rows, settled) \cap DOMAIN rows |-> rows[k]])

SimulateStart(g) ==
    LET key == <<g.trigger, 0>>
    IN [rows |-> [k \in {key} |-> [status |-> "completed", filled |-> {0}]],
        pending |-> {<<"settled", key>>}, resumed |-> {}, end |-> "running"]

Resumed(s, k) ==
    IF s.rows[k].status # "waiting" THEN s
    ELSE [s EXCEPT !.rows[k].status = "queued", !.resumed = @ \cup {k}, !.pending = @ \cup {<<"ready", k>>}]

(* A step is claimed and run in one event; one that suspends owes its settlement until its resume. *)
Claimed(rows, k) == IF rows[k].status = "queued" THEN [rows EXCEPT ![k].status = "running"] ELSE rows
ReadyRun(g, does, s, k) ==
    LET o == Outcome(g, does, k)
    IN IF s.rows[k].status # "queued" THEN s
       ELSE IF o.waits /\ k \notin s.resumed
         THEN [s EXCEPT !.rows[k].status = "waiting", !.pending = @ \cup {<<"resume", k>>}]
         ELSE [s EXCEPT !.rows[k] = [status |-> o.status, filled |-> o.filled], !.pending = @ \cup {<<"settled", k>>}]

(* A failed row, whichever settlement meets it, ends the run and cancels what is pending. *)
FailedRun(s) ==
    [s EXCEPT !.end = "failed",
              !.rows = [k \in DOMAIN @ |-> IF @[k].status \in {"queued", "waiting"}
                                             THEN [@[k] EXCEPT !.status = "cancelled"] ELSE @[k]]]

Created(rows, keys, status) ==
    [k \in DOMAIN rows \cup keys |-> IF k \in DOMAIN rows THEN rows[k] ELSE [status |-> status, filled |-> {}]]
SettledRun(g, s, k) ==
    LET plan == HandlerPlan(g, s.rows, k)
        after == Created(Created(s.rows, plan.toQueue, "queued"), plan.toSkip, "skipped")
    IN IF HasFailed(s.rows) THEN FailedRun(s)
       ELSE [s EXCEPT !.rows = after,
                      !.pending = @ \cup {<<"ready", x>> : x \in plan.toQueue} \cup {<<"settled", x>> : x \in plan.toSkip},
                      !.end = IF plan.toQueue = {} /\ ReferenceFinished(g, after) THEN "completed" ELSE "running"]

HandleEvent(g, does, s, event) ==
    LET rest == [s EXCEPT !.pending = @ \ {event}]
    IN CASE event[1] = "resume" -> Resumed(rest, event[2])
         [] event[1] = "ready" -> ReadyRun(g, does, rest, event[2])
         [] event[1] = "settled" -> SettledRun(g, rest, event[2])

(* A run ends with its last event, or leaves rows owed (drained-unfinished). *)
NextRuns(g, does, s) == IF s.end # "running" THEN {} ELSE {HandleEvent(g, does, s, event) : event \in s.pending}
=============================================================================
