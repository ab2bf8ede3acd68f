--------------------------- MODULE StackReference ---------------------------
(***************************************************************************)
(* The reference engine of the conformance harness, StackReferenceScheduler*)
(* over ReferenceHost: n8n's own loop, which pops one activation off a     *)
(* stack, runs it, and puts its successors back on top.                    *)
(*                                                                         *)
(* A workflow is a description of Analysis.  What the nodes do is a plan:  *)
(* per node, [attempts, fills, always, asks]: how each call of runNode     *)
(* ends ("items", "soft" for an item that carries an error, "throw",       *)
(* "null", "wait"; the last goes on for ever), the outputs its items are   *)
(* on, run by run, alwaysOutputData, and the tools asked for by round.     *)
(*                                                                         *)
(* A slot is n8n's Array | null: {} is null, {<<>>} an empty list, and     *)
(* {<<i>>} a list of items i = <<node, run, output>>.                      *)
(***************************************************************************)
EXTENDS Analysis

Null == {}
NoItems == {<<>>}
HasItems(slot) == slot \notin {Null, NoItems}

-----------------------------------------------------------------------------
(***************************************************************************)
(* What the loop reads of the workflow.                                    *)
(***************************************************************************)
Into(d, x) == {c \in Entries(d.connections) : c[3] = x}
Width(d, x) == Max({0} \cup {c[4] + 1 : c \in Into(d, x)})
ParentNodes(d, x) ==
  ReachableFrom({c[1] : c \in Into(d, x)}, [y \in Names(d) |-> SetToSeq({c[1] : c \in Into(d, y)})])

AllInputsRequired(n) ==
  (\E list \in n.required.list : Len(list) = n.inputs) \/ n.inputs \in n.required.count
RequiredArrived(n, filled) ==
  /\ \A list \in n.required.list : Entries(list) \subseteq filled
  /\ \A count \in n.required.count : Cardinality(filled) >= count

MaxTries(n) == IF n.retries = {} THEN 1 ELSE Min({5, Max({2} \cup n.retries)})
Asked(plan, x, resumed) == IF resumed < Len(plan[x].asks) THEN plan[x].asks[resumed + 1] ELSE <<>>

-----------------------------------------------------------------------------
(***************************************************************************)
(* The stack and the waiting entries.  waiting keeps the order in which    *)
(* nodes came in; a node's entries are numbered, and hold one slot and one *)
(* source per input.                                                       *)
(***************************************************************************)
Entry(x, data, source) ==
  [node |-> x, data |-> data, source |-> source, run |-> {}, resumed |-> 0, actions |-> <<>>]
Unshift(s, entry) == [s EXCEPT !.stack = <<entry>> \o @]

IsWaiting(s, x) == \E i \in DOMAIN s.waiting : s.waiting[i].node = x
At(s, x) == CHOOSE i \in DOMAIN s.waiting : s.waiting[i].node = x
EntriesOf(s, x) == IF IsWaiting(s, x) THEN s.waiting[At(s, x)].entries ELSE <<>>
SetEntries(s, x, entries) ==
  IF IsWaiting(s, x) THEN [s EXCEPT !.waiting[At(s, x)].entries = entries]
  ELSE [s EXCEPT !.waiting = Append(@, [node |-> x, entries |-> entries])]
Drop(s, x, k) ==
  LET left == [j \in DOMAIN EntriesOf(s, x) \ {k} |-> EntriesOf(s, x)[j]]
  IN  IF DOMAIN left # {} THEN SetEntries(s, x, left)
      ELSE [s EXCEPT !.waiting = SelectSeq(@, LAMBDA w : w.node # x)]

\* The first entry whose slot is free, else a new one numbered by how many there are.
WaitingIndex(entries, inp) ==
  LET free == {k \in DOMAIN entries : entries[k].data[inp + 1] = Null}
  IN  IF free # {} THEN Min(free) ELSE Cardinality(DOMAIN entries)
Blank(width) == [data |-> [i \in 1 .. width |-> Null], source |-> [i \in 1 .. width |-> {}]]
WaitForAllInputs(d, s, a) ==
  LET entries == EntriesOf(s, a.to)
      k == WaitingIndex(entries, a.inp)
      given == IF k \in DOMAIN entries /\ entries[k].data[a.inp + 1] = Null THEN entries[k] ELSE Blank(Width(d, a.to))
      kept == [given EXCEPT !.data[a.inp + 1] = a.slot, !.source[a.inp + 1] = IF a.slot = Null THEN {} ELSE {a.source}]
      held == SetEntries(s, a.to, [j \in DOMAIN entries \cup {k} |-> IF j = k THEN kept ELSE entries[j]])
  IN  IF \A i \in DOMAIN kept.data : kept.data[i] # Null
        THEN Drop(Unshift(held, Entry(a.to, kept.data, kept.source)), a.to, k)
        ELSE held

\* addNodeToBeExecuted: an arrival on a node of one input is stacked as it is.
EnqueueArrival(d, s, a) ==
  IF Width(d, a.to) > 1 THEN WaitForAllInputs(d, s, a)
  ELSE Unshift(s, [node |-> a.to, data |-> [i \in 1 .. a.inp + 1 |-> IF i = a.inp + 1 THEN a.slot ELSE Null],
                   source |-> <<{a.source}>>, run |-> a.run, resumed |-> a.resumed, actions |-> a.actions])

\* Bottom-right first, so that the top-left one ends up on top of the stack.
BottomRightFirst(d, c, e) ==
  LET p == NodeOf(d, c[3]).pos
      q == NodeOf(d, e[3]).pos
      Place(f) == CHOOSE i \in DOMAIN d.connections : d.connections[i] = f
  IN  \/ p[2] > q[2]
      \/ p[2] = q[2] /\ p[1] > q[1]
      \/ p = q /\ (c[2] < e[2] \/ (c[2] = e[2] /\ Place(c) < Place(e)))
EnqueueSuccessors(d, s, x, out, run) ==
  LET fed == {c \in Entries(d.connections) : c[1] = x /\ c[2] \in DOMAIN out /\ HasItems(out[c[2]])}
      Arrive(t, c) == EnqueueArrival(d, t, [to |-> c[3], inp |-> c[4], slot |-> out[c[2]], source |-> <<x, run>>,
                                            run |-> {}, resumed |-> 0, actions |-> <<>>])
  IN  FoldLeft(Arrive, s, SetToSortSeq(fed, LAMBDA c, e : BottomRightFirst(d, c, e)))

-----------------------------------------------------------------------------
(***************************************************************************)
(* The quiescence fallback: when the stack is empty, the first waiting     *)
(* node that may do without its other inputs runs with [] on them.         *)
(***************************************************************************)
FirstEntry(w) == Min(DOMAIN w.entries)
MayFlush(d, s, w) ==
  LET n == NodeOf(d, w.node)
      data == w.entries[FirstEntry(w)].data
  IN  /\ ~AllInputsRequired(n)
      /\ \A y \in ParentNodes(d, w.node) : ~IsWaiting(s, y)
      /\ RequiredArrived(n, {i - 1 : i \in {j \in DOMAIN data : data[j] # Null}})
Flush(d, s, w) ==
  LET held == w.entries[FirstEntry(w)]
      Given(i) == IF i \in DOMAIN held.data /\ held.data[i] # Null THEN held.data[i] ELSE NoItems
      data == [i \in 1 .. Max({NodeOf(d, w.node).inputs, Len(held.data)}) |-> Given(i)]
      left == Drop(s, w.node, FirstEntry(w))
  IN  IF \E i \in DOMAIN data : HasItems(data[i])
        THEN [left EXCEPT !.stack = Append(@, Entry(w.node, data, held.source))] ELSE left

RECURSIVE RunWaitingNodes(_, _)
RunWaitingNodes(d, s) ==
  LET ready == IF s.stack # <<>> THEN <<>> ELSE SelectSeq(s.waiting, LAMBDA w : MayFlush(d, s, w))
  IN  IF ready = <<>> THEN s ELSE RunWaitingNodes(d, Flush(d, s, Head(ready)))

-----------------------------------------------------------------------------
(***************************************************************************)
(* One activation: the tries, the tools it asks for, its task data.        *)
(***************************************************************************)
Ending(b, k) == b.attempts[Min({k, Len(b.attempts)})]
CallsOf(b, tries) == Min({k \in 1 .. tries : Ending(b, k) \notin {"throw", "soft"}} \cup {tries})

\* What the last call gives, per output; a failed attempt's item is on output 0.
Output(b, x, run, ending) ==
  LET filled == CASE ending = "null" -> {} [] ending = "soft" -> {0} [] OTHER -> b.fills[Min({run + 1, Len(b.fills)})]
      data == [o \in {0} \cup filled |-> IF o \in filled THEN {<<<<x, run, o>>>>} ELSE NoItems]
  IN  IF b.always /\ 0 \notin filled THEN [data EXCEPT ![0] = {<<<<x, run, "always">>>>}] ELSE data

Runs(s, x) == IF x \in DOMAIN s.runs THEN s.runs[x] ELSE <<>>
SetRuns(s, x, runs) == [s EXCEPT !.runs = [y \in DOMAIN @ \cup {x} |-> IF y = x THEN runs ELSE @[y]]]
RunIndex(s, entry) == IF entry.run # {} THEN CHOOSE k \in entry.run : TRUE ELSE Len(Runs(s, entry.node))
Task(order, status, source, out) ==
  [order |-> order, status |-> status, source |-> source, out |-> out, dispatched |-> FALSE]
Upsert(s, x, run, task) ==
  LET runs == Runs(s, x)
  IN  IF run + 1 \in DOMAIN runs
        THEN SetRuns(s, x, [runs EXCEPT ![run + 1] = [task EXCEPT !.dispatched = runs[run + 1].dispatched]])
        ELSE SetRuns(s, x, Append(runs, task))

\* planEngineRequest: a slot is reserved per action, then the agent's return is stacked and
\* the tools on top of it, so that they run first and in order.
Reserve(s, tool, source) ==
  SetRuns(s, tool, Append(Runs(s, tool), [Task(0, "", <<{source}>>, <<>>) EXCEPT !.dispatched = TRUE]))
ParentSource(entry) == IF entry.source = <<>> THEN {} ELSE entry.source[1]
HandleRequest(d, s, entry, run, tools) ==
  LET x == entry.node
      parent == CHOOSE p \in ParentSource(entry) : TRUE
      Claimed(i) == Cardinality({j \in 1 .. i - 1 : tools[j] = tools[i]})
      slots == [i \in DOMAIN tools |-> <<tools[i], Len(Runs(s, tools[i])) + Claimed(i)>>]
      reserved == FoldLeft(LAMBDA t, tool : [Reserve(t, tool, <<x, run>>) EXCEPT !.rewired = @ \cup {tool}], s, tools)
      Planned(to, slot, from, at, resumed, actions) ==
        [to |-> to, inp |-> 0, slot |-> slot, source |-> <<from, run>>, run |-> {at}, resumed |-> resumed, actions |-> actions]
      return == Planned(x, entry.data[1], parent[1], run, entry.resumed + 1, slots)
      Call(i) == Planned(tools[i], {<<<<x, run, slots[i]>>>>}, x, slots[i][2], 0, <<>>)
  IN  IF ParentSource(entry) = {} THEN s
      ELSE FoldLeft(LAMBDA t, a : EnqueueArrival(d, t, a), reserved, <<return>> \o Reverse([i \in DOMAIN tools |-> Call(i)]))

\* handleNodeExecutionError: the node's own policy, or a tool's, lets the execution go on.
Continues(s, n) ==
  n.onError \in {"continueRegularOutput", "continueErrorOutput"} \/ (n.name \in s.rewired /\ n.onError # "stopWorkflow")
ContinuedOutput(s, entry, run) ==
  IF entry.node \in s.rewired THEN [o \in {0} |-> {<<<<entry.node, run, "error">>>>}] ELSE [o \in {0} |-> entry.data[1]]

Finish(d, p, s, entry, run, order, status, out) ==
  LET x == entry.node
      recorded == Upsert(s, x, run, Task(order, status, entry.source, out))
  IN  IF status = "waiting" THEN [Unshift(recorded, entry) EXCEPT !.over = "paused"]
      ELSE IF x \in p.destination THEN recorded
      ELSE RunWaitingNodes(d, EnqueueSuccessors(d, recorded, x, out, run))

Traced(s, x, run, calls) ==
  [s EXCEPT !.trace = @ \o FlattenSeq([k \in 1 .. calls |-> <<<<"start", x, run>>, <<"finish", x, run>>>>])]

Run(d, p, s, entry, order) ==
  LET x == entry.node
      n == NodeOf(d, x)
      b == p.does[x]
      run == RunIndex(s, entry)
      tools == Asked(p.does, x, entry.resumed)
      calls == IF tools # <<>> THEN 1 ELSE CallsOf(b, MaxTries(n))
      ending == Ending(b, calls)
      threw == tools = <<>> /\ \E k \in 1 .. calls : Ending(b, k) = "throw"
      ran == [Traced(s, x, run, calls) EXCEPT !.last = IF threw THEN {x} ELSE @]
      failed == SetRuns(ran, x, Runs(ran, x))
  IN  IF tools # <<>> THEN HandleRequest(d, ran, entry, run, tools)
      ELSE IF ending = "null" /\ ~b.always THEN ran
      ELSE IF ending = "throw" THEN
             IF Continues(s, n)
             THEN Finish(d, p, failed, entry, run, order, "error", ContinuedOutput(s, entry, run))
             ELSE [Unshift(Upsert(failed, x, run, Task(order, "error", entry.source, <<>>)), entry) EXCEPT !.over = "halted"]
      ELSE Finish(d, p, [ran EXCEPT !.last = {x}], entry, run, order, IF ending = "wait" THEN "waiting" ELSE "success",
                    Output(b, x, run, ending))

\* One turn of the loop.  A cancelled execution stops before it pops.
Popped(d, p, s) ==
  LET entry == Head(s.stack)
      popped == [s EXCEPT !.stack = Tail(@), !.order = @ + 1]
  IN  IF s.turns \in p.cancel THEN [s EXCEPT !.over = "cancelled"]
      ELSE IF \E filter \in p.filter : entry.node \notin filter THEN [popped EXCEPT !.turns = @ + 1]
      ELSE [Run(d, p, popped, entry, s.order) EXCEPT !.turns = @ + 1]

Fresh(d) ==
  [stack |-> <<Entry(d.starts[1], <<{<<<<d.starts[1], 0, "start">>>>}>>, <<>>)>>, waiting |-> <<>>, runs |-> <<>>,
   order |-> 0, turns |-> 0, last |-> {}, rewired |-> {}, trace |-> <<>>, over |-> ""]

RECURSIVE Loop(_, _, _)
Loop(d, p, s) ==
  IF s.stack = <<>> \/ s.over # "" THEN s
  ELSE IF s.turns >= p.limit THEN [s EXCEPT !.over = "limit"] ELSE Loop(d, p, Popped(d, p, s))
Played(d, p) == Loop(d, p, Fresh(d))

=============================================================================
