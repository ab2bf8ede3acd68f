------------------------------- MODULE HostChecks -------------------------------
(***************************************************************************)
(* The compile caches, a scheduler called again, the shadow over two       *)
(* moments of one execution, and the differential of the two engines.      *)
(* Evaluated by TLC at start-up.                                           *)
(***************************************************************************)
EXTENDS Integers, Sequences, FiniteSets
LOCAL INSTANCE SequencesExt
LOCAL INSTANCE SchedulerRun
LOCAL INSTANCE Shadow

-----------------------------------------------------------------------------
\* Calls by key; key 3 does not compile.
LOCAL Histories == UNION {[1 .. n -> 1 .. 4] : n \in 1 .. 6}
LOCAL Compiles(key) == key # 3
\* The keys asked before the n-th call since `key` was last asked, and whether it was.
LOCAL AskedBefore(h, n) == \E i \in 1 .. n - 1 : h[i] = h[n]
LOCAL Since(h, n) == {h[j] : j \in {i \in 1 .. n - 1 : \A l \in i .. n - 1 : h[l] # h[n]}}

\* However it is called, a cache answers with what was compiled for the key it is asked, and has
\* kept it exactly while fewer other keys than its capacity came between; the v1 cache never keeps
\* what did not compile, the v2 cache keeps it as a refusal and compiles it once
\* (scheduler/cache.ts, settlement/compile-cache.ts).
LOCAL Called(ask(_, _, _), capacity, h) ==
  FoldLeft(LAMBDA s, key : LET got == ask(s.cache, key, Compiles(key))
                           IN  [cache |-> got.cache, answers |-> Append(s.answers, got.answer)],
           [cache |-> EmptyCache(capacity), answers |-> <<>>], h)
LOCAL KeepsTheRecent(h, s, keeps(_)) ==
  LET Held(n) == AskedBefore(h, n) /\ keeps(h[n]) /\ Cardinality({k \in Since(h, n) : keeps(k)}) < s.cache.capacity
      c == s.cache
  IN  /\ c.hits = Cardinality({n \in DOMAIN h : Held(n)}) /\ c.hits + c.misses = Len(h)
      /\ Len(c.entries) <= c.capacity
      /\ \A n \in DOMAIN h :
           /\ s.answers[n] # {} <=> Compiles(h[n])
           /\ \A m \in 1 .. n - 1 : s.answers[m] = s.answers[n] /\ s.answers[n] # {} => h[m] = h[n]
           /\ Held(n) /\ Compiles(h[n]) => \E m \in 1 .. n - 1 : h[m] = h[n] /\ s.answers[m] = s.answers[n]
ASSUME CachesKeepTheRecent ==
  \A h \in Histories : \A capacity \in 1 .. 3 :
    /\ KeepsTheRecent(h, Called(CompileCached, capacity, h), Compiles)
    /\ KeepsTheRecent(h, Called(Get, capacity, h), LAMBDA key : TRUE)

\* The replay rank names each node once, and puts the source of an arc first wherever the arcs
\* are acyclic; a graph listed that way keeps its order (rankOf).
LOCAL Ids == <<"a", "b", "c", "d">>
LOCAL Arcs == SUBSET ({"a", "b", "c", "d"} \X {"a", "b", "c", "d"})
LOCAL IndexIn(order, id) == CHOOSE i \in DOMAIN order : order[i] = id
ASSUME RanksFollowTheArcs ==
  \A arcs \in {s \in Arcs : Cardinality(s) <= 3} :
    LET order == RankOrder(Ids, arcs)
        InOrder(o) == \A a \in arcs : IndexIn(o, a[1]) < IndexIn(o, a[2])
        Acyclic == \E o \in {p \in [1 .. 4 -> {"a", "b", "c", "d"}] : IsInjective(p)} : InOrder(o)
    IN  /\ Len(order) = 4 /\ IsInjective(order)
        /\ Acyclic => InOrder(order)
        /\ InOrder(Ids) => order = Ids

-----------------------------------------------------------------------------
\* Calls on one scheduler: n8n's own loop, nothing to run, a refusal, and every way the net ends.
LOCAL Quiet ==
  [halt |-> FALSE, pause |-> FALSE, waits |-> FALSE, ran |-> FALSE, stopped |-> FALSE, left |-> FALSE, cancelled |-> FALSE,
   halterror |-> {}, leftover |-> {}, close |-> {}, fatal |-> {}, waiting |-> {}, most |-> 1, refused |-> {}]
LOCAL Ends ==
  {Quiet, [Quiet EXCEPT !.halt = TRUE, !.halterror = {"e"}, !.left = TRUE], [Quiet EXCEPT !.leftover = {"soft"}],
   [Quiet EXCEPT !.waits = TRUE, !.pause = TRUE, !.waiting = {"A"}], [Quiet EXCEPT !.ran = TRUE, !.cancelled = TRUE],
   [Quiet EXCEPT !.fatal = {"bug"}, !.halt = TRUE, !.halterror = {"bug"}], [Quiet EXCEPT !.close = {"trigger"}, !.left = TRUE],
   [Quiet EXCEPT !.refused = {"codec"}], [Quiet EXCEPT !.stopped = TRUE]}
LOCAL Legacies == {[error |-> {}, close |-> {}, throws |-> {}], [error |-> {"e"}, close |-> {"c"}, throws |-> {"e"}]}
LOCAL CallOf(v1, stack, key, legacy, ended) ==
  [v1 |-> v1, stack |-> stack, waitTill |-> IF stack THEN {} ELSE {"then"}, key |-> key, compiles |-> Compiles(key),
   legacy |-> legacy, ended |-> ended]
LOCAL NoError == CHOOSE l \in Legacies : l.error = {}
LOCAL Calls ==
  {CallOf(FALSE, TRUE, 1, l, Quiet) : l \in Legacies} \cup {CallOf(TRUE, FALSE, 1, NoError, Quiet)}
  \cup {CallOf(TRUE, TRUE, key, NoError, q) : key \in {1, 3}, q \in Ends}
LOCAL RunOn(scheduler, call) == RunScheduler(scheduler, EmptyCache(2), call)
LOCAL OnlyAfter(scheduler, call) == [RunOn(scheduler, call) EXCEPT !.cache = {}]

\* A scheduler called again says of a run what a new one would, whatever the run before it left or
\* threw (reset, PetriScheduler.run); what is thrown is never an outcome n8n reads as an end, and
\* an error that stopped the net is not hidden by one it ran past.
ASSUME RunsAreIndependent ==
  \A first, second \in Calls :
    LET before == RunOn(NewScheduler, first).scheduler
        then == RunOn(before, second)
    IN  /\ OnlyAfter(before, second) = OnlyAfter(NewScheduler, second)
        /\ then.thrown # {} => then.scheduler.outcome \subseteq {"fatal", "legacy"}
        /\ then.scheduler.outcome = {"halted"} => ExecutionError(then.scheduler) # {}

-----------------------------------------------------------------------------
(***************************************************************************)
(* One execution seen twice: the net-backed policy answers from one moment *)
(* and n8n's from the same or a later one.  A and C end in a join, or one  *)
(* of them is skipped, fails or is cancelled.                              *)
(***************************************************************************)
LOCAL Edge(from, out, to, in) == [from |-> from, out |-> out, to |-> to, in |-> in]
LOCAL Joined ==
  Analysed({Edge("T", 0, "A", 0), Edge("T", 1, "C", 0), Edge("A", 0, "J", 0), Edge("C", 0, "J", 1)}, "T", {})
LOCAL Row(status, filled) == [status |-> status, filled |-> filled]
LOCAL Triggered == {[k \in {<<"T", 0>>} |-> Row("completed", filled)] : filled \in {{0}, {0, 1}}}
LOCAL With(rows, keys, row) == [k \in DOMAIN rows \cup keys |-> IF k \in keys THEN row ELSE rows[k]]
LOCAL Deciding(rows) == {k \in DOMAIN rows : rows[k].status \in {"completed", "skipped"}}
LOCAL Written(rows, plan) == With(With(rows, plan.toQueue, Row("queued", {})), plan.toSkip, Row("skipped", {}))
LOCAL Queued(rows) == {k \in DOMAIN rows : rows[k].status = "queued"}
\* Once a row failed or was cancelled the execution is over, and decides nothing.
LOCAL Unharmed(rows) == \A k \in DOMAIN rows : rows[k].status \notin {"failed", "cancelled"}
LOCAL Moves(rows) ==
  {Written(rows, DecideSuccessors(Joined, k, rows)) : k \in {d \in Deciding(rows) : Unharmed(rows)}}
  \cup {With(rows, {k}, Row(s, IF s = "completed" THEN {0} ELSE {})) : k \in Queued(rows), s \in {"completed", "failed"}}
  \cup (IF Queued(rows) = {} THEN {} ELSE {With(rows, Queued(rows), Row("cancelled", {}))})
RECURSIVE Later(_, _)
LOCAL Later(open, seen) ==
  LET next == UNION {Moves(rows) : rows \in open} \ seen
  IN  IF next = {} THEN seen ELSE Later(next, seen \cup next)

\* The two policies' sides of a call.  Ours throws where its decoder refuses the rows.
LOCAL Thrown(answer) == IF answer = Refused THEN {} ELSE {answer}
LOCAL OursDecides(rows, k) ==
  [answer |-> Thrown(DecideFromRows(Joined, k, rows, PlanAt(Joined, rows))), rows |-> rows, reads |-> 1]
LOCAL TheirsDecides(rows, k) ==
  [answer |-> {IF HasFailed(rows) THEN NothingPlanned ELSE DecideSuccessors(Joined, k, rows)}, rows |-> rows, reads |-> 1]
LOCAL OursFinishes(rows, plan) ==
  [answer |-> FinishedAfterDecision(Joined, rows, plan), rows |-> << >>, reads |-> 0]
LOCAL TheirsFinishes(rows) ==
  [answer |-> {~HasFailed(rows) /\ ReferenceFinished(Joined, rows)}, rows |-> rows, reads |-> 1]

\* A call of either policy as the answering one, which reads at `first`; the other reads at `then`.
LOCAL Decided(mode, k, first, then) ==
  LET sides == Sides(mode, "ours", "theirs")
      Ask(who, rows) == IF who = "ours" THEN OursDecides(rows, k) ELSE TheirsDecides(rows, k)
  IN  Shadowed("decideSuccessors", Ask(sides.primary, first), Ask(CHOOSE c \in sides.candidate : TRUE, then), {})
LOCAL Finishes(mode, ours, theirs, kept) ==
  IF Sides(mode, "ours", "theirs").primary = "ours" THEN Shadowed("isFinished", ours, theirs, kept)
  ELSE Shadowed("isFinished", theirs, ours, kept)
LOCAL Shadows == {"shadow", "primary-shadowed"}
LOCAL Verdicts(shadowed) == {r.verdict : r \in shadowed.report}

\* Over one moment the two policies never disagree.  isFinished, from the snapshot its settlement
\* decided on, never says true too early: whichever policy answers, a fresh answer that differs is
\* stale or a race.  A disagreement over what to decide is the moment's, and shows as a row that
\* moved, or as one only the later side read, which `skew` does not flag (settlement/shadow.ts).
ASSUME ShadowTellsTheMoment ==
  LET moments == Later(Triggered, Triggered)
      settlements == {<<rows, k>> \in moments \X UNION {DOMAIN rows : rows \in moments} : k \in Deciding(rows)}
      after == [rows \in moments |-> Later({rows}, {rows})]
      Moved(r) == r.skew \/ DOMAIN r.primaryRows # DOMAIN r.candidateRows
      reports == [mode \in Shadows |-> UNION {UNION {Decided(mode, s[2], s[1], then).report : then \in after[s[1]]} : s \in settlements}]
  IN  /\ \A s \in settlements : \A mode \in Shadows :
           LET same == Decided(mode, s[2], s[1], s[1])
               ours == OursDecides(s[1], s[2])
               plan == CHOOSE a \in ours.answer : TRUE
           IN  /\ Verdicts(same) \subseteq {"agree", "race"}
               /\ ours.answer # {} => \A then \in after[Written(s[1], plan)] :
                    Verdicts(Finishes(mode, OursFinishes(s[1], plan), TheirsFinishes(then), same.kept))
                      \subseteq {"agree", "stale", "race"}
      /\ \A mode \in Shadows : \A r \in reports[mode] : r.verdict = "disagree" => Moved(r)
      /\ \E r \in reports["primary-shadowed"] : r.verdict = "disagree" /\ ~r.skew

-----------------------------------------------------------------------------
(***************************************************************************)
(* Both engines under one behaviour, in every order of events and firings: *)
(* a fork joined again, with a step of three slots; a loop with a body     *)
(* whose exit joins the branch beside it.                                  *)
(***************************************************************************)
LOCAL GraphOf(edges, batch) == Analysed(edges, "T", MarkedBack(edges, batch))
LOCAL Forked ==
  GraphOf({Edge("T", 0, "A", 0), Edge("T", 0, "C", 0), Edge("A", 0, "J", 0), Edge("C", 1, "J", 1), Edge("C", 0, "K", 0),
           Edge("C", 2, "K", 0)}, {})
LOCAL Looped ==
  GraphOf({Edge("T", 0, "A", 0), Edge("T", 0, "C", 0), Edge("A", 1, "B", 0), Edge("B", 0, "A", 0),
           Edge("A", 0, "J", 0), Edge("C", 0, "J", 1)}, {"A"})
LOCAL Does(fills, fails, waits, passes, empty) ==
  [fills |-> fills, fails |-> fails, waits |-> waits, passes |-> passes, empty |-> empty]
LOCAL SlotChoices(g) ==
  {f \in [g.nodes -> SUBSET {0, 1, 2}] : \A n \in g.nodes : f[n] \subseteq Slots(g, n) \cup {0}
                                           /\ (n \in {"B", "C"} \/ f[n] = {0})}
LOCAL Behaviours(g) ==
  LET batch == BatchesOf(g)
  IN  {Does(f, {}, waits, passes, empty) : f \in SlotChoices(g), waits \in {{}, {"C"}},
                                           passes \in IF batch = {} THEN {1} ELSE {1, 4}, empty \in {{}, batch}}
      \cup {Does(f, fails, {"C"}, 2, {}) : f \in SlotChoices(g), fails \in {{"C"}, {"B"}, {"J", "K"}}}
RECURSIVE RunsFrom(_, _, _, _), FiringsFrom(_, _, _, _)
RunsFrom(g, does, open, seen) ==
  LET next == UNION {NextRuns(g, does, s) : s \in open} \ seen
  IN  IF next = {} THEN seen ELSE RunsFrom(g, does, next, seen \cup next)
FiringsFrom(g, does, open, seen) ==
  LET next == UNION {NextFirings(g, does, s) : s \in open} \ seen
  IN  IF next = {} THEN seen ELSE FiringsFrom(g, does, next, seen \cup next)

\* Each row set the reference's loop passes through gets the same plan, the same narrowed decision
\* for each step about to settle, and the same word on whether the execution is over from the
\* net, and from its frontier; and a run of either, whatever its order, ends alike and does the
\* same with every step both decided: with all of them when none fails; between its firings the
\* rows of the net decode to its marking and plan what it has enabled (differential.ts).
LOCAL Waiting(runs, rows) == {e[2] : e \in {x \in UNION {r.pending : r \in {s \in runs : s.rows = rows}} : x[1] = "settled"}}
LOCAL LegsAgree(g, rows, settled) ==
  /\ CompareState(g, rows)
  /\ \A net \in {NetPlanAt(g, rows)} :
       /\ CompareFinished(g, rows, net)
       /\ \A k \in settled : CompareScoped(g, rows, k, net)
  /\ CompareFrontier(g, rows, settled)
LOCAL RunsAgree(g, does) ==
  LET start == SimulateStart(g)
      first == NetStart(g)
      runs == RunsFrom(g, does, {start}, {start})
      Claims(s) == {Claimed(s.rows, e[2]) : e \in {x \in s.pending : x[1] = "ready" /\ s.end = "running"}}
      ended == {s \in runs : NextRuns(g, does, s) = {}}
      firings == FiringsFrom(g, does, {first}, {first})
      fired == {s \in firings : NextFirings(g, does, s) = {}}
  IN  /\ \A rows \in {s.rows : s \in runs} : LegsAgree(g, rows, Waiting(runs, rows) \cap Deciding(rows))
      /\ \A rows \in UNION {Claims(s) : s \in runs} : LegsAgree(g, rows, {})
      /\ \A s \in firings : RoutesFired(g, s) => ComparePoint(g, s)
      /\ \A s \in ended, net \in fired : CompareRuns(g, s, net)
ASSUME EveryOrderAgrees == \A g \in {Forked, Looped} : \A does \in Behaviours(g) : RunsAgree(g, does)

=================================================================================
