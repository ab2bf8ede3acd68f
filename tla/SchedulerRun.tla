------------------------------ MODULE SchedulerRun ------------------------------
(***************************************************************************)
(* PetriScheduler.run, from the call to the outcome: the route, the        *)
(* compile, the run to quiescence as its result, and what is left on the   *)
(* scheduler for n8n to read.  {} is undefined and {v} a value.            *)
(*                                                                         *)
(* A call is [v1, stack, waitTill, key, compiles, legacy, ended]: legacy   *)
(* is how n8n's own scheduler ends, [error, close, throws], and ended how  *)
(* the net does: what it marks -- halt, pause, waits, ran and stopped (the *)
(* stopped tokens), left (tokens the encoder reports) -- cancelled, what   *)
(* the actions left in the state, and refused where the decoder throws.    *)
(***************************************************************************)
EXTENDS Integers, Sequences, SequencesExt, FiniteSetsExt

(***************************************************************************)
(* The two caches of compiled workflows -- cache.ts under compile-step.ts, *)
(* and settlement/compile-cache.ts -- and the order a cached graph's rows  *)
(* are replayed in.  A cache is [entries, capacity, hits, misses,          *)
(* refusals, evictions]; its entries, the least recently used first, are   *)
(* [key, ok, made], made being the miss that compiled it.  A key stands    *)
(* for the structural hash and the budget, or for the hash of the          *)
(* canonical JSON.                                                         *)
(***************************************************************************)
EmptyCache(capacity) ==
  [entries |-> <<>>, capacity |-> capacity, hits |-> 0, misses |-> 0, refusals |-> 0, evictions |-> 0]
Holds(c, key) == \E i \in DOMAIN c.entries : c.entries[i].key = key
EntryFor(c, key) == c.entries[CHOOSE i \in DOMAIN c.entries : c.entries[i].key = key]
Without(c, key) == SelectSeq(c.entries, LAMBDA e : e.key # key)

\* A hit is re-inserted last, an insertion evicts from the front.
Touched(c, key) == [c EXCEPT !.entries = Append(Without(c, key), EntryFor(c, key)), !.hits = @ + 1]
Inserted(c, entry) ==
  LET all == Append(Without(c, entry.key), entry)
      over == Max({0, Len(all) - c.capacity})
  IN  [c EXCEPT !.entries = SubSeq(all, over + 1, Len(all)), !.evictions = @ + over]
Missed(c) == [c EXCEPT !.misses = @ + 1]

\* compileCached: what does not compile throws, and is not kept.
CompileCached(c, key, compiles) ==
  IF Holds(c, key) THEN [cache |-> Touched(c, key), answer |-> {EntryFor(c, key).made}]
  ELSE IF compiles THEN [cache |-> Inserted(Missed(c), [key |-> key, ok |-> TRUE, made |-> c.misses + 1]),
                         answer |-> {c.misses + 1}]
  ELSE [cache |-> Missed(c), answer |-> {}]

\* createCompileCache's get: a refusal is kept as an entry, and thrown again on each hit.
Answered(c, entry) ==
  IF entry.ok THEN [cache |-> c, answer |-> {entry.made}]
  ELSE [cache |-> [c EXCEPT !.refusals = @ + 1], answer |-> {}]
Get(c, key, compiles) ==
  IF Holds(c, key) THEN Answered(Touched(c, key), EntryFor(c, key))
  ELSE LET entry == [key |-> key, ok |-> compiles, made |-> c.misses + 1]
       IN  Answered(Inserted(Missed(c), entry), entry)

\* rankOf: topological without the back edges, ties in graph order; what is left over keeps it too.
RankOrder(ids, arcs) ==
  LET Free(done) == {i \in DOMAIN ids : ~Contains(done, ids[i]) /\
                       \A a \in arcs : a[2] = ids[i] /\ Contains(ids, a[1]) => Contains(done, a[1])}
      place[n \in 0 .. Len(ids)] ==
        IF n = 0 THEN <<>>
        ELSE LET done == place[n - 1] IN IF Free(done) = {} THEN done ELSE Append(done, ids[Min(Free(done))])
  IN  place[Len(ids)] \o SelectSeq(ids, LAMBDA id : ~Contains(place[Len(ids)], id))

\* orderRows: by pass, then by rank.
OrderRows(order, keys) ==
  LET At(id) == CHOOSE i \in DOMAIN order : order[i] = id
  IN  SetToSortSeq(keys, LAMBDA k, l : k[2] < l[2] \/ (k[2] = l[2] /\ At(k[1]) < At(l[1])))

-----------------------------------------------------------------------------
(* The scheduler. *)
InitialState ==
  [halt |-> {}, leftover |-> {}, close |-> {}, fatal |-> {}, waiting |-> {}, waitTill |-> {}, maxInFlight |-> 0]
ResetState(state, waitTill) ==
  [state EXCEPT !.halt = {}, !.leftover = {}, !.close = {}, !.fatal = {}, !.waiting = {},
                !.waitTill = waitTill, !.maxInFlight = 0]
NewScheduler == [state |-> InitialState, compiled |-> {}, outcome |-> {}, diagnostics |-> <<>>]
Reset(s, waitTill) ==
  [s EXCEPT !.diagnostics = <<>>, !.compiled = {}, !.outcome = {}, !.state = ResetState(s.state, waitTill)]
ExecutionError(s) == IF s.state.halt # {} THEN s.state.halt ELSE s.state.leftover

\* finish: the outcome of what the run left marked.
Finished(q) ==
  CASE q.halt -> "halted"
    [] ~q.halt /\ (q.pause \/ q.waits \/ q.ran \/ q.stopped) ->
         IF ~q.cancelled /\ (q.waits \/ q.ran) THEN "paused" ELSE "cancelled"
    [] OTHER -> IF q.cancelled THEN "cancelled" ELSE IF q.left THEN "stranded" ELSE "completed"

Answer(s, cache, thrown) == [scheduler |-> s, cache |-> cache, thrown |-> thrown]
Say(s, message) == [s EXCEPT !.diagnostics = Append(@, message)]

\* runLegacy: copied over whether it threw or not.
RunLegacy(s, cache, legacy) ==
  Answer([Say(s, "legacy route") EXCEPT !.outcome = {"legacy"}, !.state.halt = legacy.error, !.state.leftover = {},
                                       !.state.close = legacy.close], cache, legacy.throws)

\* quiesce and finish; what is fatal is thrown once the run is written back.
RunNet(s, cache, q) ==
  LET state == [s.state EXCEPT !.halt = q.halterror, !.leftover = q.leftover, !.close = q.close,
                               !.waiting = q.waiting, !.maxInFlight = q.most]
      outcome == IF q.fatal = {} THEN Finished(q) ELSE "fatal"
      told == IF q.left THEN Say(s, "tokens left") ELSE s
  IN  IF q.refused # {} THEN Answer(s, cache, q.refused)
      ELSE Answer([told EXCEPT !.state = state, !.outcome = {outcome}], cache, q.fatal)

RunScheduler(scheduler, cache, call) ==
  LET s == Reset(scheduler, call.waitTill)
      asked == CompileCached(cache, call.key, call.compiles)
      compiled == [s EXCEPT !.compiled = asked.answer]
  IN  CASE ~call.v1 -> RunLegacy(s, cache, call.legacy)
        [] call.v1 /\ ~call.stack -> Answer([s EXCEPT !.outcome = {"nothing-to-run"}], cache, {})
        [] OTHER -> IF asked.answer = {} THEN Answer(s, asked.cache, {"refused"})
                    ELSE RunNet(compiled, asked.cache, call.ended)

=============================================================================
