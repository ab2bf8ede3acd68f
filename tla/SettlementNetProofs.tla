------------------------- MODULE SettlementNetProofs -------------------------
(***************************************************************************)
(* Proofs about the net of engine v2 (SettlementNet), for any accepted     *)
(* graphs and any number of passes.                                        *)
(*                                                                         *)
(* The argument counts.  Along each edge a node is opened at most once for *)
(* each time its source gave it something, so the rows of the nodes of a   *)
(* loop differ by one at most, and what the entry of a loop gave once ends *)
(* it once.  That every node is opened once outside loops, and every loop  *)
(* ended once, then follows along the forward edges.                       *)
(***************************************************************************)
EXTENDS SettlementNet, Integers, TLAPS

-----------------------------------------------------------------------------
(***************************************************************************)
(* The invariant, over a graph h, a marking m and counts of rows c.        *)
(***************************************************************************)
Markings(h) == [Places(h) -> Nat]
Counts(h) == [h.nodes -> Nat]

(* How often the source of e has settled in a way that gives e an arrival. *)
Given(h, m, c, e) ==
    IF IsBatch(h, e.from)
      THEN IF e.out = DoneSlot THEN m[Ended(e.from)]
           ELSE c[e.from] - m[Running(e.from)] - m[Ended(e.from)]
      ELSE c[e.from] - m[Running(e.from)] - (IF IsSplit(h, e.from) THEN m[Ok(e.from, e.out)] ELSE 0)

(* An arrival, and each row of the edge's target, was given by the source. *)
EdgeBalanced(h, m, c) ==
    \A e \in h.edges : ~IsBatch(h, e.to) => m[Arrived(e)] + c[e.to] <= Given(h, m, c, e)

(* A batch node is opened by either of its two edges. *)
BatchBalanced(h, m, c) ==
    \A b \in BatchesOf(h) :
      m[Arrived(EntryEdge(h, b))] + m[Arrived(BackEdge(h, b))] + c[b]
        <= Given(h, m, c, EntryEdge(h, b)) + Given(h, m, c, BackEdge(h, b))

(* A row is running, on its way to a slot, or over; of a batch node it ends the loop once. *)
RowsCovered(h, m, c) ==
    \A n \in h.nodes :
      /\ m[Running(n)] <= c[n]
      /\ IsBatch(h, n) => m[Running(n)] + m[Ended(n)] <= c[n]
      /\ IsSplit(h, n) => \A o \in Slots(h, n) : m[Running(n)] + m[Ok(n, o)] <= c[n]

TriggerOnce(h, m, c) == m[TriggerIn] + c[h.trigger] = 1

Balanced(h, m, c) ==
    /\ m \in Markings(h) /\ c \in Counts(h)
    /\ EdgeBalanced(h, m, c) /\ BatchBalanced(h, m, c) /\ RowsCovered(h, m, c) /\ TriggerOnce(h, m, c)

-----------------------------------------------------------------------------
(***************************************************************************)
(* The names of the places.                                                *)
(***************************************************************************)
LEMMA NamesDiffer ==
    /\ \A e, f : Arrived(e) = Arrived(f) => e = f
    /\ \A n, x : Running(n) = Running(x) => n = x
    /\ \A n, x : Ended(n) = Ended(x) => n = x
    /\ \A n, x, o, q : Ok(n, o) = Ok(x, q) => n = x /\ o = q
BY DEF Arrived, Running, Ended, Ok

LEMMA ArrivedIsItself ==
    \A e, n, o : Arrived(e) \notin {Running(n), Ended(n), Ok(n, o), Live(n), Done(n), Skipped(n), Halt, TriggerIn}
BY DEF Arrived, Running, Ended, Ok, Live, Done, Skipped, Halt, TriggerIn

LEMMA RunningIsItself ==
    \A e, x, n, o : Running(x) \notin {Arrived(e), Ended(n), Ok(n, o), Live(n), Done(n), Skipped(n), Halt, TriggerIn}
BY DEF Arrived, Running, Ended, Ok, Live, Done, Skipped, Halt, TriggerIn

LEMMA EndedIsItself ==
    \A e, x, n, o : Ended(x) \notin {Arrived(e), Running(n), Ok(n, o), Live(n), Done(n), Skipped(n), Halt, TriggerIn}
BY DEF Arrived, Running, Ended, Ok, Live, Done, Skipped, Halt, TriggerIn

LEMMA OkIsItself ==
    \A e, x, q, n : Ok(x, q) \notin {Arrived(e), Running(n), Ended(n), Live(n), Done(n), Skipped(n), Halt, TriggerIn}
BY DEF Arrived, Running, Ended, Ok, Live, Done, Skipped, Halt, TriggerIn

LEMMA InputIsItself ==
    \A e, n, o : TriggerIn \notin {Arrived(e), Running(n), Ended(n), Ok(n, o), Live(n), Done(n), Skipped(n), Halt}
BY DEF Arrived, Running, Ended, Ok, Live, Done, Skipped, Halt, TriggerIn

LEMMA PlacesHold ==
    ASSUME NEW h
    PROVE  /\ \A e \in h.edges : Arrived(e) \in Places(h)
           /\ \A n \in h.nodes : Running(n) \in Places(h)
           /\ \A n \in h.nodes : IsBatch(h, n) => Ended(n) \in Places(h)
           /\ \A n \in h.nodes : IsSplit(h, n) => \A o \in Slots(h, n) : Ok(n, o) \in Places(h)
           /\ TriggerIn \in Places(h)
<1>1. \A n \in h.nodes : OwnPlaces(h, n) \subseteq Places(h)
  BY DEF Places
<1>2. \A n \in h.nodes : Running(n) \in OwnPlaces(h, n)
  BY DEF OwnPlaces
<1>3. \A n \in h.nodes : IsBatch(h, n) => Ended(n) \in OwnPlaces(h, n)
  BY DEF OwnPlaces
<1>4. \A n \in h.nodes : IsSplit(h, n) => \A o \in Slots(h, n) : Ok(n, o) \in OwnPlaces(h, n)
  BY DEF OwnPlaces
<1>5. HostPlaces(h) \subseteq Places(h)
  BY DEF Places
<1>6. TriggerIn \in HostPlaces(h) /\ \A e \in h.edges : Arrived(e) \in HostPlaces(h)
  BY DEF HostPlaces
<1>. QED
  BY <1>1, <1>2, <1>3, <1>4, <1>5, <1>6

-----------------------------------------------------------------------------
(***************************************************************************)
(* What a skip, a run and a failure write.                                 *)
(***************************************************************************)
(* The places the invariant counts that are in a set of places: the arrivals of `edges`, *)
(* the runs of `runs`, the ends of the loops `ends`, the routes in `routes`.             *)
Touches(places, edges, runs, ends, routes) ==
    /\ \A e : Arrived(e) \in places <=> e \in edges
    /\ \A x : Running(x) \in places <=> x \in runs
    /\ \A x : Ended(x) \in places <=> x \in ends
    /\ \A x, o : Ok(x, o) \in places <=> <<x, o>> \in routes
    /\ TriggerIn \notin places

LEMMA SlotWrites ==
    ASSUME NEW E, NEW filled
    PROVE  Touches(SlotPlaces(E, filled), E, {}, {}, {})
<1>. DEFINE arrivals == {Arrived(e) : e \in E}
            lives == IF filled THEN {Live(n) : n \in Targets(E)} ELSE {}
<1>1. SlotPlaces(E, filled) = arrivals \cup lives
  BY DEF SlotPlaces
<1>2. \A e : Arrived(e) \in arrivals <=> e \in E
  BY NamesDiffer
<1>3. \A x, o : {Running(x), Ended(x), Ok(x, o), TriggerIn} \cap arrivals = {}
  BY RunningIsItself, EndedIsItself, OkIsItself, InputIsItself
<1>4. \A e, x, o : {Arrived(e), Running(x), Ended(x), Ok(x, o), TriggerIn} \cap lives = {}
  BY ArrivedIsItself, RunningIsItself, EndedIsItself, OkIsItself, InputIsItself
<1>. HIDE DEF arrivals, lives
<1>. QED
  BY <1>1, <1>2, <1>3, <1>4 DEF Touches

LEMMA MarkerWrites ==
    ASSUME NEW n, NEW h
    PROVE  /\ Touches({Ended(n)}, {}, {}, {n}, {})
           /\ Touches({Skipped(n)}, {}, {}, {}, {})
           /\ Touches(DoneMarker(h, n), {}, {}, {}, {})
           /\ Touches({Halt}, {}, {}, {}, {})
           /\ Touches({}, {}, {}, {}, {})
<1>1. Touches({Ended(n)}, {}, {}, {n}, {})
  BY NamesDiffer, ArrivedIsItself, RunningIsItself, OkIsItself, InputIsItself DEF Touches
<1>2. Touches({Skipped(n)}, {}, {}, {}, {})
  BY ArrivedIsItself, RunningIsItself, EndedIsItself, OkIsItself, InputIsItself DEF Touches
<1>3. Touches({Done(n)}, {}, {}, {}, {})
  BY ArrivedIsItself, RunningIsItself, EndedIsItself, OkIsItself, InputIsItself DEF Touches
<1>4. Touches({Halt}, {}, {}, {}, {})
  BY ArrivedIsItself, RunningIsItself, EndedIsItself, OkIsItself, InputIsItself DEF Touches
<1>5. Touches({}, {}, {}, {}, {})
  BY DEF Touches
<1>. QED
  BY <1>1, <1>2, <1>3, <1>4, <1>5 DEF DoneMarker

LEMMA RouteWrites ==
    ASSUME NEW n, NEW S
    PROVE  Touches({Ok(n, o) : o \in S}, {}, {}, {}, {<<n, o>> : o \in S})
<1>1. \A x, q : Ok(x, q) \in {Ok(n, o) : o \in S} <=> <<x, q>> \in {<<n, o>> : o \in S}
  BY NamesDiffer
<1>. QED
  BY <1>1, ArrivedIsItself, RunningIsItself, EndedIsItself, InputIsItself DEF Touches

LEMMA JointWrites ==
    ASSUME NEW P, NEW Q, NEW E, NEW F, NEW C, NEW D, NEW A, NEW B, NEW R, NEW S,
           Touches(P, E, C, A, R), Touches(Q, F, D, B, S)
    PROVE  Touches(P \cup Q, E \cup F, C \cup D, A \cup B, R \cup S)
BY DEF Touches

LEMMA SkipWrites ==
    ASSUME NEW h, NEW n
    PROVE  IF IsBatch(h, n) THEN Touches(SkipPlaces(h, n), SlotEdges(h, n, DoneSlot), {}, {n}, {})
                            ELSE Touches(SkipPlaces(h, n), OutOf(n, h.edges), {}, {}, {})
<1>1. CASE IsBatch(h, n)
  <2>1. SkipPlaces(h, n) = SlotPlaces(SlotEdges(h, n, DoneSlot), FALSE) \cup {Ended(n)}
    BY <1>1 DEF SkipPlaces
  <2>2. Touches(SlotPlaces(SlotEdges(h, n, DoneSlot), FALSE) \cup {Ended(n)},
               SlotEdges(h, n, DoneSlot) \cup {}, {} \cup {}, {} \cup {n}, {} \cup {})
    BY SlotWrites, MarkerWrites, JointWrites
  <2>. QED
    BY <1>1, <2>1, <2>2
<1>2. CASE ~IsBatch(h, n)
  <2>. DEFINE marker == IF InLoop(h, n) THEN {} ELSE {Skipped(n)}
  <2>1. SkipPlaces(h, n) = SlotPlaces(OutOf(n, h.edges), FALSE) \cup marker
    BY <1>2 DEF SkipPlaces
  <2>2. Touches(marker, {}, {}, {}, {})
    BY MarkerWrites
  <2>. HIDE DEF marker
  <2>3. Touches(SlotPlaces(OutOf(n, h.edges), FALSE) \cup marker, OutOf(n, h.edges) \cup {}, {} \cup {}, {} \cup {}, {} \cup {})
    BY <2>2, SlotWrites, JointWrites
  <2>. QED
    BY <1>2, <2>1, <2>3
<1>. QED
  BY <1>1, <1>2

LEMMA FailWrites ==
    ASSUME NEW h, NEW n
    PROVE  Touches(FailPlaces(h, n), {}, {}, IF IsBatch(h, n) THEN {n} ELSE {}, {})
<1>1. CASE IsBatch(h, n)
  <2>1. Touches({Halt} \cup {Ended(n)}, {} \cup {}, {} \cup {}, {} \cup {n}, {} \cup {})
    BY MarkerWrites, JointWrites
  <2>. QED
    BY <1>1, <2>1 DEF FailPlaces
<1>2. CASE ~IsBatch(h, n)
  <2>1. Touches({Halt} \cup DoneMarker(h, n), {} \cup {}, {} \cup {}, {} \cup {}, {} \cup {})
    BY MarkerWrites, JointWrites
  <2>. QED
    BY <1>2, <2>1 DEF FailPlaces
<1>. QED
  BY <1>1, <1>2

(* A run of a plain node gives every slot its arrivals, or its routes to come. *)
LEMMA PlainRunWrites ==
    ASSUME NEW h, NEW n, NEW F, ~IsBatch(h, n)
    PROVE  IF IsSplit(h, n) THEN Touches(RunPlaces(h, n, F), {}, {}, {}, {<<n, o>> : o \in Slots(h, n)})
                            ELSE Touches(RunPlaces(h, n, F), OutOf(n, h.edges), {}, {}, {})
<1>1. CASE IsSplit(h, n)
  <2>1. RunPlaces(h, n, F) = DoneMarker(h, n) \cup {Ok(n, o) : o \in Slots(h, n)}
    BY <1>1 DEF RunPlaces
  <2>2. Touches(DoneMarker(h, n) \cup {Ok(n, o) : o \in Slots(h, n)},
               {} \cup {}, {} \cup {}, {} \cup {}, {} \cup {<<n, o>> : o \in Slots(h, n)})
    <3>1. Touches(DoneMarker(h, n), {}, {}, {}, {})
      BY MarkerWrites, Zenon
    <3>2. Touches({Ok(n, o) : o \in Slots(h, n)}, {}, {}, {}, {<<n, o>> : o \in Slots(h, n)})
      BY RouteWrites
    <3>. QED
      BY <3>1, <3>2, JointWrites
  <2>. QED
    BY <1>1, <2>1, <2>2
<1>2. CASE ~IsSplit(h, n)
  <2>. DEFINE arrivals(o) == SlotPlaces(SlotEdges(h, n, o), o \in F)
              all == UNION {arrivals(o) : o \in Slots(h, n)}
  <2>1. RunPlaces(h, n, F) = DoneMarker(h, n) \cup all
    BY <1>2 DEF RunPlaces
  <2>2. \A o : Touches(arrivals(o), SlotEdges(h, n, o), {}, {}, {})
    BY SlotWrites
  <2>3. \A e : e \in OutOf(n, h.edges) <=> \E o \in Slots(h, n) : e \in SlotEdges(h, n, o)
    BY DEF OutOf, Slots, SlotEdges
  <2>4. Touches(all, OutOf(n, h.edges), {}, {}, {})
    <3>. HIDE DEF arrivals
    <3>. QED
      BY <2>2, <2>3 DEF Touches
  <2>. HIDE DEF all
  <2>5. Touches(DoneMarker(h, n) \cup all, {} \cup OutOf(n, h.edges), {} \cup {}, {} \cup {}, {} \cup {})
    BY <2>4, MarkerWrites, JointWrites
  <2>. QED
    BY <1>2, <2>1, <2>5
<1>. QED
  BY <1>1, <1>2

(* A run of a batch node gives the loop slot, or ends the loop with the done slot. *)
LEMMA BatchRunWrites ==
    ASSUME NEW h, NEW n, NEW F, IsBatch(h, n)
    PROVE  IF LoopSlot \in F THEN Touches(RunPlaces(h, n, F), SlotEdges(h, n, LoopSlot), {}, {}, {})
                             ELSE Touches(RunPlaces(h, n, F), SlotEdges(h, n, DoneSlot), {}, {n}, {})
<1>1. Touches(SlotPlaces(SlotEdges(h, n, LoopSlot), TRUE), SlotEdges(h, n, LoopSlot), {}, {}, {})
  BY SlotWrites
<1>2. Touches(SlotPlaces(SlotEdges(h, n, DoneSlot), DoneSlot \in F) \cup {Ended(n)},
             SlotEdges(h, n, DoneSlot) \cup {}, {} \cup {}, {} \cup {n}, {} \cup {})
  BY SlotWrites, MarkerWrites, JointWrites
<1>. QED
  BY <1>1, <1>2 DEF RunPlaces, BatchRunPlaces

-----------------------------------------------------------------------------
(***************************************************************************)
(* What the firings do to the counted places.                              *)
(***************************************************************************)
One(holds) == IF holds THEN 1 ELSE 0

LEMMA FireAt ==
    ASSUME NEW h, NEW m \in Markings(h), NEW t, NEW P, NEW p \in Places(h), p \notin t.all
    PROVE  Fire(t, m, P, {})[p] = m[p] - One(p \in t.one) + One(p \in P)
BY DEF Fire, Markings, One

LEMMA FireTypes ==
    ASSUME NEW h, NEW m \in Markings(h), NEW t, NEW P, \A p \in t.one : m[p] > 0
    PROVE  Fire(t, m, P, {}) \in Markings(h)
BY DEF Fire, Markings

LEMMA ArrivalsTouch ==
    ASSUME NEW T, NEW n
    PROVE  Touches({Arrived(e) : e \in T}, T, {}, {}, {}) /\ Touches({Live(n)}, {}, {}, {}, {})
<1>1. \A e : Arrived(e) \in {Arrived(f) : f \in T} <=> e \in T
  BY NamesDiffer
<1>2. Touches({Arrived(e) : e \in T}, T, {}, {}, {})
  BY <1>1, RunningIsItself, EndedIsItself, OkIsItself, InputIsItself DEF Touches
<1>3. Touches({Live(n)}, {}, {}, {}, {})
  BY ArrivedIsItself, RunningIsItself, EndedIsItself, OkIsItself, InputIsItself DEF Touches
<1>. QED
  BY <1>2, <1>3

(* The change from m to mm: the arrivals T, the runs C and the routes Q taken; the arrivals E, *)
(* the runs D, the ends A and the routes R written.                                            *)
Changes(h, m, mm, T, C, Q, E, D, A, R) ==
    /\ \A e \in h.edges : mm[Arrived(e)] = m[Arrived(e)] - One(e \in T) + One(e \in E)
    /\ \A x \in h.nodes : mm[Running(x)] = m[Running(x)] - One(x \in C) + One(x \in D)
    /\ \A x \in h.nodes : IsBatch(h, x) => mm[Ended(x)] = m[Ended(x)] + One(x \in A)
    /\ \A x \in h.nodes : IsSplit(h, x) => \A o \in Slots(h, x) :
         mm[Ok(x, o)] = m[Ok(x, o)] - One(<<x, o>> \in Q) + One(<<x, o>> \in R)
    /\ mm[TriggerIn] = m[TriggerIn]

LEMMA FireMarks ==
    ASSUME NEW h, NEW m \in Markings(h), NEW t, NEW P,
           NEW T, NEW C, NEW Q, Touches(t.one, T, C, {}, Q), Touches(t.all, {}, {}, {}, {}),
           NEW E, NEW D, NEW A, NEW R, Touches(P, E, D, A, R)
    PROVE  Changes(h, m, Fire(t, m, P, {}), T, C, Q, E, D, A, R)
<1>. DEFINE mm == Fire(t, m, P, {})
<1>1. \A p \in Places(h) : p \notin t.all => mm[p] = m[p] - One(p \in t.one) + One(p \in P)
  BY FireAt
<1>2. \A p \in Places(h) : m[p] \in Nat
  BY DEF Markings
<1>. HIDE DEF mm
<1>3. \A e \in h.edges : mm[Arrived(e)] = m[Arrived(e)] - One(e \in T) + One(e \in E)
  BY <1>1, PlacesHold DEF Touches
<1>4. \A x \in h.nodes : mm[Running(x)] = m[Running(x)] - One(x \in C) + One(x \in D)
  BY <1>1, PlacesHold DEF Touches
<1>5. \A x \in h.nodes : IsBatch(h, x) => mm[Ended(x)] = m[Ended(x)] + One(x \in A)
  BY <1>1, <1>2, PlacesHold DEF Touches, One
<1>6. \A x \in h.nodes : IsSplit(h, x) => \A o \in Slots(h, x) :
        mm[Ok(x, o)] = m[Ok(x, o)] - One(<<x, o>> \in Q) + One(<<x, o>> \in R)
  BY <1>1, PlacesHold DEF Touches
<1>7. mm[TriggerIn] = m[TriggerIn]
  BY <1>1, <1>2, PlacesHold DEF Touches, One
<1>. QED
  BY <1>3, <1>4, <1>5, <1>6, <1>7 DEF mm, Changes

LEMMA RunsTouch ==
    ASSUME NEW n, NEW o
    PROVE  Touches({Running(n)}, {}, {n}, {}, {}) /\ Touches({Ok(n, o)}, {}, {}, {}, {<<n, o>>})
<1>1. Touches({Running(n)}, {}, {n}, {}, {})
  BY NamesDiffer, ArrivedIsItself, EndedIsItself, OkIsItself, InputIsItself DEF Touches
<1>2. \A x, q : Ok(x, q) \in {Ok(n, o)} <=> <<x, q>> \in {<<n, o>>}
  BY NamesDiffer
<1>3. Touches({Ok(n, o)}, {}, {}, {}, {<<n, o>>})
  BY <1>2, ArrivedIsItself, RunningIsItself, EndedIsItself, InputIsItself DEF Touches
<1>. QED
  BY <1>1, <1>3

-----------------------------------------------------------------------------
(***************************************************************************)
(* What each step does to the balance.                                     *)
(***************************************************************************)
LEMMA BatchEdges ==
    ASSUME NEW h, IsAccepted(h), NEW b \in BatchesOf(h)
    PROVE  /\ b \in h.nodes /\ IsBatch(h, b) /\ b # h.trigger
           /\ EntryEdge(h, b) \in h.edges /\ EntryEdge(h, b).to = b /\ h.class[EntryEdge(h, b)] # "back"
           /\ EntryEdge(h, b).from \notin Members(h, b)
           /\ BackEdge(h, b) \in h.edges /\ BackEdge(h, b).to = b /\ h.class[BackEdge(h, b)] = "back"
           /\ BackEdge(h, b).from \in Members(h, b)
           /\ \A e \in h.edges : e.to = b => e \in {EntryEdge(h, b), BackEdge(h, b)}
<1>1. b \in h.nodes /\ IsBatch(h, b) /\ h.loop[b] = b
  BY DEF BatchesOf, IsBatch
<1>2. b # h.trigger
  BY <1>1 DEF IsAccepted
<1>. DEFINE returns == {e \in Into(b, h.edges) : (h.class[e] = "back") = TRUE}
            entries == {e \in Into(b, h.edges) : (h.class[e] = "back") = FALSE}
<1>3. PICK return \in returns, entry \in entries :
        /\ returns = {return} /\ entries = {entry}
        /\ return.from \in Members(h, b) /\ entry.from \notin Members(h, b)
  BY <1>1 DEF IsAccepted, LoopIsClosed, Members
<1>4. BackEdge(h, b) = return
  <2>1. \A e \in Incoming(h, b) : h.class[e] = "back" <=> e = return
    BY <1>3 DEF Incoming
  <2>. QED
    BY <1>3, <2>1 DEF BackEdge, Incoming
<1>5. EntryEdge(h, b) = entry
  <2>1. \A e \in Incoming(h, b) : h.class[e] # "back" <=> e = entry
    BY <1>3 DEF Incoming
  <2>. QED
    BY <1>3, <2>1 DEF EntryEdge, Incoming
<1>. QED
  BY <1>1, <1>2, <1>3, <1>4, <1>5 DEF Into

(* The edges a row of n takes an arrival of. *)
Opens(h, n, T) == IF IsBatch(h, n) THEN \E e \in Incoming(h, n) : T = {e} ELSE T = Incoming(h, n)

(* A step that takes an arrival of each edge of T, and gives an edge nothing it does not count. *)
Flows(h, m, c, mm, cc, n, T) ==
    /\ mm \in Markings(h) /\ cc \in Counts(h) /\ n \in h.nodes
    /\ \A e \in h.edges : \E put \in {0, 1} :
         /\ mm[Arrived(e)] = m[Arrived(e)] - One(e \in T) + put
         /\ Given(h, m, c, e) + put <= Given(h, mm, cc, e)
    /\ \/ T = {} /\ cc = c
       \/ Opens(h, n, T) /\ cc = [c EXCEPT ![n] = @ + 1]

LEMMA GivenIsInt ==
    ASSUME NEW h, IsAccepted(h), NEW m \in Markings(h), NEW c \in Counts(h), NEW e \in h.edges
    PROVE  Given(h, m, c, e) \in Int /\ m[Arrived(e)] \in Nat /\ c[e.to] \in Nat
<1>1. e.from \in h.nodes /\ e.to \in h.nodes
  BY DEF IsAccepted
<1>2. e.out \in Slots(h, e.from)
  BY DEF Slots, OutOf
<1>3. \A p \in Places(h) : m[p] \in Nat
  BY DEF Markings
<1>4. c[e.from] \in Nat /\ c[e.to] \in Nat /\ m[Arrived(e)] \in Nat /\ m[Running(e.from)] \in Nat
      /\ (IsBatch(h, e.from) => m[Ended(e.from)] \in Nat) /\ (IsSplit(h, e.from) => m[Ok(e.from, e.out)] \in Nat)
  BY <1>1, <1>2, <1>3, PlacesHold DEF Counts
<1>. QED
  BY <1>4 DEF Given

LEMMA FlowsKeepBalance ==
    ASSUME NEW h, IsAccepted(h), NEW m, NEW c, NEW mm, NEW cc, NEW n, NEW T,
           Balanced(h, m, c), Flows(h, m, c, mm, cc, n, T)
    PROVE  EdgeBalanced(h, mm, cc) /\ BatchBalanced(h, mm, cc)
<1>1. m \in Markings(h) /\ c \in Counts(h) /\ mm \in Markings(h) /\ cc \in Counts(h) /\ n \in h.nodes
  BY DEF Balanced, Flows
<1>2. ASSUME NEW e \in h.edges
      PROVE  /\ Given(h, m, c, e) \in Int /\ Given(h, mm, cc, e) \in Int
             /\ m[Arrived(e)] \in Nat /\ mm[Arrived(e)] \in Nat /\ c[e.to] \in Nat /\ cc[e.to] \in Nat
             /\ mm[Arrived(e)] - m[Arrived(e)] + One(e \in T) <= Given(h, mm, cc, e) - Given(h, m, c, e)
  <2>1. /\ Given(h, m, c, e) \in Int /\ m[Arrived(e)] \in Nat /\ c[e.to] \in Nat
        /\ Given(h, mm, cc, e) \in Int /\ mm[Arrived(e)] \in Nat /\ cc[e.to] \in Nat
    BY <1>1, GivenIsInt
  <2>2. PICK put \in {0, 1} : /\ mm[Arrived(e)] = m[Arrived(e)] - One(e \in T) + put
                              /\ Given(h, m, c, e) + put <= Given(h, mm, cc, e)
    BY DEF Flows
  <2>. QED
    BY <2>1, <2>2 DEF One
<1>3. EdgeBalanced(h, mm, cc)
  <2>. SUFFICES ASSUME NEW e \in h.edges, ~IsBatch(h, e.to)
                PROVE  mm[Arrived(e)] + cc[e.to] <= Given(h, mm, cc, e)
    BY DEF EdgeBalanced
  <2>1. m[Arrived(e)] + c[e.to] <= Given(h, m, c, e)
    BY DEF Balanced, EdgeBalanced
  <2>2. cc[e.to] <= c[e.to] + One(e \in T)
    <3>1. e \in Incoming(h, e.to) /\ e.to \in h.nodes
      BY DEF Incoming, Into, IsAccepted
    <3>2. CASE Opens(h, n, T) /\ cc = [c EXCEPT ![n] = @ + 1] /\ n = e.to
      <4>1. e \in T
        BY <3>1, <3>2 DEF Opens
      <4>. QED
        BY <3>1, <3>2, <4>1, <1>1, <1>2 DEF Counts, One
    <3>3. CASE cc[e.to] = c[e.to]
      BY <1>2, <3>3 DEF One
    <3>. QED
      BY <1>1, <3>1, <3>2, <3>3 DEF Flows, Counts
  <2>. QED
    BY <1>2, <2>1, <2>2 DEF One
<1>4. BatchBalanced(h, mm, cc)
  <2>. SUFFICES ASSUME NEW b \in BatchesOf(h)
                PROVE  mm[Arrived(EntryEdge(h, b))] + mm[Arrived(BackEdge(h, b))] + cc[b]
                         <= Given(h, mm, cc, EntryEdge(h, b)) + Given(h, mm, cc, BackEdge(h, b))
    BY DEF BatchBalanced
  <2>1. PICK entry \in h.edges, back \in h.edges :
          /\ entry = EntryEdge(h, b) /\ back = BackEdge(h, b) /\ entry # back /\ entry.to = b /\ back.to = b
          /\ b \in h.nodes /\ IsBatch(h, b)
          /\ \A e \in Incoming(h, b) : e \in {entry, back}
    BY BatchEdges DEF Incoming, Into
  <2>2. m[Arrived(entry)] + m[Arrived(back)] + c[b] <= Given(h, m, c, entry) + Given(h, m, c, back)
    BY <2>1 DEF Balanced, BatchBalanced
  <2>3. cc[b] <= c[b] + One(entry \in T) + One(back \in T)
    <3>1. CASE Opens(h, n, T) /\ cc = [c EXCEPT ![n] = @ + 1] /\ n = b
      <4>1. entry \in T \/ back \in T
        BY <2>1, <3>1 DEF Opens
      <4>2. cc[b] = c[b] + 1 /\ c[b] \in Nat
        BY <1>1, <2>1, <3>1 DEF Counts
      <4>. QED
        BY <4>1, <4>2 DEF One
    <3>2. CASE cc[b] = c[b]
      BY <1>1, <2>1, <3>2 DEF One, Counts
    <3>. QED
      BY <1>1, <2>1, <3>1, <3>2 DEF Flows, Counts
  <2>. HIDE DEF One
  <2>4. One(entry \in T) \in {0, 1} /\ One(back \in T) \in {0, 1} /\ c[b] \in Nat /\ cc[b] \in Nat
    BY <1>1, <2>1 DEF One, Counts
  <2>. QED
    BY <1>2, <2>1, <2>2, <2>3, <2>4
<1>. QED
  BY <1>3, <1>4

LEMMA TypedPlaces ==
    ASSUME NEW h, NEW m \in Markings(h), NEW c \in Counts(h)
    PROVE  /\ \A e \in h.edges : m[Arrived(e)] \in Nat
           /\ \A x \in h.nodes :
                /\ c[x] \in Nat /\ m[Running(x)] \in Nat
                /\ IsBatch(h, x) => m[Ended(x)] \in Nat
                /\ IsSplit(h, x) => \A o \in Slots(h, x) : m[Ok(x, o)] \in Nat
           /\ m[TriggerIn] \in Nat
<1>1. \A p \in Places(h) : m[p] \in Nat
  BY DEF Markings
<1>. QED
  BY <1>1, PlacesHold DEF Counts

LEMMA EdgeEnds ==
    ASSUME NEW h, IsAccepted(h), NEW e \in h.edges
    PROVE  e.from \in h.nodes /\ e.to \in h.nodes /\ e.out \in Slots(h, e.from)
BY DEF IsAccepted, Slots, OutOf

LEMMA PairsOpen ==
    ASSUME NEW h, IsAccepted(h), NEW n \in h.nodes, NEW back \in Pairs(h, n)
    PROVE  Opens(h, n, PairEdges(h, n, back)) /\ PairEdges(h, n, back) \subseteq h.edges
<1>1. CASE IsBatch(h, n)
  <2>1. n \in BatchesOf(h)
    BY <1>1 DEF BatchesOf
  <2>2. EntryEdge(h, n) \in Incoming(h, n) /\ BackEdge(h, n) \in Incoming(h, n)
    BY <2>1, BatchEdges DEF Incoming, Into
  <2>. QED
    BY <1>1, <2>2 DEF Opens, PairEdges, Incoming, Into
<1>2. CASE ~IsBatch(h, n)
  BY <1>2 DEF Opens, PairEdges, Incoming, Into
<1>. QED
  BY <1>1, <1>2

LEMMA Together ==
    ASSUME NEW h, IsAccepted(h), NEW m, NEW c, NEW mm, NEW cc, NEW n, NEW T,
           Balanced(h, m, c), Flows(h, m, c, mm, cc, n, T), RowsCovered(h, mm, cc), TriggerOnce(h, mm, cc)
    PROVE  Balanced(h, mm, cc)
BY FlowsKeepBalance DEF Balanced, Flows

(* The steps, from what they change: what an edge is given in arrivals, its source has given. *)
LEMMA ChangesKeep ==
    ASSUME NEW h, IsAccepted(h), NEW m, NEW c, Balanced(h, m, c), NEW n \in h.nodes,
           NEW mm \in Markings(h), NEW cc \in Counts(h),
           NEW T, NEW C, NEW Q, NEW E, NEW D, NEW A, NEW R, Changes(h, m, mm, T, C, Q, E, D, A, R),
           (T = {} /\ cc = c) \/ (Opens(h, n, T) /\ cc = [c EXCEPT ![n] = @ + 1]),
           n = h.trigger => cc = c,
           \A e \in h.edges : Given(h, m, c, e) + One(e \in E) <= Given(h, mm, cc, e),
           RowsCovered(h, mm, cc)
    PROVE  Balanced(h, mm, cc)
<1>1. m \in Markings(h) /\ c \in Counts(h)
  BY DEF Balanced
<1>2. Flows(h, m, c, mm, cc, n, T)
  <2>1. \A e \in h.edges : \E put \in {0, 1} :
          /\ mm[Arrived(e)] = m[Arrived(e)] - One(e \in T) + put
          /\ Given(h, m, c, e) + put <= Given(h, mm, cc, e)
    <3>1. \A e \in h.edges : One(e \in E) \in {0, 1}
      BY DEF One
    <3>2. \A e \in h.edges : mm[Arrived(e)] = m[Arrived(e)] - One(e \in T) + One(e \in E)
      BY DEF Changes
    <3>. QED
      BY <3>1, <3>2
  <2>. QED
    BY <2>1 DEF Flows
<1>3. TriggerOnce(h, mm, cc)
  <2>1. mm[TriggerIn] = m[TriggerIn] /\ h.trigger \in h.nodes
    BY DEF Changes, IsAccepted
  <2>2. cc[h.trigger] = c[h.trigger]
    BY <1>1, <2>1 DEF Counts
  <2>. QED
    BY <2>1, <2>2 DEF TriggerOnce, Balanced
<1>. QED
  BY <1>2, <1>3, Together

LEMMA OpenedCount ==
    ASSUME NEW h, NEW c \in Counts(h), NEW n \in h.nodes
    PROVE  /\ [c EXCEPT ![n] = @ + 1] \in Counts(h)
           /\ \A x \in h.nodes : [c EXCEPT ![n] = @ + 1][x] = c[x] + One(x = n)
BY DEF Counts, One

(* X_start and the starts of a batch node. *)
LEMMA StartKeeps ==
    ASSUME NEW h, IsAccepted(h), NEW m, NEW c, Balanced(h, m, c),
           NEW n \in h.nodes \ {h.trigger}, NEW back \in Pairs(h, n), IsEnabled(StartOf(h, n, back), m)
    PROVE  Balanced(h, Fire(StartOf(h, n, back), m, {Running(n)}, {}), [c EXCEPT ![n] = @ + 1])
<1>. DEFINE t == StartOf(h, n, back)
            mm == Fire(t, m, {Running(n)}, {})
            cc == [c EXCEPT ![n] = @ + 1]
            T == PairEdges(h, n, back)
<1>1. m \in Markings(h) /\ c \in Counts(h) /\ RowsCovered(h, m, c)
  BY DEF Balanced
<1>2. t.one = {Arrived(e) : e \in T} /\ t.all = {Live(n)}
  BY DEF StartOf, NodeStart
<1>3. Touches(t.one, T, {}, {}, {}) /\ Touches(t.all, {}, {}, {}, {}) /\ Touches({Running(n)}, {}, {n}, {}, {})
  BY <1>2, ArrivalsTouch, RunsTouch
<1>4. mm \in Markings(h)
  BY <1>1, FireTypes DEF IsEnabled
<1>5. Opens(h, n, T)
  BY PairsOpen
<1>. HIDE DEF t, T
<1>6. Changes(h, m, mm, T, {}, {}, {}, {n}, {}, {})
  BY <1>1, <1>3, FireMarks
<1>. HIDE DEF mm
<1>7. cc \in Counts(h) /\ \A x \in h.nodes : cc[x] = c[x] + One(x = n)
  BY <1>1, OpenedCount
<1>8. ASSUME NEW e \in h.edges
      PROVE  Given(h, m, c, e) + One(e \in {}) <= Given(h, mm, cc, e)
  <2>. HIDE DEF cc
  <2>1. Given(h, mm, cc, e) = Given(h, m, c, e)
    BY <1>1, <1>6, <1>7, TypedPlaces, EdgeEnds DEF Given, One, Changes
  <2>. QED
    BY <1>1, <2>1, GivenIsInt DEF One
<1>9. RowsCovered(h, mm, cc)
  <2>. HIDE DEF cc
  <2>. QED
    BY <1>1, <1>6, <1>7, TypedPlaces DEF RowsCovered, One, Changes
<1>10. Balanced(h, mm, cc)
  BY <1>4, <1>5, <1>6, <1>7, <1>8, <1>9, ChangesKeep
<1>. QED
  BY <1>10 DEF t, mm

(* X_skip and the skips of a batch node: what is written is what the node gives at once. *)
LEMMA SkipKeeps ==
    ASSUME NEW h, IsAccepted(h), NEW m, NEW c, Balanced(h, m, c),
           NEW n \in h.nodes \ {h.trigger}, NEW back \in Pairs(h, n), IsEnabled(SkipOf(h, n, back), m)
    PROVE  Balanced(h, Fire(SkipOf(h, n, back), m, SkipPlaces(h, n), {}), [c EXCEPT ![n] = @ + 1])
<1>. DEFINE t == SkipOf(h, n, back)
            mm == Fire(t, m, SkipPlaces(h, n), {})
            cc == [c EXCEPT ![n] = @ + 1]
            T == PairEdges(h, n, back)
            E == IF IsBatch(h, n) THEN SlotEdges(h, n, DoneSlot) ELSE OutOf(n, h.edges)
            A == IF IsBatch(h, n) THEN {n} ELSE {}
<1>1. m \in Markings(h) /\ c \in Counts(h) /\ RowsCovered(h, m, c)
  BY DEF Balanced
<1>2. t.one = {Arrived(e) : e \in T} /\ t.all = {}
  BY DEF SkipOf
<1>3. Touches(t.one, T, {}, {}, {}) /\ Touches(t.all, {}, {}, {}, {}) /\ Touches(SkipPlaces(h, n), E, {}, A, {})
  BY <1>2, ArrivalsTouch, MarkerWrites, SkipWrites
<1>4. mm \in Markings(h)
  BY <1>1, FireTypes DEF IsEnabled
<1>5. Opens(h, n, T)
  BY PairsOpen
<1>. HIDE DEF t, T, E, A
<1>6. Changes(h, m, mm, T, {}, {}, E, {}, A, {})
  BY <1>1, <1>3, FireMarks
<1>. HIDE DEF mm
<1>7. cc \in Counts(h) /\ \A x \in h.nodes : cc[x] = c[x] + One(x = n)
  BY <1>1, OpenedCount
<1>8. ASSUME NEW e \in h.edges
      PROVE  Given(h, m, c, e) + One(e \in E) <= Given(h, mm, cc, e)
  <2>. HIDE DEF cc
  <2>1. e \in E <=> e.from = n /\ (IsBatch(h, n) => e.out = DoneSlot)
    BY DEF E, SlotEdges, OutOf
  <2>2. n \in A <=> IsBatch(h, n)
    BY DEF A
  <2>3. \A x : x \in A => x = n
    BY DEF A
  <2>. QED
    BY <1>1, <1>6, <1>7, <2>1, <2>2, <2>3, TypedPlaces, EdgeEnds DEF Given, One, Changes
<1>9. RowsCovered(h, mm, cc)
  <2>. HIDE DEF cc
  <2>1. \A x : x \in A => x = n
    BY DEF A
  <2>. QED
    BY <1>1, <1>6, <1>7, <2>1, TypedPlaces DEF RowsCovered, One, Changes
<1>10. Balanced(h, mm, cc)
  BY <1>4, <1>5, <1>6, <1>7, <1>8, <1>9, ChangesKeep
<1>. QED
  BY <1>10 DEF t, mm

(* X_run taking its running token: it writes P, with the arrivals E, the ends A and the routes R. *)
LEMMA RunKeeps ==
    ASSUME NEW h, IsAccepted(h), NEW m, NEW c, Balanced(h, m, c), NEW n \in h.nodes, m[Running(n)] > 0,
           NEW P, NEW E, NEW A, NEW R, Touches(P, E, {}, A, R),
           \A x : x \in A => x = n, \A x, o : <<x, o>> \in R => x = n,
           \A e \in E : e.from = n,
           \A e \in h.edges : e.from = n =>
             IF IsBatch(h, n)
               THEN IF e.out = DoneSlot THEN e \in E => n \in A ELSE n \in A => e \notin E
               ELSE IsSplit(h, n) /\ <<n, e.out>> \in R => e \notin E
    PROVE  Balanced(h, Fire(RunOf(h, n), m, P, {}), c)
<1>. DEFINE t == RunOf(h, n)
            mm == Fire(t, m, P, {})
<1>1. m \in Markings(h) /\ c \in Counts(h) /\ RowsCovered(h, m, c)
  BY DEF Balanced
<1>2. t.one = {Running(n)} /\ t.all = {}
  BY DEF RunOf
<1>3. Touches(t.one, {}, {n}, {}, {}) /\ Touches(t.all, {}, {}, {}, {})
  BY <1>2, MarkerWrites, RunsTouch
<1>4. mm \in Markings(h)
  BY <1>1, <1>2, FireTypes
<1>. HIDE DEF t
<1>5. Changes(h, m, mm, {}, {n}, {}, E, {}, A, R)
  BY <1>1, <1>3, FireMarks
<1>. HIDE DEF mm
<1>6. /\ \A x \in h.nodes : mm[Running(x)] = m[Running(x)] - One(x = n)
      /\ \A x \in h.nodes : IsBatch(h, x) => mm[Ended(x)] = m[Ended(x)] + One(x \in A)
      /\ \A x \in h.nodes : IsSplit(h, x) => \A o \in Slots(h, x) : mm[Ok(x, o)] = m[Ok(x, o)] + One(<<x, o>> \in R)
  <2>1. \A x : One(x \in {}) = 0 /\ One(x \in {n}) = One(x = n)
    BY DEF One
  <2>2. \A x : One(x = n) \in Int /\ One(x \in A) \in Int /\ \A o : One(<<x, o>> \in {}) = 0 /\ One(<<x, o>> \in R) \in Int
    BY DEF One
  <2>. HIDE DEF One
  <2>. QED
    BY <1>1, <1>5, <2>1, <2>2, TypedPlaces DEF Changes
<1>. HIDE DEF One
<1>7. ASSUME NEW e \in h.edges
      PROVE  Given(h, m, c, e) + One(e \in E) <= Given(h, mm, c, e)
  <2>. DEFINE x == e.from
  <2>1. /\ x \in h.nodes /\ e.out \in Slots(h, x) /\ c[x] \in Nat /\ m[Running(x)] \in Nat
        /\ IsBatch(h, x) => m[Ended(x)] \in Nat
        /\ IsSplit(h, x) => m[Ok(x, e.out)] \in Nat
    BY <1>1, TypedPlaces, EdgeEnds
  <2>2. /\ mm[Running(x)] = m[Running(x)] - One(x = n)
        /\ IsBatch(h, x) => mm[Ended(x)] = m[Ended(x)] + One(x \in A)
        /\ IsSplit(h, x) => mm[Ok(x, e.out)] = m[Ok(x, e.out)] + One(<<x, e.out>> \in R)
    BY <1>6, <2>1
  <2>3. CASE x # n
    <3>1. One(e \in E) = 0 /\ One(x = n) = 0 /\ One(x \in A) = 0 /\ One(<<x, e.out>> \in R) = 0
      BY <2>3 DEF One
    <3>2. Given(h, mm, c, e) = Given(h, m, c, e)
      BY <2>1, <2>2, <3>1 DEF Given
    <3>. QED
      BY <1>1, <3>1, <3>2, GivenIsInt
  <2>4. CASE x = n
    <3>1. One(x = n) = 1 /\ One(e \in E) \in {0, 1} /\ One(x \in A) \in {0, 1} /\ One(<<x, e.out>> \in R) \in {0, 1}
      BY <2>4 DEF One
    <3>2. IF IsBatch(h, x)
            THEN IF e.out = DoneSlot THEN One(e \in E) <= One(x \in A) ELSE One(e \in E) + One(x \in A) <= 1
            ELSE IsSplit(h, x) => One(e \in E) + One(<<x, e.out>> \in R) <= 1
      BY <2>4 DEF One
    <3>3. IsSplit(h, x) => ~IsBatch(h, x)
      BY DEF IsSplit
    <3>. HIDE DEF x
    <3>4. CASE IsBatch(h, x)
      BY <2>1, <2>2, <3>1, <3>2, <3>4 DEF Given, x
    <3>5. CASE ~IsBatch(h, x)
      BY <2>1, <2>2, <3>1, <3>2, <3>5 DEF Given, x
    <3>. QED
      BY <3>4, <3>5
  <2>. QED
    BY <2>3, <2>4
<1>8. RowsCovered(h, mm, c)
  <2>. SUFFICES ASSUME NEW x \in h.nodes
                PROVE  /\ mm[Running(x)] <= c[x]
                       /\ IsBatch(h, x) => mm[Running(x)] + mm[Ended(x)] <= c[x]
                       /\ IsSplit(h, x) => \A o \in Slots(h, x) : mm[Running(x)] + mm[Ok(x, o)] <= c[x]
    BY DEF RowsCovered
  <2>1. /\ m[Running(x)] <= c[x]
        /\ IsBatch(h, x) => m[Running(x)] + m[Ended(x)] <= c[x]
        /\ IsSplit(h, x) => \A o \in Slots(h, x) : m[Running(x)] + m[Ok(x, o)] <= c[x]
    BY <1>1 DEF RowsCovered
  <2>2. /\ One(x = n) \in {0, 1} /\ One(x \in A) \in {0, 1} /\ One(x \in A) <= One(x = n)
        /\ \A o : One(<<x, o>> \in R) \in {0, 1} /\ One(<<x, o>> \in R) <= One(x = n)
    BY DEF One
  <2>3. /\ c[x] \in Nat /\ m[Running(x)] \in Nat
        /\ IsBatch(h, x) => m[Ended(x)] \in Nat
        /\ IsSplit(h, x) => \A o \in Slots(h, x) : m[Ok(x, o)] \in Nat
    BY <1>1, TypedPlaces
  <2>4. mm[Running(x)] = m[Running(x)] - One(x = n)
    BY <1>6
  <2>5. IsBatch(h, x) => mm[Running(x)] + mm[Ended(x)] <= c[x]
    BY <1>6, <2>1, <2>2, <2>3, <2>4
  <2>6. ASSUME IsSplit(h, x), NEW o \in Slots(h, x)
        PROVE  mm[Running(x)] + mm[Ok(x, o)] <= c[x]
    <3>1. mm[Ok(x, o)] = m[Ok(x, o)] + One(<<x, o>> \in R)
      BY <1>6, <2>6
    <3>. QED
      BY <2>1, <2>2, <2>3, <2>4, <2>6, <3>1
  <2>7. mm[Running(x)] <= c[x]
    BY <2>1, <2>2, <2>3, <2>4
  <2>. QED
    BY <2>5, <2>6, <2>7
<1>9. Balanced(h, mm, c)
  BY <1>1, <1>4, <1>5, <1>7, <1>8, ChangesKeep
<1>. QED
  BY <1>9 DEF t, mm

LEMMA CompleteKeeps ==
    ASSUME NEW h, IsAccepted(h), NEW m, NEW c, Balanced(h, m, c), NEW n \in h.nodes, m[Running(n)] > 0,
           NEW F
    PROVE  Balanced(h, Fire(RunOf(h, n), m, RunPlaces(h, n, F), {}), c)
<1>. DEFINE P == RunPlaces(h, n, F)
<1>1. \A o : SlotEdges(h, n, o) = {e \in h.edges : e.from = n /\ e.out = o}
  BY DEF SlotEdges, OutOf
<1>2. OutOf(n, h.edges) = {e \in h.edges : e.from = n}
  BY DEF OutOf
<1>3. DoneSlot # LoopSlot
  BY DEF DoneSlot, LoopSlot
<1>4. CASE IsBatch(h, n) /\ LoopSlot \in F
  <2>1. Touches(P, SlotEdges(h, n, LoopSlot), {}, {}, {})
    BY <1>4, BatchRunWrites
  <2>. HIDE DEF P
  <2>2. Balanced(h, Fire(RunOf(h, n), m, P, {}), c)
    BY <1>1, <1>3, <1>4, <2>1, RunKeeps
  <2>. QED
    BY <2>2 DEF P
<1>5. CASE IsBatch(h, n) /\ LoopSlot \notin F
  <2>1. Touches(P, SlotEdges(h, n, DoneSlot), {}, {n}, {})
    BY <1>5, BatchRunWrites
  <2>. HIDE DEF P
  <2>2. Balanced(h, Fire(RunOf(h, n), m, P, {}), c)
    BY <1>1, <1>5, <2>1, RunKeeps
  <2>. QED
    BY <2>2 DEF P
<1>6. CASE ~IsBatch(h, n) /\ IsSplit(h, n)
  <2>. DEFINE R == {<<n, o>> : o \in Slots(h, n)}
  <2>1. Touches(P, {}, {}, {}, R)
    BY <1>6, PlainRunWrites
  <2>2. \A x, o : <<x, o>> \in R => x = n
    OBVIOUS
  <2>. HIDE DEF P, R
  <2>3. Balanced(h, Fire(RunOf(h, n), m, P, {}), c)
    BY <1>6, <2>1, <2>2, RunKeeps
  <2>. QED
    BY <2>3 DEF P
<1>7. CASE ~IsBatch(h, n) /\ ~IsSplit(h, n)
  <2>1. Touches(P, OutOf(n, h.edges), {}, {}, {})
    BY <1>7, PlainRunWrites
  <2>. HIDE DEF P
  <2>2. Balanced(h, Fire(RunOf(h, n), m, P, {}), c)
    BY <1>2, <1>7, <2>1, RunKeeps
  <2>. QED
    BY <2>2 DEF P
<1>. QED
  BY <1>4, <1>5, <1>6, <1>7

LEMMA FailKeeps ==
    ASSUME NEW h, IsAccepted(h), NEW m, NEW c, Balanced(h, m, c), NEW n \in h.nodes, m[Running(n)] > 0
    PROVE  Balanced(h, Fire(RunOf(h, n), m, FailPlaces(h, n), {}), c)
<1>. DEFINE A == IF IsBatch(h, n) THEN {n} ELSE {}
            P == FailPlaces(h, n)
<1>1. Touches(P, {}, {}, A, {})
  BY FailWrites
<1>2. \A x : x \in A => x = n
  OBVIOUS
<1>. HIDE DEF A, P
<1>3. Balanced(h, Fire(RunOf(h, n), m, P, {}), c)
  BY <1>1, <1>2, RunKeeps
<1>. QED
  BY <1>3 DEF P

(* X_route_o: a slot's arrivals, for its route. *)
LEMMA RouteKeeps ==
    ASSUME NEW h, IsAccepted(h), NEW m, NEW c, Balanced(h, m, c), NEW n \in h.nodes, IsSplit(h, n),
           NEW o \in Slots(h, n), IsEnabled(RouteOf(h, n, o), m), NEW filled
    PROVE  Balanced(h, Fire(RouteOf(h, n, o), m, SlotPlaces(SlotEdges(h, n, o), filled), {}), c)
<1>. DEFINE t == RouteOf(h, n, o)
            P == SlotPlaces(SlotEdges(h, n, o), filled)
            E == SlotEdges(h, n, o)
            mm == Fire(t, m, P, {})
            Q == {<<n, o>>}
<1>1. m \in Markings(h) /\ c \in Counts(h) /\ RowsCovered(h, m, c) /\ ~IsBatch(h, n)
  BY DEF Balanced, IsSplit
<1>2. t.one = {Ok(n, o)} /\ t.all = {}
  BY DEF RouteOf
<1>3. Touches(t.one, {}, {}, {}, Q) /\ Touches(t.all, {}, {}, {}, {}) /\ Touches(P, E, {}, {}, {})
  BY <1>2, MarkerWrites, RunsTouch, SlotWrites
<1>4. mm \in Markings(h)
  BY <1>1, FireTypes DEF IsEnabled
<1>5. \A x, q : <<x, q>> \in Q <=> x = n /\ q = o
  OBVIOUS
<1>6. \A e \in h.edges : e \in E <=> e.from = n /\ e.out = o
  BY DEF SlotEdges, OutOf
<1>. HIDE DEF t, P, E, Q
<1>7. Changes(h, m, mm, {}, {}, Q, E, {}, {}, {})
  BY <1>1, <1>3, FireMarks
<1>. HIDE DEF mm
<1>8. /\ \A x \in h.nodes : mm[Running(x)] = m[Running(x)]
      /\ \A x \in h.nodes : IsBatch(h, x) => mm[Ended(x)] = m[Ended(x)]
      /\ \A x \in h.nodes : IsSplit(h, x) => \A q \in Slots(h, x) : mm[Ok(x, q)] = m[Ok(x, q)] - One(<<x, q>> \in Q)
  <2>1. \A x : One(x \in {}) = 0 /\ \A q : One(<<x, q>> \in {}) = 0 /\ One(<<x, q>> \in Q) \in Int
    BY DEF One
  <2>. HIDE DEF One
  <2>. QED
    BY <1>1, <1>7, <2>1, TypedPlaces DEF Changes
<1>. HIDE DEF One
<1>9. ASSUME NEW e \in h.edges
      PROVE  Given(h, m, c, e) + One(e \in E) <= Given(h, mm, c, e)
  <2>. DEFINE x == e.from
  <2>1. /\ x \in h.nodes /\ e.out \in Slots(h, x) /\ c[x] \in Nat /\ m[Running(x)] \in Nat
        /\ IsBatch(h, x) => m[Ended(x)] \in Nat
        /\ IsSplit(h, x) => m[Ok(x, e.out)] \in Nat
    BY <1>1, TypedPlaces, EdgeEnds
  <2>2. /\ mm[Running(x)] = m[Running(x)]
        /\ IsBatch(h, x) => mm[Ended(x)] = m[Ended(x)]
        /\ IsSplit(h, x) => mm[Ok(x, e.out)] = m[Ok(x, e.out)] - One(<<x, e.out>> \in Q)
    BY <1>8, <2>1
  <2>3. /\ One(e \in E) \in {0, 1} /\ One(<<x, e.out>> \in Q) = One(e \in E)
        /\ IsBatch(h, x) \/ ~IsSplit(h, x) => One(e \in E) = 0
    BY <1>1, <1>5, <1>6 DEF One
  <2>4. IsSplit(h, x) => ~IsBatch(h, x)
    BY DEF IsSplit
  <2>. QED
    BY <2>1, <2>2, <2>3, <2>4 DEF Given
<1>10. RowsCovered(h, mm, c)
  <2>1. \A x, q : One(<<x, q>> \in Q) \in {0, 1}
    BY DEF One
  <2>. SUFFICES ASSUME NEW x \in h.nodes
                PROVE  /\ mm[Running(x)] <= c[x]
                       /\ IsBatch(h, x) => mm[Running(x)] + mm[Ended(x)] <= c[x]
                       /\ IsSplit(h, x) => \A q \in Slots(h, x) : mm[Running(x)] + mm[Ok(x, q)] <= c[x]
    BY DEF RowsCovered
  <2>2. /\ m[Running(x)] <= c[x]
        /\ IsBatch(h, x) => m[Running(x)] + m[Ended(x)] <= c[x]
        /\ IsSplit(h, x) => \A q \in Slots(h, x) : m[Running(x)] + m[Ok(x, q)] <= c[x]
    BY <1>1 DEF RowsCovered
  <2>3. mm[Running(x)] = m[Running(x)] /\ (IsBatch(h, x) => mm[Ended(x)] = m[Ended(x)])
    BY <1>8
  <2>4. ASSUME IsSplit(h, x), NEW q \in Slots(h, x)
        PROVE  mm[Running(x)] + mm[Ok(x, q)] <= c[x]
    <3>1. mm[Ok(x, q)] = m[Ok(x, q)] - One(<<x, q>> \in Q)
      BY <1>8, <2>4
    <3>2. m[Ok(x, q)] \in Nat /\ m[Running(x)] \in Nat /\ c[x] \in Nat
      BY <1>1, <2>4, TypedPlaces
    <3>. QED
      BY <2>1, <2>2, <2>3, <2>4, <3>1, <3>2
  <2>. QED
    BY <2>2, <2>3, <2>4
<1>11. Balanced(h, mm, c)
  BY <1>1, <1>4, <1>7, <1>9, <1>10, ChangesKeep
<1>. QED
  BY <1>11 DEF t, mm, P

(* X_start of the trigger, which takes the token the host puts in once. *)
LEMMA TriggerKeeps ==
    ASSUME NEW h, IsAccepted(h), NEW m, NEW c, Balanced(h, m, c), IsEnabled(TriggerStart(h), m)
    PROVE  Balanced(h, Fire(TriggerStart(h), m, {Running(h.trigger)}, {}), [c EXCEPT ![h.trigger] = @ + 1])
<1>. DEFINE n == h.trigger
            t == TriggerStart(h)
            mm == Fire(t, m, {Running(n)}, {})
            cc == [c EXCEPT ![n] = @ + 1]
<1>1. m \in Markings(h) /\ c \in Counts(h) /\ RowsCovered(h, m, c) /\ TriggerOnce(h, m, c)
  BY DEF Balanced
<1>2. t.one = {TriggerIn} /\ t.all = {}
  BY DEF TriggerStart
<1>3. n \in h.nodes /\ ~IsBatch(h, n) /\ Incoming(h, n) = {}
  BY DEF IsAccepted, IsBatch, Incoming
<1>4. mm \in Markings(h)
  BY <1>1, FireTypes DEF IsEnabled
<1>5. \A p \in Places(h) : mm[p] = m[p] - One(p \in t.one) + One(p \in {Running(n)})
  BY <1>1, <1>2, FireAt
<1>. HIDE DEF t, mm
<1>6. \A p \in Places(h) : mm[p] = m[p] - One(p = TriggerIn) + One(p = Running(n))
  BY <1>2, <1>5 DEF One
<1>7. \A p \in Places(h) : m[p] \in Nat
  BY <1>1 DEF Markings
<1>8. /\ \A e \in h.edges : mm[Arrived(e)] = m[Arrived(e)]
      /\ \A x \in h.nodes : mm[Running(x)] = m[Running(x)] + One(x = n)
      /\ \A x \in h.nodes : IsBatch(h, x) => mm[Ended(x)] = m[Ended(x)]
      /\ \A x \in h.nodes : IsSplit(h, x) => \A o \in Slots(h, x) : mm[Ok(x, o)] = m[Ok(x, o)]
      /\ mm[TriggerIn] = m[TriggerIn] - 1
  <2>1. \A e \in h.edges : mm[Arrived(e)] = m[Arrived(e)]
    <3>1. \A e : Arrived(e) # TriggerIn /\ Arrived(e) # Running(n)
      BY ArrivedIsItself
    <3>. QED
      BY <1>6, <1>7, <3>1, PlacesHold DEF One
  <2>2. \A x \in h.nodes : mm[Running(x)] = m[Running(x)] + One(x = n)
    BY <1>6, <1>7, PlacesHold, RunningIsItself, NamesDiffer DEF One
  <2>3. \A x \in h.nodes : IsBatch(h, x) => mm[Ended(x)] = m[Ended(x)]
    BY <1>6, <1>7, PlacesHold, EndedIsItself DEF One
  <2>4. \A x \in h.nodes : IsSplit(h, x) => \A o \in Slots(h, x) : mm[Ok(x, o)] = m[Ok(x, o)]
    <3>1. \A x, o : Ok(x, o) # TriggerIn /\ Ok(x, o) # Running(n)
      BY OkIsItself
    <3>. QED
      BY <1>6, <1>7, <3>1, PlacesHold DEF One
  <2>5. mm[TriggerIn] = m[TriggerIn] - 1
    <3>1. TriggerIn # Running(n)
      BY InputIsItself
    <3>. QED
      BY <1>6, <1>7, <3>1, PlacesHold DEF One
  <2>. QED
    BY <2>1, <2>2, <2>3, <2>4, <2>5
<1>9. cc \in Counts(h) /\ \A x \in h.nodes : cc[x] = c[x] + One(x = n)
  BY <1>1, <1>3, OpenedCount
<1>10. \A x : One(x = n) \in {0, 1}
  BY DEF One
<1>11. ASSUME NEW e \in h.edges
       PROVE  Given(h, mm, cc, e) = Given(h, m, c, e)
  <2>. DEFINE x == e.from
  <2>1. /\ x \in h.nodes /\ e.out \in Slots(h, x) /\ c[x] \in Nat /\ m[Running(x)] \in Nat
        /\ IsBatch(h, x) => m[Ended(x)] \in Nat
        /\ IsSplit(h, x) => m[Ok(x, e.out)] \in Nat
    BY <1>1, TypedPlaces, EdgeEnds
  <2>2. PICK k \in {0, 1} : mm[Running(x)] = m[Running(x)] + k /\ cc[x] = c[x] + k
    <3>1. mm[Running(x)] = m[Running(x)] + One(x = n) /\ cc[x] = c[x] + One(x = n)
      BY <1>8, <1>9, <2>1
    <3>2. One(x = n) \in {0, 1}
      BY <1>10
    <3>. HIDE DEF One, cc, x
    <3>. QED
      BY <3>1, <3>2
  <2>3. IsSplit(h, x) => ~IsBatch(h, x)
    BY DEF IsSplit
  <2>6. /\ IsBatch(h, x) => mm[Ended(x)] = m[Ended(x)]
        /\ IsSplit(h, x) => mm[Ok(x, e.out)] = m[Ok(x, e.out)]
    BY <1>8, <2>1
  <2>. HIDE DEF cc
  <2>4. CASE IsBatch(h, x)
    BY <2>1, <2>2, <2>4, <2>6 DEF Given
  <2>5. CASE ~IsBatch(h, x)
    BY <2>1, <2>2, <2>5, <2>6 DEF Given
  <2>. QED
    BY <2>4, <2>5
<1>12. Flows(h, m, c, mm, cc, n, {})
  <2>1. Opens(h, n, {})
    BY <1>3 DEF Opens
  <2>2. ASSUME NEW e \in h.edges
        PROVE  \E put \in {0, 1} : /\ mm[Arrived(e)] = m[Arrived(e)] - One(e \in {}) + put
                                   /\ Given(h, m, c, e) + put <= Given(h, mm, cc, e)
    <3>1. Given(h, m, c, e) \in Int /\ m[Arrived(e)] \in Nat /\ Given(h, mm, cc, e) = Given(h, m, c, e)
      BY <1>1, <1>11, GivenIsInt
    <3>2. mm[Arrived(e)] = m[Arrived(e)] - One(e \in {}) + 0
      BY <1>8, <3>1 DEF One
    <3>3. Given(h, m, c, e) + 0 <= Given(h, mm, cc, e)
      <4>. HIDE DEF cc
      <4>. QED
        BY <3>1
    <3>. QED
      BY <3>2, <3>3
  <2>. QED
    BY <1>3, <1>4, <1>9, <2>1, <2>2 DEF Flows
<1>13. RowsCovered(h, mm, cc)
  <2>. SUFFICES ASSUME NEW x \in h.nodes
                PROVE  /\ mm[Running(x)] <= cc[x]
                       /\ IsBatch(h, x) => mm[Running(x)] + mm[Ended(x)] <= cc[x]
                       /\ IsSplit(h, x) => \A o \in Slots(h, x) : mm[Running(x)] + mm[Ok(x, o)] <= cc[x]
    BY DEF RowsCovered
  <2>1. PICK k \in {0, 1} : mm[Running(x)] = m[Running(x)] + k /\ cc[x] = c[x] + k
    BY <1>8, <1>9, <1>10
  <2>2. /\ m[Running(x)] <= c[x]
        /\ IsBatch(h, x) => m[Running(x)] + m[Ended(x)] <= c[x]
        /\ IsSplit(h, x) => \A o \in Slots(h, x) : m[Running(x)] + m[Ok(x, o)] <= c[x]
    BY <1>1 DEF RowsCovered
  <2>3. /\ c[x] \in Nat /\ m[Running(x)] \in Nat
        /\ IsBatch(h, x) => m[Ended(x)] \in Nat
        /\ IsSplit(h, x) => \A o \in Slots(h, x) : m[Ok(x, o)] \in Nat
    BY <1>1, TypedPlaces
  <2>. HIDE DEF cc
  <2>4. IsSplit(h, x) => \A o \in Slots(h, x) : mm[Running(x)] + mm[Ok(x, o)] <= cc[x]
    BY <1>8, <2>1, <2>2, <2>3
  <2>5. IsBatch(h, x) => mm[Running(x)] + mm[Ended(x)] <= cc[x]
    BY <1>8, <2>1, <2>2, <2>3
  <2>. QED
    BY <2>1, <2>2, <2>3, <2>4, <2>5
<1>14. TriggerOnce(h, mm, cc)
  <2>1. cc[n] = c[n] + 1 /\ c[n] \in Nat /\ m[TriggerIn] \in Nat
    BY <1>1, <1>3, TypedPlaces DEF Counts
  <2>. HIDE DEF cc
  <2>. QED
    BY <1>1, <1>8, <2>1 DEF TriggerOnce
<1>. HIDE DEF cc
<1>15. Balanced(h, mm, cc)
  BY <1>12, <1>13, <1>14, Together
<1>. QED
  BY <1>15 DEF t, mm, cc

LEMMA BalancedAtFirst ==
    ASSUME NEW h, IsAccepted(h)
    PROVE  Balanced(h, InitialMarking(h), NoRows(h))
<1>. DEFINE m == InitialMarking(h)
            c == NoRows(h)
<1>1. m \in Markings(h) /\ c \in Counts(h)
  BY DEF InitialMarking, NoRows, Markings, Counts
<1>2. \A p \in Places(h) : p # TriggerIn => m[p] = 0
  BY DEF InitialMarking
<1>3. m[TriggerIn] = 1 /\ h.trigger \in h.nodes
  BY PlacesHold DEF InitialMarking, IsAccepted
<1>4. \A x \in h.nodes : c[x] = 0
  BY DEF NoRows
<1>. HIDE DEF m, c
<1>5. /\ \A e \in h.edges : m[Arrived(e)] = 0
      /\ \A x \in h.nodes : m[Running(x)] = 0
      /\ \A x \in h.nodes : IsBatch(h, x) => m[Ended(x)] = 0
      /\ \A x \in h.nodes : IsSplit(h, x) => \A o \in Slots(h, x) : m[Ok(x, o)] = 0
  BY <1>2, PlacesHold, InputIsItself
<1>6. \A e \in h.edges : Given(h, m, c, e) = 0
  BY <1>4, <1>5, EdgeEnds DEF Given
<1>7. EdgeBalanced(h, m, c)
  BY <1>4, <1>5, <1>6, EdgeEnds DEF EdgeBalanced
<1>8. BatchBalanced(h, m, c)
  BY <1>4, <1>5, <1>6, BatchEdges DEF BatchBalanced
<1>9. RowsCovered(h, m, c)
  BY <1>4, <1>5 DEF RowsCovered
<1>10. TriggerOnce(h, m, c)
  BY <1>3, <1>4 DEF TriggerOnce
<1>11. Balanced(h, m, c)
  BY <1>1, <1>7, <1>8, <1>9, <1>10 DEF Balanced
<1>. QED
  BY <1>11 DEF m, c

-----------------------------------------------------------------------------
(***************************************************************************)
(* The invariant of the specification.                                     *)
(***************************************************************************)
IInv == w \in DOMAIN Graphs /\ Balanced(g, marking, count)

LEMMA InvariantAtFirst == Init => IInv
BY GraphsAssumption, BalancedAtFirst DEF Init, IInv, g

LEMMA InvariantStays == IInv /\ [Next]_vars => IInv'
<1>. SUFFICES ASSUME IInv, [Next]_vars PROVE IInv'
  OBVIOUS
<1>1. w \in DOMAIN Graphs /\ Balanced(g, marking, count) /\ IsAccepted(g)
  BY GraphsAssumption DEF IInv, g
<1>2. CASE StartStep
  <2>1. PICK n \in g.nodes, back \in BOOLEAN : Start(n, back)
    BY <1>2 DEF StartStep
  <2>2. w' = w /\ count' = [count EXCEPT ![n] = @ + 1] /\ back \in Pairs(g, n)
    BY <2>1 DEF Start, OpenRow
  <2>3. CASE n = g.trigger
    <3>1. IsEnabled(TriggerStart(g), marking) /\ marking' = Fire(TriggerStart(g), marking, {Running(n)}, {})
      BY <2>1, <2>3 DEF Start, StartOf
    <3>2. Balanced(g, marking', count')
      BY <1>1, <2>2, <2>3, <3>1, TriggerKeeps
    <3>. QED
      BY <1>1, <2>2, <3>2 DEF IInv, g
  <2>4. CASE n # g.trigger
    <3>1. IsEnabled(StartOf(g, n, back), marking) /\ marking' = Fire(StartOf(g, n, back), marking, {Running(n)}, {})
      BY <2>1 DEF Start
    <3>2. Balanced(g, marking', count')
      BY <1>1, <2>1, <2>2, <2>4, <3>1, StartKeeps
    <3>. QED
      BY <1>1, <2>2, <3>2 DEF IInv, g
  <2>. QED
    BY <2>3, <2>4
<1>3. CASE SkipStep
  <2>1. PICK n \in g.nodes, back \in BOOLEAN : Skip(n, back)
    BY <1>3 DEF SkipStep
  <2>2. /\ w' = w /\ count' = [count EXCEPT ![n] = @ + 1] /\ back \in Pairs(g, n) /\ n # g.trigger
        /\ IsEnabled(SkipOf(g, n, back), marking)
        /\ marking' = Fire(SkipOf(g, n, back), marking, SkipPlaces(g, n), {})
    BY <2>1 DEF Skip, OpenRow
  <2>3. Balanced(g, marking', count')
    BY <1>1, <2>1, <2>2, SkipKeeps
  <2>. QED
    BY <1>1, <2>2, <2>3 DEF IInv, g
<1>4. CASE CompleteStep
  <2>1. PICK n \in g.nodes : \E filled \in Fillings(g, n) : Complete(n, filled)
    BY <1>4 DEF CompleteStep
  <2>. PICK filled \in Fillings(g, n) : Complete(n, filled)
    BY <2>1
  <2>2. /\ w' = w /\ count' = count /\ marking[Running(n)] > 0
        /\ marking' = Fire(RunOf(g, n), marking, RunPlaces(g, n, filled), {})
    BY DEF Complete, SetRow, IsRunning
  <2>3. Balanced(g, marking', count')
    BY <1>1, <2>1, <2>2, CompleteKeeps
  <2>. QED
    BY <1>1, <2>2, <2>3 DEF IInv, g
<1>5. CASE FailStep
  <2>1. PICK n \in g.nodes : Fail(n)
    BY <1>5 DEF FailStep
  <2>2. /\ w' = w /\ count' = count /\ marking[Running(n)] > 0
        /\ marking' = Fire(RunOf(g, n), marking, FailPlaces(g, n), {})
    BY <2>1 DEF Fail, SetRow, IsRunning
  <2>3. Balanced(g, marking', count')
    BY <1>1, <2>1, <2>2, FailKeeps
  <2>. QED
    BY <1>1, <2>2, <2>3 DEF IInv, g
<1>6. CASE RouteStep
  <2>1. PICK n \in g.nodes : \E o \in Slots(g, n) : \E filled \in BOOLEAN : Route(n, o, filled)
    BY <1>6 DEF RouteStep
  <2>. PICK o \in Slots(g, n) : \E filled \in BOOLEAN : Route(n, o, filled)
    BY <2>1
  <2>. PICK filled \in BOOLEAN : Route(n, o, filled)
    OBVIOUS
  <2>2. /\ w' = w /\ count' = count /\ IsSplit(g, n) /\ IsEnabled(RouteOf(g, n, o), marking)
        /\ marking' = Fire(RouteOf(g, n, o), marking, SlotPlaces(SlotEdges(g, n, o), filled), {})
    BY DEF Route, SetRow
  <2>3. Balanced(g, marking', count')
    BY <1>1, <2>1, <2>2, RouteKeeps
  <2>. QED
    BY <1>1, <2>2, <2>3 DEF IInv, g
<1>7. CASE UNCHANGED vars
  BY <1>1, <1>7 DEF vars, IInv, g
<1>. QED
  BY <1>2, <1>3, <1>4, <1>5, <1>6, <1>7 DEF Next

(* The counts of tokens and rows stay in their types.  The balance of arrivals and rows *)
(* holds throughout, whatever order the firings have.                                   *)
LEMMA AlwaysBalanced == Spec => []IInv
<1>1. Init => IInv
  BY InvariantAtFirst
<1>2. IInv /\ [Next]_vars => IInv'
  BY InvariantStays
<1>. QED
  BY <1>1, <1>2, PTL DEF Spec

(* The marking is one of the net's places, the counts are of the graph's nodes: the graph *)
(* of an execution never changes, and no firing takes a token that is not there.          *)
THEOREM TypeCorrect == Spec => []TypeOK
<1>1. IInv => TypeOK
  BY DEF IInv, Balanced, TypeOK, Markings, Counts
<1>. QED
  BY <1>1, AlwaysBalanced, PTL

-----------------------------------------------------------------------------
(***************************************************************************)
(* What the balance says of loops, and of the nodes outside them.          *)
(***************************************************************************)
(* The passes the batch node b has given its loop. *)
Passes(h, m, c, b) == c[b] - m[Running(b)] - m[Ended(b)]

LEMMA PassesCount ==
    ASSUME NEW h, NEW m, NEW c, Balanced(h, m, c), NEW b \in BatchesOf(h)
    PROVE  /\ Passes(h, m, c, b) \in Nat
           /\ c[b] \in Nat /\ m[Running(b)] \in Nat /\ m[Ended(b)] \in Nat
           /\ c[b] = Passes(h, m, c, b) + m[Running(b)] + m[Ended(b)]
<1>1. b \in h.nodes /\ IsBatch(h, b)
  BY DEF BatchesOf
<1>2. m \in Markings(h) /\ c \in Counts(h) /\ m[Running(b)] + m[Ended(b)] <= c[b]
  BY <1>1 DEF Balanced, RowsCovered
<1>3. c[b] \in Nat /\ m[Running(b)] \in Nat /\ m[Ended(b)] \in Nat
  BY <1>1, <1>2, TypedPlaces
<1>. QED
  BY <1>2, <1>3 DEF Passes

(* What an edge was given, by where it comes from. *)
LEMMA GivenBy ==
    ASSUME NEW h, IsAccepted(h), NEW m, NEW c, Balanced(h, m, c), NEW e \in h.edges
    PROVE  /\ Given(h, m, c, e) \in Int
           /\ e.from \in h.nodes /\ e.to \in h.nodes
           /\ IsBatch(h, e.from) =>
                /\ h.loop[e.to] # e.from => Given(h, m, c, e) = m[Ended(e.from)]
                /\ h.loop[e.to] = e.from => Given(h, m, c, e) = Passes(h, m, c, e.from)
           /\ ~IsBatch(h, e.from) =>
                /\ c[e.from] \in Nat /\ m[Running(e.from)] \in Nat
                /\ Given(h, m, c, e) <= c[e.from] - m[Running(e.from)]
<1>1. m \in Markings(h) /\ c \in Counts(h)
  BY DEF Balanced
<1>2. e.from \in h.nodes /\ e.to \in h.nodes /\ e.out \in Slots(h, e.from)
  BY EdgeEnds
<1>3. Given(h, m, c, e) \in Int
  BY <1>1, GivenIsInt
<1>4. DoneSlot # LoopSlot
  BY DEF DoneSlot, LoopSlot
<1>5. CASE IsBatch(h, e.from)
  <2>1. IF h.loop[e.to] = e.from THEN e.out = LoopSlot ELSE e.out = DoneSlot
    BY <1>5 DEF IsAccepted, IsBatch
  <2>. QED
    BY <1>2, <1>3, <1>4, <1>5, <2>1 DEF Given, Passes
<1>6. CASE ~IsBatch(h, e.from)
  <2>1. /\ c[e.from] \in Nat /\ m[Running(e.from)] \in Nat
        /\ IsSplit(h, e.from) => m[Ok(e.from, e.out)] \in Nat
    BY <1>1, <1>2, TypedPlaces
  <2>2. Given(h, m, c, e) <= c[e.from] - m[Running(e.from)]
    BY <1>6, <2>1 DEF Given
  <2>. QED
    BY <1>2, <1>3, <1>6, <2>1, <2>2
<1>. QED
  BY <1>5, <1>6

(* A member of a loop other than its batch node is fed from inside the loop. *)
LEMMA FedInside ==
    ASSUME NEW h, IsAccepted(h), NEW b \in BatchesOf(h), NEW e \in h.edges, e.to \in Members(h, b) \ {b}
    PROVE  e.from \in Members(h, b) /\ ~IsBatch(h, e.to) /\ h.loop[e.to] = b
<1>1. h.loop[e.to] = b /\ e.to # b /\ b # NoLoop
  BY DEF Members, BatchesOf, IsAccepted
<1>. QED
  BY <1>1 DEF IsAccepted, Members, IsBatch

(* ... and feeds the loop only. *)
LEMMA FeedsInside ==
    ASSUME NEW h, IsAccepted(h), NEW b \in BatchesOf(h), NEW e \in h.edges, e.from \in Members(h, b) \ {b}
    PROVE  e.to \in Members(h, b) /\ ~IsBatch(h, e.from)
<1>1. h.loop[e.from] = b /\ e.from # b /\ b # NoLoop
  BY DEF Members, BatchesOf, IsAccepted
<1>. QED
  BY <1>1 DEF IsAccepted, Members, IsBatch

LEMMA LoopEdges ==
    ASSUME NEW h, IsAccepted(h), NEW b \in BatchesOf(h), NEW S, S \subseteq Members(h, b) \ {b}, S # {}
    PROVE  /\ \E e \in h.edges : e.from \notin S /\ e.to \in S
           /\ \E e \in h.edges : e.from \in S /\ e.to \notin S
BY DEF IsAccepted, LoopIsClosed, Members, BatchesOf, IsBatch

(* No node of a loop has more rows than its batch node has given passes. *)
LEMMA LoopInStep ==
    ASSUME NEW h, IsAccepted(h), NEW m, NEW c, Balanced(h, m, c), NEW b \in BatchesOf(h)
    PROVE  \A n \in Members(h, b) \ {b} : c[n] \in Nat /\ c[n] <= Passes(h, m, c, b)
<1>. DEFINE L == Passes(h, m, c, b)
            S == {n \in Members(h, b) \ {b} : c[n] > L}
<1>1. \A n \in Members(h, b) : c[n] \in Nat
  BY DEF Balanced, Counts, Members
<1>2. L \in Nat
  BY PassesCount
<1>3. ASSUME S # {} PROVE FALSE
  <2>1. PICK e \in h.edges : e.from \notin S /\ e.to \in S
    BY <1>3, LoopEdges
  <2>2. e.from \in Members(h, b) /\ ~IsBatch(h, e.to) /\ h.loop[e.to] = b /\ c[e.to] > L /\ e.to \in h.nodes
    BY <2>1, FedInside DEF Members
  <2>3. m[Arrived(e)] + c[e.to] <= Given(h, m, c, e) /\ m[Arrived(e)] \in Nat /\ c[e.to] \in Nat
    BY <2>2, TypedPlaces DEF Balanced, EdgeBalanced
  <2>4. Given(h, m, c, e) \in Int /\ Given(h, m, c, e) <= L
    <3>1. CASE e.from = b
      <4>1. IsBatch(h, e.from)
        BY <3>1 DEF BatchesOf
      <4>. QED
        BY <1>2, <2>2, <3>1, <4>1, GivenBy
    <3>2. CASE e.from # b
      <4>1. c[e.from] \in Nat /\ c[e.from] <= L /\ ~IsBatch(h, e.from)
        <5>1. ~IsBatch(h, e.from)
          BY <2>2, <3>2 DEF IsBatch, Members
        <5>2. c[e.from] \in Nat /\ ~(c[e.from] > L)
          BY <1>1, <2>1, <2>2, <3>2
        <5>. HIDE DEF L
        <5>. QED
          BY <1>2, <5>1, <5>2
      <4>. HIDE DEF L
      <4>2. /\ Given(h, m, c, e) \in Int /\ m[Running(e.from)] \in Nat
            /\ Given(h, m, c, e) <= c[e.from] - m[Running(e.from)]
        BY <4>1, GivenBy
      <4>. QED
        BY <1>2, <4>1, <4>2
    <3>. QED
      BY <3>1, <3>2
  <2>. HIDE DEF L
  <2>. QED
    BY <1>2, <2>2, <2>3, <2>4
<1>4. \A n \in Members(h, b) \ {b} : ~(c[n] > L)
  BY <1>3
<1>. HIDE DEF L
<1>5. \A n \in Members(h, b) \ {b} : c[n] \in Nat /\ c[n] <= L
  BY <1>1, <1>2, <1>4
<1>. QED
  BY <1>5 DEF L

(* So an edge into the loop from inside it was given no more either. *)
LEMMA InsideGiven ==
    ASSUME NEW h, IsAccepted(h), NEW m, NEW c, Balanced(h, m, c), NEW b \in BatchesOf(h),
           NEW e \in h.edges, e.from \in Members(h, b), h.loop[e.to] = b
    PROVE  Given(h, m, c, e) \in Int /\ Given(h, m, c, e) <= Passes(h, m, c, b)
<1>. DEFINE L == Passes(h, m, c, b)
<1>1. L \in Nat
  BY PassesCount
<1>2. CASE e.from = b
  <2>1. IsBatch(h, e.from)
    BY <1>2 DEF BatchesOf
  <2>. QED
    BY <1>1, <1>2, <2>1, GivenBy
<1>3. CASE e.from # b
  <2>1. ~IsBatch(h, e.from)
    BY <1>3 DEF IsBatch, Members
  <2>2. c[e.from] \in Nat /\ c[e.from] <= L
    BY <1>3, LoopInStep
  <2>. HIDE DEF L
  <2>3. /\ Given(h, m, c, e) \in Int /\ m[Running(e.from)] \in Nat
        /\ Given(h, m, c, e) <= c[e.from] - m[Running(e.from)]
    BY <2>1, GivenBy
  <2>4. Given(h, m, c, e) <= L
    BY <1>1, <2>2, <2>3
  <2>. QED
    BY <2>3, <2>4 DEF L
<1>. QED
  BY <1>2, <1>3

(* What a batch node has been given by its entry is on the edge, running, or an end. *)
LEMMA LoopSettles ==
    ASSUME NEW h, IsAccepted(h), NEW m, NEW c, Balanced(h, m, c), NEW b \in BatchesOf(h)
    PROVE  /\ m[Arrived(EntryEdge(h, b))] \in Nat /\ m[Arrived(BackEdge(h, b))] \in Nat
           /\ Given(h, m, c, EntryEdge(h, b)) \in Int /\ Given(h, m, c, BackEdge(h, b)) \in Int
           /\ m[Running(b)] + m[Ended(b)] + m[Arrived(EntryEdge(h, b))] + m[Arrived(BackEdge(h, b))]
                <= Given(h, m, c, EntryEdge(h, b))
           /\ Passes(h, m, c, b) + m[Running(b)] + m[Ended(b)]
                + m[Arrived(EntryEdge(h, b))] + m[Arrived(BackEdge(h, b))]
                <= Given(h, m, c, EntryEdge(h, b)) + Given(h, m, c, BackEdge(h, b))
<1>1. PICK entry, back : /\ entry = EntryEdge(h, b) /\ back = BackEdge(h, b)
                         /\ entry \in h.edges /\ back \in h.edges /\ back.to = b
                         /\ back.from \in Members(h, b) /\ IsBatch(h, b)
  BY BatchEdges
<1>2. PICK L : L = Passes(h, m, c, b)
  OBVIOUS
<1>3. L \in Nat /\ c[b] = L + m[Running(b)] + m[Ended(b)] /\ m[Running(b)] \in Nat /\ m[Ended(b)] \in Nat
  BY <1>2, PassesCount
<1>4. m[Arrived(entry)] \in Nat /\ m[Arrived(back)] \in Nat /\ Given(h, m, c, entry) \in Int
  BY <1>1, TypedPlaces, GivenIsInt DEF Balanced
<1>5. h.loop[back.to] = b
  BY <1>1 DEF IsBatch
<1>6. Given(h, m, c, back) \in Int /\ Given(h, m, c, back) <= L
  BY <1>1, <1>2, <1>5, InsideGiven
<1>7. m[Arrived(entry)] + m[Arrived(back)] + c[b] <= Given(h, m, c, entry) + Given(h, m, c, back)
  BY <1>1 DEF Balanced, BatchBalanced
<1>8. /\ m[Running(b)] + m[Ended(b)] + m[Arrived(entry)] + m[Arrived(back)] <= Given(h, m, c, entry)
      /\ L + m[Running(b)] + m[Ended(b)] + m[Arrived(entry)] + m[Arrived(back)]
           <= Given(h, m, c, entry) + Given(h, m, c, back)
  BY <1>3, <1>4, <1>6, <1>7
<1>. QED
  BY <1>1, <1>2, <1>4, <1>6, <1>8

(* The nodes that settle once: those outside every loop, and each batch node for its whole loop. *)
Settlements(h, m, c, n) == IF IsBatch(h, n) THEN m[Ended(n)] ELSE c[n]
Outside(h) == {n \in h.nodes : IsBatch(h, n) \/ ~InLoop(h, n)}
OnceOutside(h, m, c) == \A n \in Outside(h) : Settlements(h, m, c, n) <= 1

(* What reaches a node that settles once, other than by a back edge, comes from such a node. *)
LEMMA FromOutside ==
    ASSUME NEW h, IsAccepted(h), NEW m, NEW c, Balanced(h, m, c), NEW e \in h.edges,
           ~InLoop(h, e.to) \/ (IsBatch(h, e.to) /\ e.from \notin Members(h, e.to))
    PROVE  /\ e.from \in Outside(h)
           /\ Given(h, m, c, e) \in Int /\ Settlements(h, m, c, e.from) \in Nat
           /\ Given(h, m, c, e) <= Settlements(h, m, c, e.from)
<1>1. e.from \in h.nodes /\ e.to \in h.nodes /\ NoLoop \notin h.nodes
  BY EdgeEnds DEF IsAccepted
<1>2. CASE IsBatch(h, e.from)
  <2>1. h.loop[e.to] # e.from
    BY <1>1, <1>2 DEF InLoop, IsBatch, Members
  <2>2. Given(h, m, c, e) = m[Ended(e.from)] /\ m[Ended(e.from)] \in Nat
    <3>1. e.from \in BatchesOf(h)
      BY <1>1, <1>2 DEF BatchesOf
    <3>. QED
      BY <1>2, <2>1, <3>1, GivenBy, PassesCount
  <2>. QED
    BY <1>1, <1>2, <2>2 DEF Outside, Settlements
<1>3. CASE ~IsBatch(h, e.from)
  <2>1. ~InLoop(h, e.from)
    <3>1. ASSUME InLoop(h, e.from) PROVE FALSE
      <4>1. h.loop[e.from] \notin {NoLoop, e.from}
        BY <1>3, <3>1 DEF InLoop, IsBatch
      <4>2. h.loop[e.to] = h.loop[e.from]
        BY <4>1 DEF IsAccepted
      <4>. QED
        BY <1>1, <4>1, <4>2 DEF InLoop, IsBatch, Members
    <3>. QED
      BY <3>1
  <2>2. /\ Given(h, m, c, e) \in Int /\ c[e.from] \in Nat /\ m[Running(e.from)] \in Nat
        /\ Given(h, m, c, e) <= c[e.from] - m[Running(e.from)]
    BY <1>3, GivenBy
  <2>3. Given(h, m, c, e) <= c[e.from]
    BY <2>2
  <2>. QED
    BY <1>1, <1>3, <2>1, <2>2, <2>3 DEF Outside, Settlements
<1>. QED
  BY <1>2, <1>3

LEMMA OutsideIsOnce ==
    ASSUME NEW h, IsAccepted(h), NEW m, NEW c, Balanced(h, m, c)
    PROVE  OnceOutside(h, m, c)
<1>. DEFINE Bad == {n \in Outside(h) : Settlements(h, m, c, n) > 1}
<1>1. \A n \in Outside(h) : Settlements(h, m, c, n) \in Nat
  BY TypedPlaces DEF Outside, Settlements, Balanced
<1>2. ASSUME Bad # {} PROVE FALSE
  <2>1. Bad \in SUBSET h.nodes
    BY DEF Outside
  <2>2. PICK n \in Bad : \A e \in Into(n, h.edges) : e.from \in Bad => h.class[e] = "back"
    BY <1>2, <2>1 DEF IsAccepted
  <2>3. n \in Outside(h) /\ n \in h.nodes /\ Settlements(h, m, c, n) > 1
    BY <2>1, <2>2
  <2>4. ASSUME NEW e \in h.edges, e.to = n, h.class[e] # "back",
               ~InLoop(h, n) \/ (IsBatch(h, n) /\ e.from \notin Members(h, n)),
               Settlements(h, m, c, n) <= Given(h, m, c, e)
        PROVE  FALSE
    <3>1. /\ e.from \in Outside(h)
          /\ Given(h, m, c, e) \in Int /\ Settlements(h, m, c, e.from) \in Nat
          /\ Given(h, m, c, e) <= Settlements(h, m, c, e.from)
      BY <2>4, FromOutside
    <3>2. Settlements(h, m, c, n) \in Nat
      BY <1>1, <2>3
    <3>3. Settlements(h, m, c, e.from) > 1
      BY <2>3, <2>4, <3>1, <3>2
    <3>. QED
      BY <2>2, <2>4, <3>1, <3>3 DEF Into
  <2>5. CASE IsBatch(h, n)
    <3>1. n \in BatchesOf(h)
      BY <2>3, <2>5 DEF BatchesOf
    <3>2. PICK e \in h.edges : e = EntryEdge(h, n) /\ e.to = n /\ h.class[e] # "back" /\ e.from \notin Members(h, n)
      BY <3>1, BatchEdges
    <3>3. /\ m[Running(n)] \in Nat /\ m[Ended(n)] \in Nat
          /\ m[Arrived(e)] \in Nat /\ m[Arrived(BackEdge(h, n))] \in Nat /\ Given(h, m, c, e) \in Int
          /\ m[Running(n)] + m[Ended(n)] + m[Arrived(e)] + m[Arrived(BackEdge(h, n))] <= Given(h, m, c, e)
      BY <3>1, <3>2, LoopSettles, PassesCount
    <3>4. m[Ended(n)] <= Given(h, m, c, e)
      BY <3>3
    <3>. QED
      BY <2>4, <2>5, <3>2, <3>4 DEF Settlements
  <2>6. CASE ~IsBatch(h, n) /\ n # h.trigger
    <3>1. ~InLoop(h, n)
      BY <2>3, <2>6 DEF Outside
    <3>2. PICK e \in h.edges : e.to = n
      BY <2>3, <2>6 DEF IsAccepted, Into
    <3>3. h.class[e] # "back"
      BY <2>3, <3>1, <3>2 DEF IsAccepted, InLoop
    <3>4. m[Arrived(e)] + c[n] <= Given(h, m, c, e) /\ m[Arrived(e)] \in Nat /\ c[n] \in Nat
      BY <2>3, <2>6, <3>2, TypedPlaces DEF Balanced, EdgeBalanced
    <3>5. Given(h, m, c, e) \in Int
      BY GivenIsInt DEF Balanced
    <3>6. c[n] <= Given(h, m, c, e)
      BY <3>4, <3>5
    <3>. QED
      BY <2>4, <2>6, <3>1, <3>2, <3>3, <3>6 DEF Settlements
  <2>7. CASE ~IsBatch(h, n) /\ n = h.trigger
    <3>1. m[TriggerIn] + c[n] = 1 /\ m[TriggerIn] \in Nat /\ c[n] \in Nat
      BY <2>3, <2>7, TypedPlaces DEF Balanced, TriggerOnce
    <3>. QED
      BY <2>3, <2>7, <3>1 DEF Settlements
  <2>. QED
    BY <2>5, <2>6, <2>7
<1>3. \A n \in Outside(h) : ~(Settlements(h, m, c, n) > 1)
  BY <1>2
<1>4. ASSUME NEW n \in Outside(h) PROVE Settlements(h, m, c, n) <= 1
  <2>1. Settlements(h, m, c, n) \in Nat /\ ~(Settlements(h, m, c, n) > 1)
    BY <1>1, <1>3
  <2>. QED
    BY <2>1
<1>. QED
  BY <1>4 DEF OnceOutside

(* Of a loop that has ended, every other member has all its rows, and none is running. *)
LEMMA EndedIsOver ==
    ASSUME NEW h, IsAccepted(h), NEW m, NEW c, Balanced(h, m, c), NEW b \in BatchesOf(h), m[Ended(b)] > 0
    PROVE  /\ m[Ended(b)] = 1 /\ m[Running(b)] = 0
           /\ m[Arrived(EntryEdge(h, b))] = 0 /\ m[Arrived(BackEdge(h, b))] = 0
           /\ \A n \in Members(h, b) \ {b} : c[n] = Passes(h, m, c, b) /\ m[Running(n)] = 0
<1>1. PICK entry, back : /\ entry = EntryEdge(h, b) /\ back = BackEdge(h, b)
                         /\ entry \in h.edges /\ entry.to = b /\ entry.from \notin Members(h, b)
                         /\ \A e \in h.edges : e.to = b => e \in {entry, back}
                         /\ IsBatch(h, b)
  BY BatchEdges
<1>2. PICK L : L = Passes(h, m, c, b)
  OBVIOUS
<1>3. L \in Nat /\ m[Running(b)] \in Nat /\ m[Ended(b)] \in Nat
  BY <1>2, PassesCount
<1>4. Given(h, m, c, entry) \in Int /\ Given(h, m, c, entry) <= 1
  <2>1. /\ entry.from \in Outside(h)
        /\ Given(h, m, c, entry) \in Int /\ Settlements(h, m, c, entry.from) \in Nat
        /\ Given(h, m, c, entry) <= Settlements(h, m, c, entry.from)
    BY <1>1, FromOutside
  <2>2. Settlements(h, m, c, entry.from) <= 1
    BY <2>1, OutsideIsOnce DEF OnceOutside
  <2>. QED
    BY <2>1, <2>2
<1>5. /\ m[Arrived(entry)] \in Nat /\ m[Arrived(back)] \in Nat /\ Given(h, m, c, back) \in Int
      /\ m[Running(b)] + m[Ended(b)] + m[Arrived(entry)] + m[Arrived(back)] <= Given(h, m, c, entry)
      /\ L + m[Running(b)] + m[Ended(b)] + m[Arrived(entry)] + m[Arrived(back)]
           <= Given(h, m, c, entry) + Given(h, m, c, back)
  BY <1>1, <1>2, LoopSettles
<1>6. /\ m[Ended(b)] = 1 /\ m[Running(b)] = 0 /\ m[Arrived(entry)] = 0 /\ m[Arrived(back)] = 0
      /\ L <= Given(h, m, c, back)
  BY <1>3, <1>4, <1>5
<1>7. \A n \in Members(h, b) \ {b} : c[n] \in Nat /\ c[n] <= L /\ m[Running(n)] \in Nat
  BY <1>2, LoopInStep, TypedPlaces DEF Balanced, Members
<1>. DEFINE T == {n \in Members(h, b) \ {b} : c[n] - m[Running(n)] < L}
<1>8. ASSUME T # {} PROVE FALSE
  <2>1. PICK e \in h.edges : e.from \in T /\ e.to \notin T
    BY <1>8, LoopEdges
  <2>2. /\ e.from \in Members(h, b) \ {b} /\ e.to \in Members(h, b) /\ ~IsBatch(h, e.from)
        /\ c[e.from] - m[Running(e.from)] < L
    BY <2>1, FeedsInside
  <2>3. Given(h, m, c, e) \in Int /\ Given(h, m, c, e) < L
    <3>1. /\ Given(h, m, c, e) \in Int /\ c[e.from] \in Nat /\ m[Running(e.from)] \in Nat
          /\ Given(h, m, c, e) <= c[e.from] - m[Running(e.from)]
      BY <2>2, GivenBy
    <3>. QED
      BY <1>3, <2>2, <3>1
  <2>4. CASE e.to = b
    <3>1. e = back
      BY <1>1, <2>2, <2>4
    <3>. QED
      BY <1>3, <1>6, <2>3, <3>1
  <2>5. CASE e.to # b
    <3>1. ~IsBatch(h, e.to) /\ e.to \in h.nodes
      BY <2>2, <2>5 DEF IsBatch, Members
    <3>2. m[Arrived(e)] + c[e.to] <= Given(h, m, c, e) /\ m[Arrived(e)] \in Nat
      BY <3>1, TypedPlaces DEF Balanced, EdgeBalanced
    <3>3. c[e.to] \in Nat /\ m[Running(e.to)] \in Nat /\ ~(c[e.to] - m[Running(e.to)] < L)
      BY <1>7, <2>1, <2>2, <2>5
    <3>. QED
      BY <1>3, <2>3, <3>2, <3>3
  <2>. QED
    BY <2>4, <2>5
<1>9. ASSUME NEW n \in Members(h, b) \ {b} PROVE c[n] = L /\ m[Running(n)] = 0
  <2>1. ~(c[n] - m[Running(n)] < L)
    BY <1>8
  <2>2. c[n] \in Nat /\ c[n] <= L /\ m[Running(n)] \in Nat
    BY <1>7
  <2>. QED
    BY <1>3, <2>1, <2>2
<1>. QED
  BY <1>1, <1>2, <1>6, <1>9

(* Once a loop has ended, nothing of it is in flight and nothing of it can start again, in any *)
(* graph the validator accepts and whatever the steps answer: the row that ended the loop is  *)
(* its last.                                                                                   *)
THEOREM EndedLoopsHold == Spec => []EndedLoopsStay
<1>1. ASSUME IInv PROVE EndedLoopsStay
  <2>. SUFFICES ASSUME NEW b \in BatchesOf(g), marking[Ended(b)] > 0
                PROVE  /\ marking[Ended(b)] = 1
                       /\ \A n \in Members(g, b) : ~IsRunning(n)
                       /\ \A e \in g.edges :
                            g.class[e] \in {"intra", "back"} /\ g.loop[e.to] = b => marking[Arrived(e)] = 0
    BY DEF EndedLoopsStay
  <2>1. IsAccepted(g) /\ Balanced(g, marking, count)
    BY <1>1, GraphsAssumption DEF IInv, g
  <2>2. /\ marking[Ended(b)] = 1 /\ marking[Running(b)] = 0
        /\ marking[Arrived(EntryEdge(g, b))] = 0 /\ marking[Arrived(BackEdge(g, b))] = 0
        /\ \A n \in Members(g, b) \ {b} : count[n] = Passes(g, marking, count, b) /\ marking[Running(n)] = 0
    BY <2>1, EndedIsOver
  <2>3. \A n \in Members(g, b) : ~IsRunning(n)
    BY <2>2 DEF IsRunning
  <2>4. ASSUME NEW e \in g.edges, g.loop[e.to] = b
        PROVE  marking[Arrived(e)] = 0
    <3>1. CASE e.to = b
      BY <2>1, <2>2, <3>1, BatchEdges
    <3>2. CASE e.to # b
      <4>1. e.to \in Members(g, b) \ {b} /\ e.to \in g.nodes
        BY <2>1, <2>4, <3>2, EdgeEnds DEF Members
      <4>2. e.from \in Members(g, b) /\ ~IsBatch(g, e.to)
        BY <2>1, <4>1, FedInside
      <4>3. Given(g, marking, count, e) \in Int /\ Given(g, marking, count, e) <= Passes(g, marking, count, b)
        BY <2>1, <2>4, <4>2, InsideGiven
      <4>4. marking[Arrived(e)] + count[e.to] <= Given(g, marking, count, e)
        BY <2>1, <4>2 DEF Balanced, EdgeBalanced
      <4>5. marking[Arrived(e)] \in Nat /\ count[e.to] \in Nat /\ Passes(g, marking, count, b) \in Nat
        BY <2>1, <4>1, TypedPlaces, PassesCount DEF Balanced
      <4>6. count[e.to] = Passes(g, marking, count, b)
        BY <2>2, <4>1
      <4>. QED
        BY <4>3, <4>4, <4>5, <4>6
    <3>. QED
      BY <3>1, <3>2
  <2>. QED
    BY <2>2, <2>3, <2>4
<1>. QED
  BY <1>1, AlwaysBalanced, PTL

(* A node outside every loop opens one row at most, a loop ends once at most, and no node of a *)
(* loop has more rows than its batch node: no firing order starts a step a second time.        *)
OpenedInStep ==
    /\ \A n \in g.nodes : ~InLoop(g, n) => count[n] <= 1
    /\ \A b \in BatchesOf(g) :
         /\ marking[Ended(b)] <= 1
         /\ \A n \in Members(g, b) : count[n] <= count[b]

THEOREM NothingRunsTwice == Spec => []OpenedInStep
<1>1. ASSUME IInv PROVE OpenedInStep
  <2>1. IsAccepted(g) /\ Balanced(g, marking, count)
    BY <1>1, GraphsAssumption DEF IInv, g
  <2>2. OnceOutside(g, marking, count)
    BY <2>1, OutsideIsOnce
  <2>3. ASSUME NEW n \in g.nodes, ~InLoop(g, n) PROVE count[n] <= 1
    <3>1. n \in Outside(g) /\ ~IsBatch(g, n)
      BY <2>1, <2>3 DEF Outside, InLoop, IsBatch, IsAccepted
    <3>. QED
      BY <2>2, <3>1 DEF OnceOutside, Settlements
  <2>4. ASSUME NEW b \in BatchesOf(g) PROVE marking[Ended(b)] <= 1
    BY <2>2, <2>4 DEF OnceOutside, Settlements, Outside, BatchesOf
  <2>5. ASSUME NEW b \in BatchesOf(g), NEW n \in Members(g, b) PROVE count[n] <= count[b]
    <3>1. /\ Passes(g, marking, count, b) \in Nat
          /\ count[b] \in Nat /\ marking[Running(b)] \in Nat /\ marking[Ended(b)] \in Nat
          /\ count[b] = Passes(g, marking, count, b) + marking[Running(b)] + marking[Ended(b)]
      BY <2>1, PassesCount
    <3>2. n # b => count[n] \in Nat /\ count[n] <= Passes(g, marking, count, b)
      BY <2>1, LoopInStep
    <3>. QED
      BY <3>1, <3>2
  <2>. QED
    BY <2>3, <2>4, <2>5 DEF OpenedInStep
<1>. QED
  BY <1>1, AlwaysBalanced, PTL

=============================================================================
