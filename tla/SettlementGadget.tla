--------------------------- MODULE SettlementGadget ---------------------------
(***************************************************************************)
(* The engineV2 net of an analysed graph g (V2Graph!Analysed): the places  *)
(* and transitions compiler/gadget/settlement/ builds for every node, and  *)
(* the token game codec/v2/net.ts plays on them.  A place is a tuple led   *)
(* by its kind; a marking is a function from the net's places to counts; a *)
(* transition is a record: one unit is taken from each place of `one`, all *)
(* tokens from each place of `all` (at least one), and it is held back by  *)
(* a token on a place of `not`.  `outs` is the set of branches of its Out  *)
(* spec, each the set of places it writes.                                 *)
(***************************************************************************)
EXTENDS V2Graph

Arrived(e) == <<"arrived", e>>
Live(n) == <<"live", n>>
Running(n) == <<"running", n>>
Done(n) == <<"done", n>>
Skipped(n) == <<"skipped", n>>
Ended(b) == <<"ended", b>>
Ok(n, o) == <<"ok", n, o>>
Halt == <<"halt">>
TriggerIn == <<"in">>

IsBatch(g, n) == g.loop[n] = n
InLoop(g, n) == g.loop[n] # NoLoop
Incoming(g, n) == Into(n, g.edges)
Slots(g, n) == {e.out : e \in OutOf(n, g.edges)}
SlotEdges(g, n, o) == {e \in OutOf(n, g.edges) : e.out = o}
EntryEdge(g, b) == CHOOSE e \in Incoming(g, b) : g.class[e] # "back"
BackEdge(g, b) == CHOOSE e \in Incoming(g, b) : g.class[e] = "back"

(* fillingsCollide: two sets of filled slots that make the same consumers live. *)
SplitRoutingAbove == 3
FillingsCollide(g, n) ==
    LET consumers(filled) == UNION {Targets(SlotEdges(g, n, o)) : o \in filled}
    IN \E F, H \in SUBSET Slots(g, n) : F # H /\ consumers(F) = consumers(H)

IsSplit(g, n) ==
    ~IsBatch(g, n) /\ (Cardinality(Slots(g, n)) > SplitRoutingAbove \/ FillingsCollide(g, n))

HostPlaces(g) ==
    {Arrived(e) : e \in g.edges} \cup {Live(n) : n \in g.nodes \ {g.trigger}} \cup {Halt, TriggerIn}

OwnPlaces(g, n) ==
    {Running(n)}
      \cup (IF InLoop(g, n) THEN {} ELSE {Done(n)})
      \cup (IF InLoop(g, n) \/ n = g.trigger THEN {} ELSE {Skipped(n)})
      \cup (IF IsBatch(g, n) THEN {Ended(n)} ELSE {})
      \cup (IF IsSplit(g, n) THEN {Ok(n, o) : o \in Slots(g, n)} ELSE {})

Places(g) == HostPlaces(g) \cup UNION {OwnPlaces(g, n) : n \in g.nodes}

InitialMarking(g) == [p \in Places(g) |-> IF p = TriggerIn THEN 1 ELSE 0]

-----------------------------------------------------------------------------
(***************************************************************************)
(* What a routed slot, a skip and a run write.                             *)
(***************************************************************************)
SlotPlacesIfFilled(edges, filled) ==
    IF filled THEN {Arrived(e) : e \in edges} \cup {Live(n) : n \in Targets(edges)} ELSE {}
SlotPlaces(edges, filled) ==
    {Arrived(e) : e \in edges} \cup (IF filled THEN {Live(n) : n \in Targets(edges)} ELSE {})

DoneMarker(g, n) == IF InLoop(g, n) THEN {} ELSE {Done(n)}

SkipPlaces(g, n) ==
    IF IsBatch(g, n)
      THEN SlotPlaces(SlotEdges(g, n, DoneSlot), FALSE) \cup {Ended(n)}
      ELSE SlotPlaces(OutOf(n, g.edges), FALSE) \cup (IF InLoop(g, n) THEN {} ELSE {Skipped(n)})

FailPlaces(g, n) == {Halt} \cup (IF IsBatch(g, n) THEN {Ended(n)} ELSE DoneMarker(g, n))

(* A completed run that filled the slots `filled`: both of a batch node are never filled. *)
BatchRunEnding(g, b, filled) ==
    IF LoopSlot \in filled
      THEN SlotPlaces(SlotEdges(g, b, LoopSlot), TRUE) \cup {Ended(b)}
      ELSE SlotPlaces(SlotEdges(g, b, DoneSlot), DoneSlot \in filled) \cup {Ended(b)}
BatchRunPlaces(g, b, filled) ==
    IF LoopSlot \in filled
      THEN SlotPlaces(SlotEdges(g, b, LoopSlot), TRUE)
      ELSE SlotPlaces(SlotEdges(g, b, DoneSlot), DoneSlot \in filled) \cup {Ended(b)}

RunPlaces(g, n, filled) ==
    IF IsBatch(g, n) THEN BatchRunPlaces(g, n, filled)
    ELSE DoneMarker(g, n) \cup
         (IF IsSplit(g, n) THEN {Ok(n, o) : o \in Slots(g, n)}
          ELSE UNION {SlotPlaces(SlotEdges(g, n, o), o \in filled) : o \in Slots(g, n)})

(* The slots a completed step may report as filled. *)
Fillings(g, n) ==
    IF IsBatch(g, n) THEN {{}, {DoneSlot}, {LoopSlot}} ELSE SUBSET Slots(g, n)

-----------------------------------------------------------------------------
(***************************************************************************)
(* The transitions.  A batch node has a start and a skip for each of its   *)
(* two incoming edges; `back` tells the return edge's pair from the entry  *)
(* edge's, which is a plain node's only pair too.                          *)
(***************************************************************************)
TriggerStart(g) ==
    [one |-> {TriggerIn}, all |-> {}, not |-> {Halt}, outs |-> {{Running(g.trigger)}}]

FirstInputOnly(g, n, back) == {e \in Incoming(g, n) : e.in = 0 /\ (IsBatch(g, n) => (g.class[e] = "back") = back)}
PairEdges(g, n, back) ==
    IF IsBatch(g, n) THEN {IF back THEN BackEdge(g, n) ELSE EntryEdge(g, n)} ELSE Incoming(g, n)

NodeStart(g, n, back) ==
    [one |-> {Arrived(e) : e \in PairEdges(g, n, back)}, all |-> {Live(n)}, not |-> {Halt},
     outs |-> {{Running(n)}}]

StartOf(g, n, back) == IF n = g.trigger THEN TriggerStart(g) ELSE NodeStart(g, n, back)

SkipLiveToo(g, n, back) ==
    [one |-> {Arrived(e) : e \in PairEdges(g, n, back)}, all |-> {}, not |-> {Halt},
     outs |-> {SkipPlaces(g, n)}]
SkipOf(g, n, back) ==
    [one |-> {Arrived(e) : e \in PairEdges(g, n, back)}, all |-> {}, not |-> {Live(n), Halt},
     outs |-> {SkipPlaces(g, n)}]

RunOf(g, n) ==
    [one |-> {Running(n)}, all |-> {}, not |-> {},
     outs |-> {RunPlaces(g, n, F) : F \in Fillings(g, n)}
                \cup (IF n = g.trigger THEN {} ELSE {FailPlaces(g, n)})]

RouteOf(g, n, o) ==
    [one |-> {Ok(n, o)}, all |-> {}, not |-> {},
     outs |-> {SlotPlaces(SlotEdges(g, n, o), filled) : filled \in BOOLEAN}]

(* The pairs of a node: a batch node has two, every other node one. *)
Pairs(g, n) == IF IsBatch(g, n) THEN BOOLEAN ELSE {FALSE}

-----------------------------------------------------------------------------
(***************************************************************************)
(* The token game (codec/v2/net.ts).                                       *)
(***************************************************************************)
IsEnabled(t, m) ==
    /\ \A p \in t.one \cup t.all : m[p] > 0
    /\ \A p \in t.not : m[p] = 0

(* Firing t by the branch that writes `places`, less those the caller deposits later itself. *)
Fire(t, m, places, withhold) ==
    [p \in DOMAIN m |->
       (IF p \in t.all THEN 0 ELSE IF p \in t.one THEN m[p] - 1 ELSE m[p])
         + (IF p \in places \ withhold THEN 1 ELSE 0)]
=============================================================================
