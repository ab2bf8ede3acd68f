------------------------------- MODULE StepRows -------------------------------
(***************************************************************************)
(* The codec of engine v2 (codec/v2/): the marking a set of step rows puts *)
(* the engineV2 net in, by replaying the rows as firings; the frontier of  *)
(* a row set, from which the same marking can be had; and the plan read    *)
(* off a marking.                                                          *)
(*                                                                         *)
(* A row set is a function from step keys <<node, iteration>> to records   *)
(* [status, filled]: a key has one row by construction, which is the one   *)
(* check of validate() left out.  A decoding is a record of the marking    *)
(* and each node's row count, or Refused where the code throws CodecError. *)
(***************************************************************************)
EXTENDS SettlementGadget, FiniteSetsExt

SettledStatuses == {"completed", "failed", "skipped", "cancelled"}
Refused == [error |-> "CodecError"]

\* The member of a singleton: {F(x) : x \in {e}} computes e once, whatever F does with it.
The(S) == CHOOSE x \in S : TRUE

NodeOf(key) == key[1]
PassOf(key) == key[2]
PassesOf(rows, n) == {PassOf(k) : k \in {x \in DOMAIN rows : NodeOf(x) = n}}
Latest(rows, n) == Max(PassesOf(rows, n))
HasRow(rows, n) == PassesOf(rows, n) # {}

(* isTerminalStep: a batch row settled with its loop slot unfilled. *)
IsTerminalRow(row) == row.status \in SettledStatuses /\ LoopSlot \notin row.filled

(* validate: the checks made before the replay. *)
RowIsValid(g, n, row) ==
    /\ row.status # "completed" => row.filled = {}
    /\ n = g.trigger => row.status \notin {"failed", "skipped", "waiting"}
    /\ IsBatch(g, n) => row.status # "waiting" /\ ~({DoneSlot, LoopSlot} \subseteq row.filled)

RowsAreValid(g, rows) ==
    /\ \A k \in DOMAIN rows : NodeOf(k) \in g.nodes /\ RowIsValid(g, NodeOf(k), rows[k])
    /\ \A n \in g.nodes :
         LET passes == PassesOf(rows, n)
         IN /\ passes = 0 .. (Cardinality(passes) - 1)
            /\ ~InLoop(g, n) => Cardinality(passes) <= 1
            /\ InLoop(g, n) /\ ~IsBatch(g, n) =>
                 \A p \in passes : LET batchKey == <<g.loop[n], p>>
                                   IN batchKey \in DOMAIN rows => ~IsTerminalRow(rows[batchKey])
    /\ (\E k \in DOMAIN rows : rows[k].status = "cancelled")
         => \E k \in DOMAIN rows : rows[k].status = "failed"

(* The start or the skip a row fires first. *)
FirstTransition(g, key, row) ==
    LET back == IsBatch(g, NodeOf(key)) /\ PassOf(key) > 0
    IN IF row.status = "skipped" THEN SkipOf(g, NodeOf(key), back) ELSE StartOf(g, NodeOf(key), back)

RunBranch(g, n, row) ==
    IF row.status = "failed" THEN FailPlaces(g, n) ELSE RunPlaces(g, n, row.filled)

(* apply: a row fired whole, with _halt withheld and its routes fired at once. *)
RouteRow(g, m, n, row) ==
    [p \in DOMAIN m |->
       IF p \in {Ok(n, o) : o \in Slots(g, n)} THEN 0
       ELSE m[p] + Cardinality({o \in Slots(g, n) :
                                  p \in SlotPlaces(SlotEdges(g, n, o), o \in row.filled)})]

FinishRow(g, m, n, row) ==
    IF row.status \notin {"completed", "failed"} THEN m
    ELSE The({IF row.status = "completed" /\ IsSplit(g, n) THEN RouteRow(g, ran, n, row) ELSE ran :
                ran \in {Fire(run, m, RunBranch(g, n, row), {Halt}) : run \in {RunOf(g, n)}}})

ApplyRow(g, m, key, row) ==
    The({FinishRow(g, opened, NodeOf(key), row) :
           opened \in {Fire(first, m, UNION first.outs, {}) : first \in {FirstTransition(g, key, row)}}})

CanApply(g, m, count, key, row) ==
    count[NodeOf(key)] = PassOf(key) /\ IsEnabled(FirstTransition(g, key, row), m)

(* decodeStepRows: rows are applied as they become applicable, then the halts are added. *)
NoRows(g) == [n \in g.nodes |-> 0]

ReplayRow(g, rows, s, k) ==
    [marking |-> ApplyRow(g, s.marking, k, rows[k]), left |-> s.left \ {k},
     count |-> [s.count EXCEPT ![NodeOf(k)] = @ + 1]]

Replay(g, rows) ==
    LET replay[s \in [marking : [Places(g) -> Nat], left : SUBSET DOMAIN rows, count : [g.nodes -> Nat]]] ==
          LET ready == {k \in s.left : CanApply(g, s.marking, s.count, k, rows[k])}
          IN IF ready = {} THEN s
             ELSE replay[The({ReplayRow(g, rows, s, k) : k \in {CHOOSE x \in ready : TRUE}})]
    IN replay[[marking |-> InitialMarking(g), left |-> DOMAIN rows, count |-> NoRows(g)]]

DecodeStepRows(g, rows) ==
    IF ~RowsAreValid(g, rows) THEN Refused
    ELSE LET s == Replay(g, rows)
             halts == Cardinality({k \in DOMAIN rows : rows[k].status = "failed"})
         IN IF s.left # {} THEN Refused
            ELSE [marking |-> [s.marking EXCEPT ![Halt] = @ + halts], count |-> s.count]

-----------------------------------------------------------------------------
(***************************************************************************)
(* The frontier: each node's latest row and, of a loop, the passes 0,      *)
(* last - 1 and last of its batch node.                                    *)
(***************************************************************************)
Members(g, b) == {n \in g.nodes : g.loop[n] = b}
BatchesOf(g) == {b \in g.nodes : IsBatch(g, b)}

KeptPassesOnly(last) == IF last <= 2 THEN 0 .. last ELSE {last - 1, last}
KeptPasses(last) == IF last <= 2 THEN 0 .. last ELSE {0, last - 1, last}

(* frontierKeys, given each node's latest pass: latest is a function of the nodes with rows. *)
FrontierKeys(g, latest) ==
    UNION {UNION {{<<n, p>> : p \in {q \in KeptPasses(latest[b]) : q < latest[n]}} :
                    n \in Members(g, b) \cap DOMAIN latest} :
             b \in {x \in BatchesOf(g) \cap DOMAIN latest : latest[x] > 0}}

LatestPasses(g, rows) == [n \in {x \in g.nodes : HasRow(rows, x)} |-> Latest(rows, n)]
LatestKeys(latest) == {<<n, latest[n]>> : n \in DOMAIN latest}

FrontierOf(g, rows) ==
    LET latest == LatestPasses(g, rows)
        kept == DOMAIN rows \cap (LatestKeys(latest) \cup FrontierKeys(g, latest))
    IN [k \in kept |-> rows[k]]

(* decodeFrontier: the passes of a loop past pass 2 are renumbered as 0, 1 and 2. *)
Renumbered(last, pass) == IF pass = 0 THEN 0 ELSE pass - last + 2

DecodeFrontier(g, rows) ==
    LET latest == LatestPasses(g, rows)
        lastOf(n) == IF InLoop(g, n) /\ g.loop[n] \in DOMAIN latest THEN latest[g.loop[n]] ELSE 0
        kept == {k \in DOMAIN rows :
                   lastOf(NodeOf(k)) > 2 => PassOf(k) = 0 \/ PassOf(k) >= lastOf(NodeOf(k)) - 1}
        moved(k) == IF lastOf(NodeOf(k)) > 2
                      THEN <<NodeOf(k), Renumbered(lastOf(NodeOf(k)), PassOf(k))>> ELSE k
        decoded == The({DecodeStepRows(g, renumbered) : renumbered \in
                      {[key \in {moved(k) : k \in kept} |-> rows[CHOOSE k \in kept : moved(k) = key]]}})
    IN IF decoded = Refused THEN Refused
       ELSE [marking |-> decoded.marking,
             count |-> [n \in g.nodes |-> IF n \in DOMAIN latest THEN latest[n] + 1 ELSE 0]]

-----------------------------------------------------------------------------
(* planFromMarking: an enabled start is a step to queue, an enabled skip one to record. *)
NextKey(d, n) == <<n, d.count[n]>>

PlanFromMarking(g, d) ==
    [toQueue |-> {NextKey(d, n) : n \in {x \in g.nodes :
                    \E back \in Pairs(g, x) : IsEnabled(StartOf(g, x, back), d.marking)}},
     toSkip |-> {NextKey(d, n) : n \in {x \in g.nodes \ {g.trigger} :
                    \E back \in Pairs(g, x) : IsEnabled(SkipOf(g, x, back), d.marking)}}]
=============================================================================
