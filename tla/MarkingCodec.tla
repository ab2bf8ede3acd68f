----------------------------- MODULE MarkingCodec -----------------------------
(***************************************************************************)
(* An execution over several runs of the scheduler: a halted, paused or    *)
(* aborted net is written into n8n's stack and waiting rows (codec/encode, *)
(* scheduler/write-back) and a later run decodes it into a fresh marking   *)
(* (codec/decode over the shared marking) and plays on.                    *)
(*                                                                         *)
(* A stack entry carries one activation and is counted per node: order on  *)
(* the stack only breaks ties between enabled transitions.  A waiting row  *)
(* of a join keeps what has arrived of one slot, by input.  The modes of   *)
(* the encoder differ in what they tolerate, not in what they write.  A    *)
(* run stopped before it started is resumed; a destination stop is not.    *)
(***************************************************************************)
EXTENDS WorkflowNet, Sequences

LOCAL INSTANCE SequencesExt

CONSTANT MaxResumes  \* bound: sessions after the first

(***************************************************************************)
(* An entry of an OR node counts towards its round when its source is a    *)
(* tree edge from a reachable producer; here every entry has such a one.   *)
(***************************************************************************)
ASSUME CodecAssumption ==
  /\ MaxResumes \in Nat
  /\ \A x \in Nodes : Forms[x] = "or" => x # Trigger /\ Incoming(x) \subseteq TreeEdges

VARIABLES
  saved,     \* the execution rests in n8n's state: no net is being played
  entries,   \* node -> its entries on nodeExecutionStack
  rows,      \* join node -> its waitingExecution rows, slot -> what arrived
  emptied,   \* OR node -> its [[]] rows, one per delivered empty
  recorded,  \* node -> its runs in runData
  gone,      \* history: nodes skipped in an earlier session
  dropped,   \* history: direct nodes whose pending empty a write-back dropped
  resumes    \* sessions after the first

history == <<gone, dropped, resumes>>
state == <<saved, entries, rows, emptied, recorded, history>>
allVars == <<vars, state>>

Count(v, n) == [i \in 1 .. n |-> v]
Clamped(n) == IF n < 0 THEN 0 ELSE n

-----------------------------------------------------------------------------
(***************************************************************************)
(* Encoding.                                                               *)
(***************************************************************************)

\* activationsOf: waiting, stopped before its run, retrying, or caught running.
CaughtUnretried(x) == Cardinality(RunsIn(x, {"waiting", "stopped", "running"}))
Caught(x) == Cardinality(RunsIn(x, {"waiting", "stopped", "retry", "running"}))

\* handleNodeExecutionError put the failed entry back on the stack itself.
Pushed(x) == Cardinality(RunsIn(x, {"halted"}))

\* Data that rests on x's own edges: a direct node's X/in, an OR's unarmed arrivals.
OnPlaces(f, S) == MapThenSumSet(LAMBDA e : f[e], S)

\* The edges of each slot, in canonical order.
Lane == [p \in Slots |-> SetToSortSeq({e \in Edges : SlotOf(e) = p}, <)]

\* joinQueue: the ready head, then per edge its data and its empties.
Queue(p) ==
  Count("data", ready[<<p, "data">>]) \o Count("empty", ready[<<p, "empty">>])
  \o FlattenSeq([i \in DOMAIN Lane[p] |-> Count("data", data[Lane[p][i]]) \o Count("empty", empty[Lane[p][i]])])

\* holdsOnlySeeds: nothing but empties on the ready places of unreachable inputs.
OnlySeeds(x) ==
  \A p \in SlotsOf[x] : Queue(p) # << >> => SeedEmpty(p) /\ Queue(p) = <<"empty">> /\ ready[<<p, "empty">>] = 1

\* The j-th slot of x, paired over the queues of its inputs.
Depth(x) == Max({0} \cup {Len(Queue(p)) : p \in SlotsOf[x]})
Paired(x) ==
  [j \in 1 .. Depth(x) |-> [p \in SlotsOf[x] |-> IF j <= Len(Queue(p)) THEN Queue(p)[j] ELSE "none"]]

\* allDataFound: complete, and with data somewhere.
AllDataFound(slot) == "none" \notin Range(slot) /\ "data" \in Range(slot)
NotFound(slot) == ~AllDataFound(slot)

JoinEntries(x) == IF OnlySeeds(x) THEN 0 ELSE Len(SelectSeq(Paired(x), AllDataFound))
JoinRows(x) == IF OnlySeeds(x) THEN << >> ELSE SelectSeq(Paired(x), NotFound)

Pending(x) ==
  CASE Forms[x] = "direct" -> OnPlaces(data, InPlaces(x))
    [] Forms[x] = "or" -> hasdata[x] + OnPlaces(data, Incoming(x))
    [] OTHER -> JoinEntries(x)

Stack(x) == Pushed(x) + Caught(x) + Pending(x)

(***************************************************************************)
(* encodeOr: the deliveries decode will not count again from an entry or   *)
(* seed again, one [[]] row each.  The host's own entry is not among the   *)
(* activations the encoder subtracts.                                      *)
(***************************************************************************)
Seeds(x) == IF x \in Reachable THEN UnreachableProducers(x) ELSE 0
OpenRound(x) ==
  Clamped(arrived[x] - (Caught(x) + hasdata[x]) - Seeds(x)) + OnPlaces(empty, Incoming(x))

\* n8n keeps a run in runData once it succeeded; a failed or waiting one is popped to be redone.
Recorded(x) == Cardinality(RunsIn(x, {"routed", "done"}))

Save ==
  /\ ~saved /\ resumes < MaxResumes
  /\ halt \/ pause \/ closed
  /\ Quiescent
  /\ saved' = TRUE
  /\ entries' = [x \in Nodes |-> Stack(x)]
  /\ rows' = [x \in JoinNodes |-> JoinRows(x)]
  /\ emptied' = [x \in Nodes |-> IF Forms[x] = "or" THEN OpenRound(x) ELSE 0]
  /\ recorded' = [x \in Nodes |-> Recorded(x)]
  /\ gone' = gone \cup {x \in Nodes : skipped[x] > 0}
  /\ dropped' = dropped \cup {x \in Nodes : Forms[x] = "direct" /\ OnPlaces(empty, Incoming(x)) > 0}
  /\ UNCHANGED <<vars, resumes>>

-----------------------------------------------------------------------------
(***************************************************************************)
(* Decoding, over the shared marking.                                      *)
(***************************************************************************)

\* JoinQueues: the entries and their companions, then the rows' arrivals, per input.
Arrived(p) == SelectSeq([j \in DOMAIN rows[p[1]] |-> rows[p[1]][j][p]], LAMBDA v : v # "none")
Decoded == [p \in Slots |-> Count("data", entries[p[1]]) \o Arrived(p)]

\* The head takes the slot, withholds its free token and replaces a seeded empty.
HeadBesideSeed(p, v) ==
  IF SeedEmpty(p) /\ v = "empty" THEN 1 ELSE IF Decoded[p] # << >> /\ Head(Decoded[p]) = v THEN 1 ELSE 0
HeadOf(p, v) ==
  IF Decoded[p] = << >> THEN IF SeedEmpty(p) /\ v = "empty" THEN 1 ELSE 0
                        ELSE IF Head(Decoded[p]) = v THEN 1 ELSE 0

\* The rest queue on the first edge place that carries their variant; TLC stops at a
\* CHOOSE without one, which is decode's CodecError.
FirstCarrier(p, v) ==
  LET into == {e \in Edges : SlotOf(e) = p /\ (v = "empty" => e \in TreeEdges)}
  IN  CHOOSE e \in into : \A d \in into : e <= d
QueuedOn(e, v) ==
  LET p == SlotOf(e)
      rest == SelectSeq(Tail(Decoded[p]), LAMBDA w : w = v)
  IN  IF Decoded[p] = << >> \/ Len(rest) = 0 \/ e # FirstCarrier(p, v) THEN 0 ELSE Len(rest)

\* Whether the head of a generic join's slot counts as data: a companion does not.
CountedHeads(x) ==
  IF entries[x] > 0 THEN 1 ELSE Cardinality({p \in SlotsOf[x] : HeadOf(p, "data") = 1})

\* countsTowardRound: each entry delivers again, beside the rows and the seeds.
DeliveriesUnseeded(x) == entries[x] + emptied[x]
Deliveries(x) == entries[x] + emptied[x] + Seeds(x)

(***************************************************************************)
(* addMarkers: a reference that has not run and that nothing pending can   *)
(* reach is skipped; the [[]] rows of an OR node leave nothing pending.    *)
(***************************************************************************)
PendingNodes == {x \in Nodes : entries[x] > 0 \/ (x \in JoinNodes /\ rows[x] # << >>)}
UnmetForgetful(x) == x \in SeededSkipped \/ (x \in Referenced /\ recorded[x] = 0)
Unmet(x) ==
  \/ x \in SeededSkipped
  \/ x \in Referenced /\ recorded[x] = 0 /\ x \notin Walk(PendingNodes, {})

\* The entries of a direct node land on its only input place.
OnDirect(x, e) == Forms[x] = "direct" /\ e \in InPlaces(x)

\* Decoded entries are popped, what else was read is dead until the next write-back replaces it.
NoCount == [x \in Nodes |-> 0]
NoRows == [x \in JoinNodes |-> << >>]

\* n8n resumes or retries an execution that has something on its stack.
Load ==
  /\ saved /\ \E x \in Nodes : entries[x] > 0
  /\ saved' = FALSE /\ resumes' = resumes + 1
  /\ budget' = Units
  /\ halt' = FALSE /\ pause' = FALSE /\ closed' = FALSE
  /\ idle' = [x \in Nodes |-> 1]
  /\ tries' = Retries
  /\ stage' = [a \in Activations |-> IF a[2] <= recorded[a[1]] THEN "done" ELSE "none"]
  /\ data' = [e \in Edges \cup {0} |->
                IF e # 0 /\ Conn[e].to \in JoinNodes THEN QueuedOn(e, "data")
                ELSE MapThenSumSet(LAMBDA x : IF OnDirect(x, e) THEN entries[x] ELSE 0, Nodes)]
  /\ empty' = [e \in Edges |-> IF Conn[e].to \in JoinNodes THEN QueuedOn(e, "empty") ELSE 0]
  /\ arming' = {}
  /\ free' = [p \in Slots |-> IF SeedEmpty(p) \/ Decoded[p] # << >> THEN 0 ELSE 1]
  /\ ready' = [q \in Slots \X Variants |-> HeadOf(q[1], q[2])]
  /\ hasdata' = [x \in Nodes |-> CASE Forms[x] = "or" -> entries[x]
                                   [] Forms[x] = "join" -> CountedHeads(x)
                                   [] OTHER -> 0]
  /\ arrived' = [x \in Nodes |-> IF Forms[x] = "or" THEN Deliveries(x) ELSE 0]
  /\ ran' = [x \in Nodes |-> IF Forms[x] = "or" /\ Deliveries(x) > 0 /\ recorded[x] > 0 THEN 1 ELSE 0]
  /\ skipping' = {}
  /\ skipped' = [x \in Nodes |-> IF Unmet(x) THEN 1 ELSE 0]
  /\ entries' = NoCount /\ emptied' = NoCount /\ recorded' = NoCount
  /\ rows' = NoRows
  /\ UNCHANGED <<gone, dropped>>

-----------------------------------------------------------------------------

CodecInit ==
  /\ Init
  /\ saved = FALSE /\ resumes = 0
  /\ entries = NoCount /\ emptied = NoCount /\ recorded = NoCount
  /\ rows = NoRows
  /\ gone = {} /\ dropped = {}

\* The net plays while no session's state is at rest.  Bound: the last one is not aborted.
Play ==
  /\ ~saved /\ Next /\ UNCHANGED state
  /\ resumes = MaxResumes => closed' = closed

CodecNext == Play \/ Save \/ Load

CodecSpec == CodecInit /\ [][CodecNext]_allVars

-----------------------------------------------------------------------------
(***************************************************************************)
(* Properties.                                                             *)
(***************************************************************************)

(***************************************************************************)
(* decode(encode(m)) keeps the pending activations of m (ADR 0005): every  *)
(* activation the stop caught and every arrival with data is pending again *)
(* in the resumed net, whichever place held it.                            *)
(***************************************************************************)
Unfinished(x) == Cardinality(RunsIn(x, Stages \ {"none", "routed", "done"}))
Owed(x) == Unfinished(x) + hasdata[x] + OnPlaces(data, InPlaces(x))
SlotData(p) == ready[<<p, "data">>] + OnPlaces(data, {e \in Edges : SlotOf(e) = p})
ArrivalsSurvive ==
  [][Load => /\ \A x \in Nodes \ JoinNodes : Owed(x)' = Owed(x)
             /\ \A x \in JoinNodes : \A p \in SlotsOf[x] :
                  SlotData(p)' >= SlotData(p) + Unfinished(x)]_allVars

\* Saving again what was just resumed writes the same state: nothing is paired,
\* seeded or counted a second time (ADR 0005, encode after decode).
RoundTrips ==
  [][Load => \A x \in Nodes :
       /\ Stack(x)' = entries[x]
       /\ x \in JoinNodes => JoinRows(x)' = rows[x]
       /\ Forms[x] = "or" => OpenRound(x)' = emptied[x]]_allVars

\* A node is decided one way over all sessions: one skipped earlier neither runs nor is
\* skipped again, and one decode marks skipped for its references does not run after all.
DecidedAcross ==
  /\ DecidedOneWay
  /\ ~saved => \A x \in (gone \cap FedOnce) \ Cyclic :
       Started(x) = {} /\ x \notin skipping /\ skipped[x] <= 1

(***************************************************************************)
(* A resumed execution that ends by itself completes: the stranded encoder *)
(* finds nothing to write, unless a halt or an abort made an earlier       *)
(* write-back drop the pending empty of a direct node.                     *)
(***************************************************************************)
ResumeCompletes ==
  (~saved /\ ~halt /\ ~pause /\ ~closed /\ dropped = {} /\ Quiescent) =>
    \A x \in Nodes :
      /\ Stack(x) = 0
      /\ x \in JoinNodes => JoinRows(x) = << >>
      /\ Forms[x] = "or" => OpenRound(x) = 0

(***************************************************************************)
(* Encode is the inverse of decode for an OR round: every delivery decode  *)
(* would count again is subtracted, so a paused round resumes with as many *)
(* as it had (codec/or-round.ts).                                          *)
(***************************************************************************)
Undelivered(x) == OnPlaces(data, Incoming(x)) + OnPlaces(empty, Incoming(x))
RoundsKept ==
  [][Load => \A x \in Nodes : Forms[x] = "or" => arrived'[x] = arrived[x] + Undelivered(x)]_allVars

=============================================================================
