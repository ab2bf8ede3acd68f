-------------------------------- MODULE Delta --------------------------------
(***************************************************************************)
(* The copy/insert delta a seam is shipped as (install/delta.ts): encoding *)
(* a target as copies out of a source and inserted bytes, and rebuilding   *)
(* it.  A byte string is a sequence; an insert carries its bytes, whether  *)
(* the file writes them as text or as base64.                              *)
(***************************************************************************)
EXTENDS Naturals, Sequences, FiniteSets, SequencesExt

CONSTANTS Seed,          \* SEED: the shortest match
          MaxCandidates  \* MAX_CANDIDATES: positions kept per seed

Copy(offset, length) == [copy |-> <<offset, length>>, insert |-> <<>>]
Insert(bytes) == [copy |-> <<>>, insert |-> bytes]
IsCopy(op) == op.copy # <<>>

(* Offsets count from 0. *)
Slice(bytes, offset, length) == SubSeq(bytes, offset + 1, offset + length)
ByteAt(bytes, offset) == bytes[offset + 1]

(* The positions of the source under a seed, the first MaxCandidates of them. *)
Positions(source, seed) ==
    {p \in 0 .. (Len(source) - Seed) : Len(source) >= Seed /\ Slice(source, p, Seed) = seed}
CandidatesFor(source, seed) ==
    {p \in Positions(source, seed) : Cardinality({q \in Positions(source, seed) : q < p}) < MaxCandidates}

(* How far a match at source p, target i reaches forward, and back into the pending insert. *)
Forward(source, target, p, i) ==
    CHOOSE n \in Seed .. Len(target) :
      /\ \A k \in 0 .. (n - 1) : i + k < Len(target) /\ p + k < Len(source)
                                 /\ ByteAt(target, i + k) = ByteAt(source, p + k)
      /\ ~(i + n < Len(target) /\ p + n < Len(source) /\ ByteAt(target, i + n) = ByteAt(source, p + n))

Backward(source, pending, p) ==
    CHOOSE b \in 0 .. Len(pending) :
      /\ \A k \in 1 .. b : p - k >= 0 /\ pending[Len(pending) - k + 1] = ByteAt(source, p - k)
      /\ ~(b < Len(pending) /\ p - b >= 1 /\ pending[Len(pending) - b] = ByteAt(source, p - b - 1))

(* The longest match, the first of several. *)
Best(source, target, candidates, i, pending) ==
    LET reach(p) == Forward(source, target, p, i) + Backward(source, pending, p)
    IN CHOOSE p \in candidates :
         \A q \in candidates : reach(q) < reach(p) \/ (reach(q) = reach(p) /\ p <= q)

FlushInsert(ops, pending) == IF pending = <<>> THEN ops ELSE Append(ops, Insert(pending))

(* pushCopy: a copy that goes on where the last one ended extends it. *)
PushCopy(ops, offset, length) ==
    IF ops # <<>> /\ IsCopy(Last(ops)) /\ Last(ops).copy[1] + Last(ops).copy[2] = offset
      THEN Append(Front(ops), Copy(Last(ops).copy[1], Last(ops).copy[2] + length))
      ELSE Append(ops, Copy(offset, length))

EncodeStep(source, target, s) ==
    LET candidates == IF s.i + Seed <= Len(target)
                        THEN CandidatesFor(source, Slice(target, s.i, Seed)) ELSE {}
        p == Best(source, target, candidates, s.i, s.pending)
        n == Forward(source, target, p, s.i)
        b == Backward(source, s.pending, p)
    IN IF candidates = {}
         THEN [s EXCEPT !.i = @ + 1, !.pending = Append(@, ByteAt(target, s.i))]
         ELSE [i |-> s.i + n, pending |-> <<>>,
               ops |-> PushCopy(FlushInsert(s.ops, SubSeq(s.pending, 1, Len(s.pending) - b)), p - b, n + b)]

EncodeDelta(source, target) ==
    LET encode[s \in [i : Nat, ops : Seq([copy : Seq(Nat), insert : Seq(Nat)]), pending : Seq(Nat)]] ==
          IF s.i >= Len(target) THEN FlushInsert(s.ops, s.pending) ELSE encode[EncodeStep(source, target, s)]
    IN encode[[i |-> 0, ops |-> <<>>, pending |-> <<>>]]

(* applyDelta: refused when a copy is empty or reaches outside the source. *)
DeltaError == <<"DeltaError">>
Applies(source, delta) ==
    \A k \in DOMAIN delta :
      IsCopy(delta[k]) => delta[k].copy[2] > 0 /\ delta[k].copy[1] + delta[k].copy[2] <= Len(source)

ApplyDelta(source, delta) ==
    IF ~Applies(source, delta) THEN DeltaError
    ELSE FlattenSeq([k \in DOMAIN delta |->
           IF IsCopy(delta[k]) THEN Slice(source, delta[k].copy[1], delta[k].copy[2]) ELSE delta[k].insert])

InsertedBytes(delta) == FoldLeft(LAMBDA n, op : n + Len(op.insert), 0, delta)
=============================================================================
