---------------------------- MODULE MCBenchmark ----------------------------
(* Small instances of Benchmark. *)
EXTENDS Benchmark

MCContents == [case : Recordings, labels : Recordings]
MCLedgerSeqs == [k \in Recordings |-> IF k = 1 THEN 0 .. 2 ELSE 0 .. 1]

Supported == [verdict |-> "SUPPORTED", first_bad |-> NoBadEvent]
Contradicted == [verdict |-> "CONTRADICTED", first_bad |-> 2]
MCProposed == [k \in Recordings |-> IF k = 1 THEN Contradicted ELSE Supported]

Audited(label) == label @@ [cited |-> 1, claims |-> 1]
MCFull == [k \in Recordings |-> Audited(MCProposed[k])]
MCNoTemporal == [k \in Recordings |-> Audited(Supported)]
MCFamily == [c \in Cases |-> c]

(* One that fits any ledger, one that fits the longer ledger only. *)
Completion(label, status, evidence) ==
  label @@ [kind |-> "object", claims |-> {[status |-> status, evidence |-> evidence]}]
MCCompletions ==
  {Completion(Supported, "SUPPORTED", {0}), Completion(Contradicted, "CONTRADICTED", {2})}

Symmetry == Permutations(RunIndices)
=============================================================================
