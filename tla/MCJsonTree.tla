----------------------------- MODULE MCJsonTree -----------------------------
(* An instance of JsonTree for TLC. *)
EXTENDS JsonTree, TLC

BothCases == {"a", "A"}
LowerCase == [n \in BothCases |-> "a"]
Addresses == Permutations(Items)

\* Bound: arrays, references and the second name have at most three items around them.
FewOthers ==
  \A x \in Live : heap[x].kind = "array" \/ heap[x].ref \/ heap[x].name = "A"
                    => Cardinality(Live) < 4
=============================================================================
