--------------------------- MODULE MCDirectQueue ---------------------------
(* Instances of DirectQueue for TLC.                                       *)
EXTENDS DirectQueue, TLC

CONSTANTS c1, c2, a1, a2, a3, k1

(* c2 depends on c1; nothing is reviewed.                                  *)
ChainCards == {c1, c2}
ChainParents == c1 :> {} @@ c2 :> {c1}
NoRepairs == << >>

(* c1 is a reviewer card and c2 the repair card made for it.               *)
RepairParents == c1 :> {} @@ c2 :> {}
OneRepair == c2 :> c1

(* One card alone.                                                         *)
OneCard == {c1}
OneParents == c1 :> {}

\* Retry budgets: one retry for every card; none for the reviewer only.
OneRetry == [c \in Card |-> 1]
RepairRetry == c1 :> 0 @@ c2 :> 1

ThreeAttempts == {a1, a2, a3}

OneController == {k1}

AttemptSymmetry == Permutations(Attempt)
=============================================================================
