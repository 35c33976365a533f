---------------------------- MODULE MCRepoLease ----------------------------
(* An instance of RepoLease for TLC: two CLI sessions and two engine       *)
(* sessions.  One of each kind may overrun its term without bound, so an   *)
(* expired holder, its successor and further contenders meet; the others   *)
(* leave one tick before their term ends.                                  *)
EXTENDS RepoLease

CONSTANTS c1, c2, e1, e2

MCCli == {c1, c2}
MCEngine == {e1, e2}
MCMargin == [s \in Session |-> IF s \in {c2, e2} THEN 1 ELSE -MaxWait]
=============================================================================
