---------------------------- MODULE MCCourseDesk ----------------------------
EXTENDS CourseDesk, TLC

(* One package that waits for a checkpoint: enough for what the writers of *)
(* the file do to each other.                                              *)
OnePackage == {"query"}
DemoBlocksQuery == [k \in {"demo"} |-> {"query"}]
Alone == [p \in OnePackage |-> {}]

(* Answers and handlers are only compared with each other.                 *)
Alike == Permutations(Answers) \cup Permutations(Handlers)

(* Two packages, the second of which depends on the first.                 *)
TwoPackages == {"index", "query"}
QueryNeedsIndex == [p \in TwoPackages |-> IF p = "query" THEN {"index"} ELSE {}]
=============================================================================
