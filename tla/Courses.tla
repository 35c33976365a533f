------------------------------ MODULE Courses ------------------------------
(***************************************************************************)
(* A course: the file that carries a repository's approved goal, its       *)
(* readiness requirements, work packages and checkpoints, and the pure     *)
(* functions of courses.py and readiness.py that turn one version of the   *)
(* file into the next.  What the planner wrote once (goal, scope, texts)   *)
(* never changes and is left out; what may change is here.                 *)
(*                                                                         *)
(* Two fields keep more than the code does, for the properties: an         *)
(* approval keeps the inputs it was given for, and the evidence of a       *)
(* requirement keeps the answer that it is about.                          *)
(***************************************************************************)
EXTENDS FiniteSets, Integers

CONSTANTS Requirements, Required, OwnerDecided, \* readiness requirements
          Answers,      \* what an owner may answer
          Drafted,      \* what the status of a new requirement may be
          Routes,       \* model routings that the owner may choose between
          Packages, Checkpoints,
          Dependencies, \* per package, the packages it depends on
          Blocks,       \* per checkpoint, the packages it blocks
          None          \* no value

(* validate_graph: the references of a course resolve, and its packages    *)
(* depend on each other without a cycle.                                   *)
Acyclic(deps) ==
    \A S \in SUBSET Packages \ {{}} : \E p \in S : deps[p] \cap S = {}

ASSUME GraphIsValid ==
    /\ Dependencies \in [Packages -> SUBSET Packages] /\ Acyclic(Dependencies)
    /\ Blocks \in [Checkpoints -> SUBSET Packages] /\ Packages # {}
    /\ Required \subseteq Requirements /\ OwnerDecided \subseteq Requirements
    /\ Drafted \subseteq {"unknown", "answered"}

NoAnswer == "no answer"

(* What a review or an approval was given for.                             *)
InputRecords == [answers : [Requirements -> Answers \cup {NoAnswer}],
                 waived : SUBSET Requirements, routes : Routes]

ASSUME ValuesAreSane == Routes # {} /\ None \notin InputRecords

NoReview == [inputs |-> None, ready |-> FALSE]

CourseStatuses == {"draft", "readiness_review", "awaiting_approval", "engaged", "paused"}
RequirementStatuses == {"unknown", "answered", "verified", "waived", "blocked"}
PackageStatuses == {"planned", "executing", "reviewing", "complete"}
CheckpointStatuses == {"pending", "blocked", "approved"}

(* What course.create and repo.create save: the draft of the planning       *)
(* session, which may have an answer to some questions already.            *)
Question == [status : Drafted, answer : Answers \cup {NoAnswer}, evidence : {NoAnswer}]
NewCourses ==
    {[status   |-> "draft",
      readiness |-> asked,
      routes   |-> CHOOSE x \in Routes : TRUE,
      review   |-> NoReview,
      packages |-> [p \in Packages |-> "planned"],
      checkpoints |-> [k \in Checkpoints |-> "pending"],
      approval |-> None] :
         asked \in [Requirements ->
                      {q \in Question : q.status = "answered" => q.answer # NoAnswer}]}

Approved(c) == c.approval # None

(* The validators of Course and ReadinessRequirement: every load and every *)
(* review checks them.                                                     *)
ValidRequirement(r, q) ==
    /\ q.status \in {"answered", "verified"} => q.answer # NoAnswer
    /\ q.status = "verified" => q.evidence # NoAnswer
    /\ q.status = "waived" /\ r \in Required => r \in OwnerDecided

ValidCourse(c) ==
    /\ \A r \in Requirements : ValidRequirement(r, c.readiness[r])
    /\ c.status = "engaged" => Approved(c)

(* readiness_input_sha: what a review is bound to.  Verification, package  *)
(* and checkpoint statuses are no part of it.                              *)
Inputs(c) ==
    [answers |-> [r \in Requirements |-> c.readiness[r].answer],
     waived  |-> {r \in Requirements : c.readiness[r].status = "waived"},
     routes  |-> c.routes]

----------------------------------------------------------------------------
(* Readiness and approval.                                                 *)

Unresolved(c) == {r \in Required : c.readiness[r].status \notin {"verified", "waived"}}
ReviewThere(c) == c.review.ready
ReviewCurrent(c) == c.review.ready /\ c.review.inputs = Inputs(c)
Ready(c) == Unresolved(c) = {} /\ ReviewCurrent(c)

(* resolve_readiness_requirement, with answer given or NoAnswer: a         *)
(* verification needs evidence, everything else drops the evidence.        *)
Answered(c, r, given) == IF given = NoAnswer THEN c.readiness[r].answer ELSE given
Resolution(c, r, status, given) ==
    [status |-> status, answer |-> Answered(c, r, given),
     evidence |-> IF status = "verified" THEN Answered(c, r, given) ELSE NoAnswer]
CanResolve(c, r, status, given) == ValidRequirement(r, Resolution(c, r, status, given))
Resolved(c, r, status, given) ==
    [c EXCEPT !.readiness[r] = Resolution(c, r, status, given)]

(* A mutant: the course is engaged, the approval is not recorded.          *)
EngagedOnly(c) == [c EXCEPT !.status = "engaged"]
ApprovalOf(c) == [c EXCEPT !.status = "engaged", !.approval = Inputs(c)]

(* apply_readiness_review: what the reviewer found for every requirement   *)
(* of the course it saw, bound to the inputs of the course it is saved in. *)
(* A ready verdict leaves no required requirement unverified; a            *)
(* requirement that is not verified loses its evidence, and only a         *)
(* required one is blocked.                                                *)
CanReview(seen, ready, verified) ==
    ready => \A r \in Required \ verified : seen.readiness[r].status = "waived"

Assessment(q, r, seen, verified) ==
    IF q.status = "waived" THEN q
    ELSE IF r \in verified /\ q.answer # NoAnswer
    THEN [q EXCEPT !.status = "verified", !.evidence = seen.readiness[r].answer]
    ELSE [q EXCEPT !.status = IF r \in Required THEN "blocked" ELSE @,
                   !.evidence = NoAnswer]

ReviewApplied(c, seen, ready, verified) ==
    [c EXCEPT !.readiness = [r \in Requirements |->
                               Assessment(c.readiness[r], r, seen, verified)],
              !.review = [inputs |-> Inputs(c), ready |-> ready]]

(* review_course_readiness: the status that the review leaves behind.      *)
Reviewed(c, seen, ready, verified) ==
    LET d == ReviewApplied(c, seen, ready, verified)
    IN  [d EXCEPT !.status = IF Ready(d) THEN "awaiting_approval" ELSE "readiness_review"]

----------------------------------------------------------------------------
(* Work packages.                                                          *)

BlockedBy(c, p) == {k \in Checkpoints : p \in Blocks[k] /\ c.checkpoints[k] # "approved"}

(* eligible_work_packages(course, completed).                              *)
Eligible(c, completed) ==
    {p \in Packages \ completed : /\ c.status = "engaged"
                                  /\ c.packages[p] = "planned"
                                  /\ Dependencies[p] \subseteq completed
                                  /\ BlockedBy(c, p) = {}}

Completed(c) == {p \in Packages : c.packages[p] = "complete"}
PackageSet(c, p, status) == [c EXCEPT !.packages[p] = status]
=============================================================================
