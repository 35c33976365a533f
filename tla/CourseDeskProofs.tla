------------------------- MODULE CourseDeskProofs -------------------------
(***************************************************************************)
(* Proofs about CourseDesk.  Requests, reviewer, Captain write over each   *)
(* other's changes, so what holds of the file must hold of every copy that *)
(* may replace it: Kept is what each of them preserves on its own copy.    *)
(***************************************************************************)
EXTENDS CourseDesk, TLAPS

(* The part of WorkWasJudged that a copy carries, J being what was judged. *)
Judged(c, J) ==
    /\ c.status \in {"engaged", "paused"} \/ Started(c) # {} => c.approval \in J
    /\ c.review.ready => c.review.inputs \in J

EvidenceMatches(c) ==
    \A r \in Requirements :
       c.readiness[r].status = "verified" => c.readiness[r].evidence = c.readiness[r].answer

Kept(c, J) == c \in CourseRecords /\ ValidCourse(c) /\ Judged(c, J) /\ EvidenceMatches(c)

Approving == {"checking", "seeding", "provisioning", "restoring"}
Places == {"idle", "saving"} \cup Approving

CopiesKept ==
    /\ Kept(file, judged)
    /\ \A h \in Handlers : sidecar[h].at # "idle"
         => Kept(sidecar[h].new, judged)
    /\ \A h \in Handlers : sidecar[h].at \in Approving
         => Kept(sidecar[h].old, judged)
    /\ reviewer # None => Kept(reviewer, judged)
    /\ captain.at = "writing" => Kept(captain.course, judged)

DeskTyped ==
    /\ greenfield \in BOOLEAN /\ git \in BOOLEAN /\ remote \in BOOLEAN
    /\ crashed \in BOOLEAN /\ early \in BOOLEAN
    /\ sidecar = [h \in Handlers |-> [at |-> sidecar[h].at, new |-> sidecar[h].new,
                                     old |-> sidecar[h].old]]
    /\ \A h \in Handlers : sidecar[h].at \in Places
    /\ captain.at \in {"idle", "planning", "chosen", "working", "writing"}
    /\ captain.at \in {"chosen", "working", "writing"} => captain.package \in Packages
    /\ edits \in 0 .. MaxEdits /\ reviews \in 0 .. MaxReviews

(* A repository is created only in an approval, of judged inputs.          *)
CreationJudged ==
    /\ \A h \in Handlers : sidecar[h].at \in Approving => greenfield /\ judged # {}
    /\ greenfield /\ remote => judged # {}

(* Until the repository exists, and unless a request died while creating   *)
(* it or loaded the course as it was seeded, no copy but the one being     *)
(* seeded is engaged or paused, the file is so only while a request is     *)
(* creating the repository, and the Captain rests.                         *)
Waits(s) ==
    /\ s.at = "saving" => s.new.status \notin Underway
    /\ s.at \in Approving => s.old.status \notin Underway
AwaitsRemote ==
    /\ greenfield \/ remote
    /\ remote => git
    /\ ~remote /\ ~crashed /\ ~early =>
          /\ captain.at = "idle"
          /\ (\A h \in Handlers : ~Creating(h)) => file.status \notin Underway
          /\ \A h \in Handlers : Waits(sidecar[h])

DeskInv == DeskTyped /\ CopiesKept /\ CreationJudged /\ AwaitsRemote

----------------------------------------------------------------------------
(* What the operators of Courses do to a copy.                             *)

LEMMA KeptGrows ==
    ASSUME NEW J, NEW K, J \subseteq K, NEW c, Kept(c, J) PROVE Kept(c, K)
BY DEF Kept, Judged

LEMMA InputsTyped ==
    ASSUME NEW c \in CourseRecords PROVE Inputs(c) \in InputRecords /\ Inputs(c) # None
<1>1. /\ c.routes \in Routes
      /\ \A r \in Requirements : c.readiness[r].answer \in Answers \cup {NoAnswer}
  BY DEF CourseRecords
<1>2. [r \in Requirements |-> c.readiness[r].answer]
         \in [Requirements -> Answers \cup {NoAnswer}]
  BY <1>1
<1>3. {r \in Requirements : c.readiness[r].status = "waived"} \in SUBSET Requirements
  OBVIOUS
<1> QED BY <1>1, <1>2, <1>3, ValuesAreSane DEF Inputs, InputRecords

LEMMA NewCourseKept ==
    ASSUME NEW c \in NewCourses PROVE Kept(c, {}) /\ c.status = "draft"
<1>1. (CHOOSE x \in Routes : TRUE) \in Routes
  BY ValuesAreSane
<1>2. PICK asked \in [Requirements ->
                        {q \in Question : q.status = "answered" => q.answer # NoAnswer}] :
         c = [status |-> "draft", readiness |-> asked, routes |-> CHOOSE x \in Routes : TRUE,
              review |-> NoReview, packages |-> [p \in Packages |-> "planned"],
              checkpoints |-> [k \in Checkpoints |-> "pending"], approval |-> None]
  BY DEF NewCourses
<1>3. \A r \in Requirements : /\ asked[r] \in Question
                              /\ asked[r].status \in {"unknown", "answered"}
                              /\ asked[r].status = "answered" => asked[r].answer # NoAnswer
  BY GraphIsValid DEF Question
<1>4. asked \in [Requirements -> [status : RequirementStatuses,
                                 answer : Answers \cup {NoAnswer},
                                 evidence : Answers \cup {NoAnswer}]]
  BY <1>3 DEF Question, RequirementStatuses
<1>5. c \in CourseRecords
  BY <1>1, <1>2, <1>4 DEF CourseRecords, NoReview, CourseStatuses, PackageStatuses,
                          CheckpointStatuses
<1>6. ValidCourse(c) /\ EvidenceMatches(c)
  BY <1>2, <1>3 DEF ValidCourse, ValidRequirement, EvidenceMatches
<1>7. Judged(c, {}) /\ c.status = "draft"
  BY <1>2 DEF Judged, Started, NoReview
<1> QED BY <1>5, <1>6, <1>7 DEF Kept

LEMMA ResolvedKept ==
    ASSUME NEW J, NEW c, Kept(c, J), NEW r \in Requirements, NEW status \in RequirementStatuses,
           NEW given \in Answers \cup {NoAnswer}, CanResolve(c, r, status, given)
    PROVE  Kept(Resolved(c, r, status, given), J)
<1> DEFINE q == Resolution(c, r, status, given)
           d == Resolved(c, r, status, given)
<1>1. c \in CourseRecords /\ ValidCourse(c) /\ Judged(c, J) /\ EvidenceMatches(c)
  BY DEF Kept
<1>2. Answered(c, r, given) \in Answers \cup {NoAnswer}
  BY <1>1 DEF Answered, CourseRecords
<1>3. /\ q \in [status : RequirementStatuses, answer : Answers \cup {NoAnswer},
                evidence : Answers \cup {NoAnswer}]
      /\ q.status = "verified" => q.evidence = q.answer
  BY <1>2 DEF Resolution
<1>4. d = [c EXCEPT !.readiness = [c.readiness EXCEPT ![r] = q]]
  BY <1>1 DEF Resolved, CourseRecords
<1> HIDE DEF q, d
<1>5. d \in CourseRecords
  BY <1>1, <1>3, <1>4 DEF CourseRecords
<1>6. /\ d.status = c.status /\ d.approval = c.approval /\ d.review = c.review
      /\ d.packages = c.packages
      /\ \A x \in Requirements : d.readiness[x] = IF x = r THEN q ELSE c.readiness[x]
  BY <1>1, <1>4 DEF CourseRecords
<1>7. ValidRequirement(r, q)
  BY DEF CanResolve, q
<1>8. ValidCourse(d)
  BY <1>1, <1>6, <1>7 DEF ValidCourse, Approved
<1>9. Judged(d, J)
  BY <1>1, <1>6 DEF Judged, Started
<1>10. EvidenceMatches(d)
  BY <1>1, <1>3, <1>6 DEF EvidenceMatches
<1> QED BY <1>5, <1>8, <1>9, <1>10 DEF Kept, d

LEMMA RoutesKept ==
    ASSUME NEW J, NEW c, Kept(c, J), NEW routes \in Routes
    PROVE  Kept([c EXCEPT !.routes = routes], J)
BY DEF Kept, CourseRecords, ValidCourse, Approved, Judged, Started, EvidenceMatches

LEMMA CheckpointKept ==
    ASSUME NEW J, NEW c, Kept(c, J), NEW k \in Checkpoints, NEW status \in CheckpointStatuses
    PROVE  Kept([c EXCEPT !.checkpoints[k] = status], J)
BY DEF Kept, CourseRecords, ValidCourse, Approved, Judged, Started, EvidenceMatches

LEMMA PauseKept ==
    ASSUME NEW J, NEW c, Kept(c, J), c.status = "engaged"
    PROVE  Kept([c EXCEPT !.status = "paused"], J)
BY DEF Kept, CourseRecords, CourseStatuses, ValidCourse, Approved, Judged, Started,
       EvidenceMatches

LEMMA ResumeKept ==
    ASSUME NEW J, NEW c, Kept(c, J), c.status = "paused", Approved(c)
    PROVE  Kept([c EXCEPT !.status = "engaged"], J)
BY DEF Kept, CourseRecords, CourseStatuses, ValidCourse, Approved, Judged, Started,
       EvidenceMatches

LEMMA ApprovalKept ==
    ASSUME NEW J, NEW c, Kept(c, J), Ready(c)
    PROVE  Kept(ApprovalOf(c), J) /\ J # {}
<1>1. Inputs(c) \in J
  BY DEF Kept, Judged, Ready, ReviewCurrent
<1>2. Inputs(c) \in InputRecords /\ Inputs(c) # None
  BY InputsTyped DEF Kept
<1>3. ApprovalOf(c) \in CourseRecords
  BY <1>2 DEF Kept, CourseRecords, ApprovalOf, CourseStatuses
<1>4. /\ ApprovalOf(c).approval = Inputs(c) /\ ApprovalOf(c).review = c.review
      /\ ApprovalOf(c).readiness = c.readiness
  BY DEF Kept, CourseRecords, ApprovalOf
<1> QED BY <1>1, <1>2, <1>3, <1>4 DEF Kept, ValidCourse, Approved, Judged, EvidenceMatches

LEMMA PackageKept ==
    ASSUME NEW J, NEW c, Kept(c, J), c.status = "engaged",
           NEW p \in Packages, NEW status \in PackageStatuses
    PROVE  Kept(PackageSet(c, p, status), J)
<1>1. PackageSet(c, p, status) \in CourseRecords
  BY DEF Kept, CourseRecords, PackageSet
<1>2. /\ PackageSet(c, p, status).status = c.status
      /\ PackageSet(c, p, status).approval = c.approval
      /\ PackageSet(c, p, status).review = c.review
      /\ PackageSet(c, p, status).readiness = c.readiness
  BY DEF Kept, CourseRecords, PackageSet
<1> QED BY <1>1, <1>2 DEF Kept, ValidCourse, Approved, Judged, EvidenceMatches

LEMMA ReviewKept ==
    ASSUME NEW J, NEW c, Kept(c, J), NEW ready \in BOOLEAN, NEW verified \in SUBSET Requirements,
           ValidCourse(Reviewed(c, c, ready, verified))
    PROVE  /\ Kept(Reviewed(c, c, ready, verified),
                   IF ready THEN J \cup {Inputs(c)} ELSE J)
           /\ Reviewed(c, c, ready, verified).status \notin Underway
<1> DEFINE d == Reviewed(c, c, ready, verified)
           A == [r \in Requirements |-> Assessment(c.readiness[r], r, c, verified)]
           s == IF Ready(ReviewApplied(c, c, ready, verified))
                THEN "awaiting_approval" ELSE "readiness_review"
<1>1. c \in CourseRecords /\ Judged(c, J) /\ EvidenceMatches(c)
  BY DEF Kept
<1>2. \A r \in Requirements :
         c.readiness[r] \in [status : RequirementStatuses, answer : Answers \cup {NoAnswer},
                             evidence : Answers \cup {NoAnswer}]
  BY <1>1 DEF CourseRecords
<1>3. ASSUME NEW r \in Requirements
      PROVE  /\ A[r] \in [status : RequirementStatuses, answer : Answers \cup {NoAnswer},
                          evidence : Answers \cup {NoAnswer}]
             /\ A[r].status = "verified" => A[r].evidence \in {A[r].answer, NoAnswer}
  <2>1. A[r] = Assessment(c.readiness[r], r, c, verified)
    OBVIOUS
  <2>2. CASE c.readiness[r].status = "waived"
    BY <1>2, <2>1, <2>2 DEF Assessment
  <2>3. CASE c.readiness[r].status # "waived" /\ r \in verified
                /\ c.readiness[r].answer # NoAnswer
    BY <1>2, <2>1, <2>3 DEF Assessment, RequirementStatuses
  <2>4. CASE c.readiness[r].status # "waived"
                /\ ~(r \in verified /\ c.readiness[r].answer # NoAnswer)
    BY <1>2, <2>1, <2>4 DEF Assessment, RequirementStatuses
  <2> QED BY <2>2, <2>3, <2>4
<1>4. d = [[c EXCEPT !.readiness = A, !.review = [inputs |-> Inputs(c), ready |-> ready]]
              EXCEPT !.status = s]
  BY DEF Reviewed, ReviewApplied
<1>5. A \in [Requirements -> [status : RequirementStatuses, answer : Answers \cup {NoAnswer},
                              evidence : Answers \cup {NoAnswer}]]
  BY <1>3
<1>6. s \in {"awaiting_approval", "readiness_review"}
  OBVIOUS
<1>7. Inputs(c) \in InputRecords
  BY <1>1, InputsTyped
<1> HIDE DEF d, A, s
<1>8. d \in CourseRecords
  BY <1>1, <1>4, <1>5, <1>6, <1>7 DEF CourseRecords, CourseStatuses
<1>9. /\ d.status = s /\ d.approval = c.approval /\ d.packages = c.packages
      /\ d.review = [inputs |-> Inputs(c), ready |-> ready] /\ d.readiness = A
  BY <1>1, <1>4 DEF CourseRecords
<1>10. d.status \notin Underway
  BY <1>6, <1>9 DEF Underway
<1>11. ValidCourse(d)
  BY DEF d
<1>12. Judged(d, IF ready THEN J \cup {Inputs(c)} ELSE J)
  BY <1>1, <1>6, <1>9 DEF Judged, Started
<1>13. EvidenceMatches(d)
  BY <1>3, <1>9, <1>11 DEF EvidenceMatches, ValidCourse, ValidRequirement
<1> QED BY <1>8, <1>10, <1>11, <1>12, <1>13 DEF Kept, d

----------------------------------------------------------------------------
(* The invariant.  One lemma per action or group of alike actions.         *)

LEMMA InitEstablishes == CourseDeskInit => DeskInv
<1> SUFFICES ASSUME CourseDeskInit PROVE DeskInv
  OBVIOUS
<1>1. greenfield \in BOOLEAN /\ git = ~greenfield /\ remote = ~greenfield
  BY DeskBounds DEF CourseDeskInit
<1>2. DeskTyped
  <2>1. 0 \in 0 .. MaxEdits /\ 0 \in 0 .. MaxReviews
    BY DeskBounds
  <2>2. git \in BOOLEAN /\ remote \in BOOLEAN
    BY <1>1, Zenon
  <2>3. captain.at = "idle"
    BY DEF CourseDeskInit, Resting
  <2>4. /\ sidecar = [h \in Handlers |-> [at |-> sidecar[h].at, new |-> sidecar[h].new,
                                         old |-> sidecar[h].old]]
        /\ \A h \in Handlers : sidecar[h].at \in Places
    BY DEF CourseDeskInit, Idle, Places
  <2>5. crashed \in BOOLEAN /\ early \in BOOLEAN /\ edits = 0 /\ reviews = 0
    BY DEF CourseDeskInit
  <2> QED BY <1>1, <2>1, <2>2, <2>3, <2>4, <2>5 DEF DeskTyped
<1>3. CopiesKept
  BY NewCourseKept DEF CourseDeskInit, CopiesKept, Idle, Resting, Approving
<1>4. CreationJudged /\ AwaitsRemote
  BY <1>1, NewCourseKept DEF CourseDeskInit, CreationJudged, AwaitsRemote, Waits, Approving,
              Idle, Resting, Underway
<1> QED BY <1>2, <1>3, <1>4 DEF DeskInv

(* A request of the sidecar prepares a copy that is kept.                  *)
LEMMA PrepareStep ==
    ASSUME DeskInv, NEW h \in Handlers, NEW at \in {"saving", "checking"}, NEW new,
           Prepare(h, at, new), Kept(new, judged),
           at = "checking" => greenfield /\ judged # {},
           at = "saving" /\ ~remote /\ file.status \notin Underway
               => new.status \notin Underway
    PROVE  DeskInv'
<1>1. /\ sidecar[h].at = "idle" /\ edits < MaxEdits /\ edits' = edits + 1
      /\ sidecar' = [sidecar EXCEPT ![h] = [at |-> at, new |-> new, old |-> Previous(at)]]
      /\ early' = (early \/ (~remote /\ file.status \in Underway))
      /\ UNCHANGED <<greenfield, file, reviewer, captain, git, remote, judged, crashed, reviews>>
  BY DEF Prepare
<1>2. /\ sidecar' = [g \in Handlers |-> IF g = h THEN [at |-> at, new |-> new, old |-> Previous(at)]
                                        ELSE sidecar[g]]
      /\ \A g \in Handlers :
            sidecar'[g] = IF g = h THEN [at |-> at, new |-> new, old |-> Previous(at)]
                          ELSE sidecar[g]
      /\ at = "checking" => Previous(at) = file
  BY <1>1 DEF DeskInv, DeskTyped, Previous
<1>3. DeskTyped'
  <2>1. early' \in BOOLEAN
    BY <1>1, Zenon DEF DeskInv, DeskTyped
  <2>2. edits' \in 0 .. MaxEdits
    BY <1>1, DeskBounds DEF DeskInv, DeskTyped
  <2>3. \A g \in Handlers : /\ sidecar'[g].at \in Places
                            /\ sidecar'[g] = [at |-> sidecar'[g].at, new |-> sidecar'[g].new,
                                              old |-> sidecar'[g].old]
    BY <1>2 DEF DeskInv, DeskTyped, Places, Approving
  <2>4. sidecar' = [g \in Handlers |-> [at |-> sidecar'[g].at, new |-> sidecar'[g].new,
                                        old |-> sidecar'[g].old]]
    BY <1>2, <2>3
  <2> QED BY <1>1, <2>1, <2>2, <2>3, <2>4 DEF DeskInv, DeskTyped
<1>4. CopiesKept'
  BY <1>1, <1>2 DEF DeskInv, CopiesKept, Approving
<1>5. CreationJudged'
  BY <1>1, <1>2 DEF DeskInv, CreationJudged, Approving
<1>6. AwaitsRemote'
  <2>1. \A g \in Handlers : Creating(g)' <=> Creating(g)
    BY <1>1, <1>2 DEF Creating
  <2>2. ASSUME ~remote, ~crashed, ~early'
        PROVE  /\ captain.at = "idle" /\ \A g \in Handlers : Waits(sidecar[g])
               /\ (\A g \in Handlers : ~Creating(g)) => file.status \notin Underway
               /\ file.status \notin Underway
    BY <1>1, <2>2 DEF DeskInv, AwaitsRemote
  <2>3. ASSUME ~remote, ~crashed, ~early' PROVE \A g \in Handlers : Waits(sidecar'[g])
    BY <1>2, <2>2, <2>3 DEF Waits, Approving
  <2> QED BY <1>1, <2>1, <2>2, <2>3 DEF DeskInv, AwaitsRemote
<1> QED BY <1>3, <1>4, <1>5, <1>6 DEF DeskInv

(* A step of a request that has begun: whatever it writes is kept.         *)
LEMMA HandlerStep ==
    ASSUME DeskInv, NEW h \in Handlers, NEW at \in Places, NEW course, Sidecar(h, at, course),
           Kept(course, judged), sidecar[h].at # "idle",
           at \in Approving => sidecar[h].at \in Approving,
           git' \in BOOLEAN, remote' \in BOOLEAN, remote => remote', remote' => git',
           greenfield /\ remote' => judged # {},
           ~remote' /\ ~crashed /\ ~early =>
              /\ at = "saving" => sidecar[h].new.status \notin Underway
              /\ (\A g \in Handlers : ~Creating(g))' => course.status \notin Underway
    PROVE  DeskInv'
<1> DEFINE s == IF at = "idle" THEN Idle ELSE [sidecar[h] EXCEPT !.at = at]
<1>1. /\ sidecar' = [sidecar EXCEPT ![h] = s] /\ file' = course
      /\ UNCHANGED <<greenfield, reviewer, captain, judged, crashed, early, edits, reviews>>
  BY DEF Sidecar
<1>2. /\ s.at = at /\ s = [at |-> s.at, new |-> s.new, old |-> s.old]
      /\ at # "idle" => s.new = sidecar[h].new /\ s.old = sidecar[h].old
  BY DEF DeskInv, DeskTyped, Idle
<1> HIDE DEF s
<1>3. /\ sidecar' = [g \in Handlers |-> IF g = h THEN s ELSE sidecar[g]]
      /\ \A g \in Handlers : sidecar'[g] = IF g = h THEN s ELSE sidecar[g]
  BY <1>1 DEF DeskInv, DeskTyped
<1>4. DeskTyped'
  <2>1. \A g \in Handlers : /\ sidecar'[g].at \in Places
                            /\ sidecar'[g] = [at |-> sidecar'[g].at, new |-> sidecar'[g].new,
                                              old |-> sidecar'[g].old]
    BY <1>2, <1>3 DEF DeskInv, DeskTyped
  <2>2. sidecar' = [g \in Handlers |-> [at |-> sidecar'[g].at, new |-> sidecar'[g].new,
                                        old |-> sidecar'[g].old]]
    BY <1>3, <2>1
  <2> QED BY <1>1, <2>1, <2>2 DEF DeskInv, DeskTyped
<1>5. CopiesKept'
  BY <1>1, <1>2, <1>3 DEF DeskInv, CopiesKept, Approving
<1>6. CreationJudged'
  BY <1>1, <1>2, <1>3 DEF DeskInv, CreationJudged
<1>7. AwaitsRemote'
  <2>1. ASSUME ~remote', ~crashed, ~early
        PROVE  /\ captain.at = "idle" /\ \A g \in Handlers : Waits(sidecar[g])
    BY <2>1 DEF DeskInv, AwaitsRemote
  <2>2. ASSUME ~remote', ~crashed, ~early PROVE \A g \in Handlers : Waits(sidecar'[g])
    <3>1. Waits(s)
      BY <1>2, <2>1, <2>2 DEF Waits, Approving
    <3> QED BY <1>3, <2>1, <2>2, <3>1
  <2> QED BY <1>1, <2>1, <2>2 DEF DeskInv, AwaitsRemote
<1> QED BY <1>4, <1>5, <1>6, <1>7 DEF DeskInv

LEMMA ResolveStep ==
    ASSUME DeskInv, NEW h \in Handlers, NEW r \in Requirements, NEW status \in RequirementStatuses,
           NEW given \in Answers \cup {NoAnswer}, ResolveRequirement(h, r, status, given)
    PROVE  DeskInv'
<1> DEFINE new == Resolved(file, r, status, given)
<1>1. CanResolve(file, r, status, given) /\ Prepare(h, "saving", new)
  BY DEF ResolveRequirement
<1>2. Kept(file, judged)
  BY DEF DeskInv, CopiesKept
<1>3. Kept(new, judged)
  BY <1>1, <1>2, ResolvedKept
<1>4. new.status = file.status
  BY <1>2 DEF Resolved, Kept, CourseRecords
<1> QED BY <1>1, <1>3, <1>4, PrepareStep

LEMMA ModelsStep ==
    ASSUME DeskInv, NEW h \in Handlers, NEW routes \in Routes, UpdateModels(h, routes)
    PROVE  DeskInv'
<1>1. Prepare(h, "saving", [file EXCEPT !.routes = routes])
  BY DEF UpdateModels
<1>2. Kept(file, judged)
  BY DEF DeskInv, CopiesKept
<1>3. Kept([file EXCEPT !.routes = routes], judged)
  BY <1>2, RoutesKept
<1>4. [file EXCEPT !.routes = routes].status = file.status
  BY <1>2 DEF Kept, CourseRecords
<1> QED BY <1>1, <1>3, <1>4, PrepareStep

LEMMA CheckpointStep ==
    ASSUME DeskInv, NEW h \in Handlers, NEW k \in Checkpoints, NEW status \in CheckpointStatuses,
           ResolveCheckpoint(h, k, status)
    PROVE  DeskInv'
<1>1. Prepare(h, "saving", [file EXCEPT !.checkpoints[k] = status])
  BY DEF ResolveCheckpoint
<1>2. Kept(file, judged)
  BY DEF DeskInv, CopiesKept
<1>3. Kept([file EXCEPT !.checkpoints[k] = status], judged)
  BY <1>2, CheckpointKept
<1>4. [file EXCEPT !.checkpoints[k] = status].status = file.status
  BY <1>2 DEF Kept, CourseRecords
<1> QED BY <1>1, <1>3, <1>4, PrepareStep

LEMMA PauseResumeStep ==
    ASSUME DeskInv, NEW h \in Handlers, PauseCourse(h) \/ ResumeCourse(h) PROVE DeskInv'
<1>1. Kept(file, judged)
  BY DEF DeskInv, CopiesKept
<1>2. file.status \in Underway
  BY DEF PauseCourse, ResumeCourse, Underway
<1>3. CASE PauseCourse(h)
  BY <1>1, <1>2, <1>3, PauseKept, PrepareStep DEF PauseCourse
<1>4. CASE ResumeCourse(h)
  BY <1>1, <1>2, <1>4, ResumeKept, PrepareStep DEF ResumeCourse
<1> QED BY <1>3, <1>4

LEMMA ApproveStep == ASSUME DeskInv, NEW h \in Handlers, ApproveCourse(h) PROVE DeskInv'
<1> DEFINE at == IF greenfield THEN "checking" ELSE "saving"
<1>1. Ready(file) /\ Prepare(h, at, ApprovalOf(file))
  BY DEF ApproveCourse
<1>2. Kept(ApprovalOf(file), judged) /\ judged # {}
  BY <1>1, ApprovalKept DEF DeskInv, CopiesKept
<1>3. greenfield \/ remote
  BY DEF DeskInv, AwaitsRemote
<1>4. /\ at \in {"saving", "checking"}
      /\ at = "checking" => greenfield /\ judged # {}
      /\ at = "saving" => remote
  BY <1>2, <1>3
<1> HIDE DEF at
<1> QED BY <1>1, <1>2, <1>4, PrepareStep

(* A request saves, checks, seeds or restores.                             *)
LEMMA SidecarStep ==
    ASSUME DeskInv, NEW h \in Handlers,
           SidecarSaves(h) \/ ChecksGit(h) \/ SeedsGreenfield(h) \/ RestoresCourse(h)
    PROVE  DeskInv'
<1>1. /\ git' = git /\ remote' = remote /\ git \in BOOLEAN /\ remote \in BOOLEAN
      /\ remote => git /\ (greenfield /\ remote => judged # {})
      /\ Kept(file, judged)
      /\ sidecar[h].at # "idle" => Kept(sidecar[h].new, judged)
      /\ sidecar[h].at \in Approving => Kept(sidecar[h].old, judged)
  BY DEF SidecarSaves, ChecksGit, SeedsGreenfield, RestoresCourse, DeskInv, DeskTyped, CopiesKept,
         AwaitsRemote, CreationJudged
<1>2. ~remote /\ ~crashed /\ ~early =>
         /\ Waits(sidecar[h])
         /\ (\A g \in Handlers : ~Creating(g)) => file.status \notin Underway
  BY DEF DeskInv, AwaitsRemote
<1>3. \A g \in Handlers \ {h} : sidecar'[g] = sidecar[g]
  BY DEF SidecarSaves, ChecksGit, SeedsGreenfield, RestoresCourse, Sidecar, DeskInv, DeskTyped
<1>4. ASSUME NEW at \in Places, NEW course, Sidecar(h, at, course) PROVE sidecar'[h].at = at
  BY <1>4 DEF Sidecar, DeskInv, DeskTyped, Idle
<1>5. CASE SidecarSaves(h)
  BY <1>1, <1>2, <1>5, HandlerStep DEF SidecarSaves, Waits, Places, Approving
<1>6. CASE ChecksGit(h)
  <2> DEFINE at == IF git THEN "restoring" ELSE "seeding"
  <2>1. sidecar[h].at = "checking" /\ Sidecar(h, at, file) /\ at \in Approving /\ at \in Places
        /\ at # "saving" /\ "checking" \in Approving
    BY <1>6 DEF ChecksGit, Approving, Places
  <2> HIDE DEF at
  <2>2. (\A g \in Handlers : ~Creating(g))' => \A g \in Handlers : ~Creating(g)
    BY <1>3, <2>1 DEF Creating
  <2> QED BY <1>1, <1>2, <2>1, <2>2, HandlerStep
<1>7. CASE SeedsGreenfield(h)
  <2>1. sidecar[h].at = "seeding" /\ Sidecar(h, "provisioning", sidecar[h].new)
        /\ {"provisioning", "seeding"} \subseteq Approving /\ "provisioning" \in Places
    BY <1>7 DEF SeedsGreenfield, Approving, Places
  <2>2. Creating(h)'
    BY <1>4, <2>1 DEF Creating
  <2> QED BY <1>1, <2>1, <2>2, HandlerStep
<1>8. CASE RestoresCourse(h)
  BY <1>1, <1>2, <1>8, HandlerStep DEF RestoresCourse, Waits, Places, Approving
<1> QED BY <1>5, <1>6, <1>7, <1>8

(* Creating the repository: it succeeds, or it fails at some step.         *)
LEMMA ProvisionStep ==
    ASSUME DeskInv, NEW h \in Handlers, ProvisionSucceeds(h) \/ ProvisionFails(h)
    PROVE  DeskInv'
<1>1. /\ sidecar[h].at = "provisioning" /\ Kept(file, judged) /\ greenfield /\ judged # {}
      /\ sidecar[h].at \in Approving /\ {"saving", "restoring"} \subseteq Places
      /\ git \in BOOLEAN /\ remote \in BOOLEAN /\ (remote => git) /\ "saving" \notin Approving
  BY DEF ProvisionSucceeds, ProvisionFails, DeskInv, DeskTyped, CopiesKept, CreationJudged,
         Approving, Places, AwaitsRemote
<1>2. CASE ProvisionSucceeds(h)
  BY <1>1, <1>2, HandlerStep DEF ProvisionSucceeds
<1>3. CASE ProvisionFails(h)
  <2>1. Sidecar(h, "restoring", file) /\ git' \in {git, TRUE} /\ remote' \in {remote, git'}
    BY <1>3 DEF ProvisionFails
  <2>2. git' \in BOOLEAN /\ remote' \in BOOLEAN /\ (remote' => git') /\ (remote => remote')
    <3>1. CASE git' = git
      BY <1>1, <2>1, <3>1, Zenon
    <3>2. CASE git' = TRUE
      BY <1>1, <2>1, <3>2, Zenon
    <3> QED BY <2>1, <3>1, <3>2
  <2>3. sidecar'[h].at = "restoring"
    BY <2>1 DEF Sidecar, DeskInv, DeskTyped
  <2>4. ~(\A g \in Handlers : ~Creating(g))'
    BY <2>3 DEF Creating
  <2>5. sidecar[h].at # "idle" /\ "restoring" # "saving" /\ "restoring" \in Places
    BY <1>1
  <2> QED BY <1>1, <2>1, <2>2, <2>4, <2>5, HandlerStep
<1> QED BY <1>2, <1>3

LEMMA DiesStep ==
    ASSUME DeskInv, NEW served \in SUBSET Handlers, SidecarDies(served) PROVE DeskInv'
<1>1. /\ sidecar' = [h \in Handlers |-> IF h \in served THEN Idle ELSE sidecar[h]]
      /\ crashed' = (crashed \/ \E h \in served : Creating(h))
      /\ UNCHANGED <<greenfield, file, reviewer, captain, git, remote, judged, early, edits,
                     reviews>>
  BY DEF SidecarDies
<1>2. \A h \in Handlers : sidecar'[h] = IF h \in served THEN Idle ELSE sidecar[h]
  BY <1>1
<1>3. DeskTyped'
  <2>1. crashed' \in BOOLEAN
    BY <1>1, Zenon DEF DeskInv, DeskTyped
  <2>2. \A h \in Handlers : /\ sidecar'[h].at \in Places
                            /\ sidecar'[h] = [at |-> sidecar'[h].at, new |-> sidecar'[h].new,
                                              old |-> sidecar'[h].old]
    BY <1>2 DEF DeskInv, DeskTyped, Places, Idle
  <2>3. sidecar' = [h \in Handlers |-> [at |-> sidecar'[h].at, new |-> sidecar'[h].new,
                                        old |-> sidecar'[h].old]]
    BY <1>1, <2>2
  <2> QED BY <1>1, <2>1, <2>2, <2>3 DEF DeskInv, DeskTyped
<1>4. CopiesKept'
  BY <1>1, <1>2 DEF DeskInv, CopiesKept, Idle, Approving
<1>5. CreationJudged'
  BY <1>1, <1>2 DEF DeskInv, CreationJudged, Idle, Approving
<1>6. AwaitsRemote'
  <2>1. ASSUME ~crashed' PROVE \A h \in Handlers : Creating(h) => Creating(h)'
    BY <1>1, <1>2, <2>1 DEF Creating
  <2>2. ASSUME NEW h \in Handlers, Waits(sidecar[h]) PROVE Waits(sidecar'[h])
    BY <1>2, <2>2 DEF Waits, Idle, Approving
  <2>3. ~crashed' => ~crashed
    BY <1>1
  <2> QED BY <1>1, <2>1, <2>2, <2>3 DEF DeskInv, AwaitsRemote
<1> QED BY <1>3, <1>4, <1>5, <1>6 DEF DeskInv

LEMMA ReviewStartStep ==
    ASSUME DeskInv, ReviewStarts \/ ReviewFails PROVE DeskInv'
<1>1. /\ UNCHANGED <<greenfield, file, sidecar, captain, git, remote, judged, crashed, early,
                     edits>>
      /\ \/ reviewer' = file /\ reviews < MaxReviews /\ reviews' = reviews + 1
         \/ reviewer' = None /\ reviews' = reviews
  BY DEF ReviewStarts, ReviewFails
<1>2. reviews' \in 0 .. MaxReviews
  BY <1>1, DeskBounds DEF DeskInv, DeskTyped
<1>3. DeskTyped'
  BY <1>1, <1>2 DEF DeskInv, DeskTyped
<1>4. CopiesKept'
  BY <1>1 DEF DeskInv, CopiesKept
<1>5. CreationJudged' /\ AwaitsRemote'
  BY <1>1 DEF DeskInv, CreationJudged, AwaitsRemote, Creating
<1> QED BY <1>3, <1>4, <1>5 DEF DeskInv

(* A review that ends replaces the file by the copy it was given.          *)
LEMMA ReviewEndStep ==
    ASSUME DeskInv, NEW ready \in BOOLEAN, NEW verified \in SUBSET Requirements,
           ReviewEnds(ready, verified)
    PROVE  DeskInv'
<1> DEFINE J == IF ready THEN judged \cup {Inputs(reviewer)} ELSE judged
<1>1. /\ reviewer # None /\ reviewer' = None /\ judged' = J
      /\ ValidCourse(Reviewed(reviewer, reviewer, ready, verified))
      /\ file' = Reviewed(reviewer, reviewer, ready, verified)
      /\ UNCHANGED <<greenfield, sidecar, captain, git, remote, crashed, early, edits, reviews>>
  BY DEF ReviewEnds, ReviewBase
<1>2. judged \subseteq judged'
  BY <1>1
<1>3. Kept(reviewer, judged)
  BY <1>1 DEF DeskInv, CopiesKept
<1>4. Kept(file', judged') /\ file'.status \notin Underway
  BY <1>1, <1>3, ReviewKept
<1>5. DeskTyped'
  BY <1>1 DEF DeskInv, DeskTyped
<1>6. CopiesKept'
  <2>1. \A h \in Handlers : sidecar[h].at # "idle"
           => Kept(sidecar[h].new, judged')
    BY <1>2, KeptGrows DEF DeskInv, CopiesKept
  <2>2. \A h \in Handlers : sidecar[h].at \in Approving => Kept(sidecar[h].old, judged')
    BY <1>2, KeptGrows DEF DeskInv, CopiesKept
  <2>3. captain.at = "writing" => Kept(captain.course, judged')
    BY <1>2, KeptGrows DEF DeskInv, CopiesKept
  <2> QED BY <1>1, <1>4, <2>1, <2>2, <2>3 DEF CopiesKept
<1>7. CreationJudged'
  BY <1>1, <1>2 DEF DeskInv, CreationJudged
<1>8. AwaitsRemote'
  BY <1>1, <1>4 DEF DeskInv, AwaitsRemote, Creating
<1> QED BY <1>5, <1>6, <1>7, <1>8 DEF DeskInv

(* The Captain's steps on its own copy, and the write that ends them.      *)
LEMMA CaptainStep ==
    ASSUME DeskInv, NEW at \in {"idle", "planning", "chosen", "working", "writing"},
           NEW course, NEW package, NEW next, Captain(at, course, package, next),
           remote \/ crashed \/ early \/ at = "idle",
           at \in {"chosen", "working", "writing"} => package \in Packages,
           at = "writing" => Kept(course, judged),
           Kept(file', judged),
           UNCHANGED file \/ remote \/ crashed \/ early
    PROVE  DeskInv'
<1>1. /\ captain'.at = at /\ captain'.package = package /\ captain'.course = course
      /\ UNCHANGED <<greenfield, sidecar, reviewer, git, remote, judged, crashed, early, edits,
                     reviews>>
  BY DEF Captain
<1>2. DeskTyped'
  BY <1>1 DEF DeskInv, DeskTyped
<1>3. CopiesKept'
  BY <1>1 DEF DeskInv, CopiesKept
<1>4. CreationJudged'
  BY <1>1 DEF DeskInv, CreationJudged
<1>5. AwaitsRemote'
  BY <1>1 DEF DeskInv, AwaitsRemote, Creating
<1> QED BY <1>2, <1>3, <1>4, <1>5 DEF DeskInv

LEMMA PlanningStep ==
    ASSUME DeskInv, CycleStarts \/ CaptainStops \/ \E p \in Packages : PlanSelects(p)
    PROVE  DeskInv'
<1>1. Kept(file, judged)
  BY DEF DeskInv, CopiesKept
<1>2. CASE CycleStarts
  BY <1>1, <1>2, CaptainStep DEF CycleStarts
<1>3. CASE CaptainStops
  BY <1>1, <1>3, CaptainStep DEF CaptainStops
<1>4. ASSUME NEW p \in Packages, PlanSelects(p) PROVE DeskInv'
  <2>1. remote \/ crashed \/ early
    BY <1>4 DEF PlanSelects, DeskInv, AwaitsRemote
  <2> QED BY <1>1, <1>4, <2>1, CaptainStep DEF PlanSelects
<1> QED BY <1>2, <1>3, <1>4

LEMMA PackageStep ==
    ASSUME DeskInv, WritesPackage \/ \E s \in PackageStatuses : LoadsPackage(s)
    PROVE  DeskInv'
<1>1. Kept(file, judged)
  BY DEF DeskInv, CopiesKept
<1>2. captain.at # "idle" /\ captain.package \in Packages /\ (remote \/ crashed \/ early)
  BY DEF WritesPackage, LoadsPackage, DeskInv, DeskTyped, AwaitsRemote
<1>3. CASE WritesPackage
  <2>1. file' = captain.course /\ Kept(captain.course, judged)
    BY <1>3 DEF WritesPackage, DeskInv, CopiesKept
  <2>2. CASE captain.next = "complete"
    BY <1>2, <1>3, <2>1, <2>2, CaptainStep DEF WritesPackage
  <2>3. CASE captain.next # "complete"
    BY <1>2, <1>3, <2>1, <2>3, CaptainStep DEF WritesPackage
  <2> QED BY <2>2, <2>3
<1>4. ASSUME NEW s \in PackageStatuses, LoadsPackage(s) PROVE DeskInv'
  <2>1. Kept(PackageSet(file, captain.package, s), judged)
    BY <1>1, <1>2, <1>4, PackageKept DEF LoadsPackage
  <2> QED BY <1>1, <1>2, <1>4, <2>1, CaptainStep DEF LoadsPackage
<1> QED BY <1>3, <1>4

LEMMA StepKeeps == DeskInv /\ [CourseDeskNext]_vars => DeskInv'
<1> SUFFICES ASSUME DeskInv, [CourseDeskNext]_vars PROVE DeskInv'
  OBVIOUS
<1>1. CASE UNCHANGED vars
  BY <1>1 DEF vars, DeskInv, DeskTyped, CopiesKept, CreationJudged, AwaitsRemote, Creating
<1>2. ASSUME NEW h \in Handlers, Request(h) \/ Serving(h) PROVE DeskInv'
  BY <1>2, ResolveStep, ModelsStep, CheckpointStep, PauseResumeStep, ApproveStep, SidecarStep,
     ProvisionStep DEF Request, Serving
<1>3. CASE CourseDeskNext
  BY <1>2, <1>3, DiesStep, ReviewStartStep, ReviewEndStep, PlanningStep, PackageStep
     DEF CourseDeskNext
<1> QED BY <1>1, <1>3

(* The invariant holds of every reachable state, however many requests are *)
(* served at once: what the file may become is as good as what it is; and  *)
(* before a greenfield repository exists no copy but the one being seeded  *)
(* is engaged, unless a request died while it created the repository or    *)
(* loaded the course as it was seeded.                                     *)
THEOREM DeskInvariant == CourseDeskSpec => []DeskInv
BY InitEstablishes, StepKeeps, PTL DEF CourseDeskSpec

----------------------------------------------------------------------------
(* The properties.                                                         *)

(* The course on disk is always one that the code can load, and the        *)
(* writers' states are typed.                                              *)
THEOREM CourseTypeCorrect == CourseDeskSpec => []CourseTypeOK
<1>1. DeskInv => CourseTypeOK
  BY DEF DeskInv, DeskTyped, CopiesKept, Kept, CourseTypeOK, Places, Approving
<1> QED BY <1>1, DeskInvariant, PTL

(* An engaged or paused course, a started package and a created repository *)
(* all go back to inputs that a review judged ready and the owner approved *)
(* after it, for every number of handlers, edits, reviews and packages.    *)
THEOREM NothingBeforeReview == CourseDeskSpec => []WorkWasJudged
<1>1. DeskInv => WorkWasJudged
  BY DEF DeskInv, CopiesKept, Kept, Judged, CreationJudged, WorkWasJudged
<1> QED BY <1>1, DeskInvariant, PTL

(* Evidence is never attached to an answer that it is not about, however   *)
(* reviews and answers write over each other.                              *)
THEOREM EvidenceIsOfTheAnswer == CourseDeskSpec => []VerifiedAsAnswered
<1>1. DeskInv => VerifiedAsAnswered
  BY DEF DeskInv, CopiesKept, Kept, EvidenceMatches, VerifiedAsAnswered
<1> QED BY <1>1, DeskInvariant, PTL

(* A greenfield course that is engaged while no request is creating its    *)
(* repository has that repository, for every number of requests at once,   *)
(* unless one died between the seed and the end of the creation or loaded  *)
(* the course in between.                                                  *)
THEOREM EngagedIsCreated == CourseDeskSpec => []EngagedHasRemote
<1>1. DeskInv => EngagedHasRemote
  BY DEF DeskInv, AwaitsRemote, Underway, EngagedHasRemote
<1> QED BY <1>1, DeskInvariant, PTL
=============================================================================
