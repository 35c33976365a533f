----------------------------- MODULE CourseDesk -----------------------------
(***************************************************************************)
(* Who reads and writes the course file of a repository: the requests that *)
(* the sidecar serves for the owner's dashboard, an independent readiness  *)
(* review, and the Captain.  Each loads the whole file, works on its copy  *)
(* and replaces the whole file.  The replacement is atomic (a temporary    *)
(* file and os.replace), nothing else is: no lock is taken around a load   *)
(* and the save that follows, so every one of them may write over          *)
(* another's change and the properties are about what nevertheless holds.  *)
(*                                                                         *)
(* The sidecar's own loop serves one request after the other, but the UI   *)
(* server calls the same sidecar from a thread per HTTP request, so any    *)
(* number of requests may be under way; each has a handler here.  Creating *)
(* a greenfield repository is part of the request that approves a course.  *)
(***************************************************************************)
EXTENDS Courses

CONSTANTS Handlers,     \* what serves a request: the sidecar's loop, a thread of
                        \* the UI server
          Greenfield,   \* whether the course may create its repository
          MaxEdits,     \* operations of the sidecar (bounds a behaviour)
          MaxReviews    \* readiness reviews (bounds a behaviour)

ASSUME DeskBounds == MaxEdits \in Nat /\ MaxReviews \in Nat /\ Greenfield \subseteq BOOLEAN

VARIABLES greenfield,   \* the kind of the course (constant)
          file,         \* the course file
          sidecar,      \* per handler, how far its request is and what it is about
                        \* to write
          reviewer,     \* the course that a running review was given
          captain,      \* the Captain's plan or work, and what it is about to write
          git,          \* whether the local path holds a Git repository
          remote,       \* whether the repository exists on GitHub
          judged,       \* inputs that a review judged ready (history)
          crashed,      \* whether a request died while it created the repository
                        \* (history)
          early,        \* whether a request loaded the course approved before its
                        \* repository existed (history)
          edits, reviews

vars == <<greenfield, file, sidecar, reviewer, captain, git, remote, judged, crashed,
          early, edits, reviews>>

Idle == [at |-> "idle", new |-> None, old |-> None]
Resting == [at |-> "idle", course |-> None, package |-> None, next |-> None]

CourseDeskInit ==
    /\ greenfield \in Greenfield
    /\ file \in NewCourses /\ sidecar = [h \in Handlers |-> Idle]
    /\ reviewer = None /\ captain = Resting
    /\ git = ~greenfield /\ remote = ~greenfield
    /\ judged = {} /\ crashed = FALSE /\ early = FALSE /\ edits = 0 /\ reviews = 0

----------------------------------------------------------------------------
(* The sidecar, by handler.                                                *)

Underway == {"engaged", "paused"}

(* A request loads the course and prepares the next version of it; the     *)
(* approval that creates a repository also keeps what it loaded.           *)
Previous(at) == IF at = "checking" THEN file ELSE None
Prepare(h, at, new) ==
    /\ sidecar[h].at = "idle" /\ edits < MaxEdits
    /\ sidecar' = [sidecar EXCEPT ![h] = [at |-> at, new |-> new, old |-> Previous(at)]]
    /\ early' = (early \/ (~remote /\ file.status \in Underway))
    /\ edits' = edits + 1
    /\ UNCHANGED <<greenfield, file, reviewer, captain, git, remote, judged, crashed, reviews>>

(* course.requirement                                                      *)
ResolveRequirement(h, r, status, given) ==
    /\ CanResolve(file, r, status, given)
    /\ Prepare(h, "saving", Resolved(file, r, status, given))

(* course.models: accepted whatever the status of the course.              *)
UpdateModels(h, routes) ==
    /\ routes # file.routes
    /\ Prepare(h, "saving", [file EXCEPT !.routes = routes])

(* course.checkpoint                                                       *)
ResolveCheckpoint(h, k, status) ==
    /\ status # file.checkpoints[k]
    /\ Prepare(h, "saving", [file EXCEPT !.checkpoints[k] = status])

(* course.pause and course.resume                                          *)
PauseCourse(h) ==
    /\ file.status = "engaged"
    /\ Prepare(h, "saving", [file EXCEPT !.status = "paused"])

ResumeCourse(h) ==
    /\ file.status = "paused" /\ Approved(file)
    /\ Prepare(h, "saving", [file EXCEPT !.status = "engaged"])

(* course.approve: whatever the status, if the readiness report allows it. *)
ApproveCourse(h) ==
    /\ Ready(file)
    /\ Prepare(h, IF greenfield THEN "checking" ELSE "saving", ApprovalOf(file))

Sidecar(h, at, course) ==
    /\ sidecar' = [sidecar EXCEPT ![h] = IF at = "idle" THEN Idle ELSE [@ EXCEPT !.at = at]]
    /\ file' = course
    /\ UNCHANGED <<greenfield, reviewer, captain, judged, crashed, early, edits, reviews>>

SidecarSaves(h) ==
    /\ sidecar[h].at = "saving" /\ Sidecar(h, "idle", sidecar[h].new)
    /\ UNCHANGED <<git, remote>>

(* _seed_greenfield: a course is seeded only where there is no Git         *)
(* repository yet; where there is one, the request fails,                  *)
ChecksGit(h) ==
    /\ sidecar[h].at = "checking" /\ Sidecar(h, IF git THEN "restoring" ELSE "seeding", file)
    /\ UNCHANGED <<git, remote>>

(* and it saves the approved course before anything is created.            *)
SeedsGreenfield(h) ==
    /\ sidecar[h].at = "seeding" /\ Sidecar(h, "provisioning", sidecar[h].new)
    /\ UNCHANGED <<git, remote>>

(* provision_greenfield: git init and commit, gh repo create, gh repo      *)
(* view.  Each of them may be the one that fails.                          *)
ProvisionSucceeds(h) ==
    /\ sidecar[h].at = "provisioning" /\ ~remote
    /\ git' = TRUE /\ remote' = TRUE /\ Sidecar(h, "saving", file)

ProvisionFails(h) ==
    /\ sidecar[h].at = "provisioning"
    /\ git' \in {git, TRUE} /\ remote' \in {remote, git'}
    /\ Sidecar(h, "restoring", file)

(* A failed approval saves the course as the request loaded it.            *)
ForgetsToRestore(h) ==
    /\ sidecar[h].at = "restoring" /\ Sidecar(h, "idle", file)
    /\ UNCHANGED <<git, remote>>
RestoresCourse(h) ==
    /\ sidecar[h].at = "restoring" /\ Sidecar(h, "idle", sidecar[h].old)
    /\ UNCHANGED <<git, remote>>

(* A process dies, with the requests that it serves.                       *)
Creating(h) == sidecar[h].at \in {"provisioning", "restoring"}
SidecarDies(served) ==
    /\ \A h \in served : sidecar[h].at # "idle"
    /\ sidecar' = [h \in Handlers |-> IF h \in served THEN Idle ELSE sidecar[h]]
    /\ crashed' = (crashed \/ \E h \in served : Creating(h))
    /\ UNCHANGED <<greenfield, file, reviewer, captain, git, remote, judged, early, edits, reviews>>

----------------------------------------------------------------------------
(* The readiness review: one model call between its load and its save.     *)

ReviewStarts ==
    /\ reviewer = None /\ reviews < MaxReviews
    /\ reviewer' = file /\ reviews' = reviews + 1
    /\ UNCHANGED <<greenfield, file, sidecar, captain, git, remote, judged, crashed, early, edits>>

(* The review's answer is applied to the course that it was given.         *)
LatestFile == file
ReviewBase == reviewer

ReviewEnds(ready, verified) ==
    /\ reviewer # None /\ CanReview(reviewer, ready, verified)
    /\ LET new == Reviewed(ReviewBase, reviewer, ready, verified)
       IN  ValidCourse(new) /\ file' = new
    /\ judged' = IF ready THEN judged \cup {Inputs(reviewer)} ELSE judged
    /\ reviewer' = None
    /\ UNCHANGED <<greenfield, sidecar, captain, git, remote, crashed, early, edits, reviews>>

(* The model call fails, or its answer does not fit the course.            *)
ReviewFails ==
    /\ reviewer # None /\ reviewer' = None
    /\ UNCHANGED <<greenfield, file, sidecar, captain, git, remote, judged, crashed, early,
                   edits, reviews>>

----------------------------------------------------------------------------
(* The Captain, one cycle at a time under the repository lease.            *)

Captain(at, course, package, next) ==
    /\ captain' = [at |-> at, course |-> course, package |-> package, next |-> next]
    /\ UNCHANGED <<greenfield, sidecar, reviewer, git, remote, judged, crashed, early, edits,
                   reviews>>

(* _course_context: only an engaged course lets a cycle go on; the cycle   *)
(* then needs a snapshot of the repository and plans from the course that  *)
(* it read at its start.                                                   *)
CycleStarts ==
    /\ captain.at = "idle" /\ file.status = "engaged" /\ remote
    /\ Captain("planning", file, None, None) /\ UNCHANGED file

(* The packages that a plan may choose: the engine names none as completed.*)
Choosable(c) == Eligible(c, {})

PlanSelects(p) ==
    /\ captain.at = "planning" /\ p \in Choosable(captain.course)
    /\ Captain("chosen", None, p, None) /\ UNCHANGED file

(* Nothing to do, a refused package, an approval that went stale, work     *)
(* that failed or was given up.                                            *)
CaptainStops ==
    /\ captain.at \in {"planning", "chosen", "working"}
    /\ Captain("idle", None, None, None) /\ UNCHANGED file

(* _set_course_package_status: loads the file again, which must be         *)
(* engaged, changes the one package and saves.                             *)
NextStatuses == IF captain.at = "chosen" THEN {"executing"} ELSE {"reviewing", "complete"}

LoadsPackage(status) ==
    /\ captain.at \in {"chosen", "working"} /\ status \in NextStatuses
    /\ file.status = "engaged"
    /\ Captain("writing", PackageSet(file, captain.package, status), captain.package, status)
    /\ UNCHANGED file

WritesPackage ==
    /\ captain.at = "writing"
    /\ file' = captain.course
    /\ IF captain.next = "complete" THEN Captain("idle", None, None, None)
       ELSE Captain("working", None, captain.package, None)

Request(h) ==
    \/ \E r \in Requirements, s \in RequirementStatuses, a \in Answers \cup {NoAnswer} :
         ResolveRequirement(h, r, s, a)
    \/ \E x \in Routes : UpdateModels(h, x)
    \/ \E k \in Checkpoints, s \in CheckpointStatuses : ResolveCheckpoint(h, k, s)
    \/ PauseCourse(h) \/ ResumeCourse(h) \/ ApproveCourse(h)

Serving(h) ==
    \/ SidecarSaves(h) \/ ChecksGit(h) \/ SeedsGreenfield(h)
    \/ ProvisionSucceeds(h) \/ ProvisionFails(h) \/ RestoresCourse(h)

CourseDeskNext ==
    \/ \E h \in Handlers : Request(h) \/ Serving(h)
    \/ \E served \in SUBSET Handlers \ {{}} : SidecarDies(served)
    \/ ReviewStarts \/ ReviewFails
    \/ \E ready \in BOOLEAN, verified \in SUBSET Requirements : ReviewEnds(ready, verified)
    \/ CycleStarts \/ CaptainStops \/ WritesPackage
    \/ \E p \in Packages : PlanSelects(p)
    \/ \E s \in PackageStatuses : LoadsPackage(s)

CourseDeskSpec == CourseDeskInit /\ [][CourseDeskNext]_vars

----------------------------------------------------------------------------
CourseRecords ==
    [status : CourseStatuses,
     readiness : [Requirements -> [status : RequirementStatuses,
                                   answer : Answers \cup {NoAnswer},
                                   evidence : Answers \cup {NoAnswer}]],
     routes : Routes,
     review : [inputs : {None} \cup InputRecords, ready : BOOLEAN],
     packages : [Packages -> PackageStatuses],
     checkpoints : [Checkpoints -> CheckpointStatuses],
     approval : {None} \cup InputRecords]

(* Type correctness, and that the course on disk can be loaded.            *)
CourseTypeOK ==
    /\ greenfield \in BOOLEAN /\ git \in BOOLEAN /\ remote \in BOOLEAN
    /\ crashed \in BOOLEAN /\ early \in BOOLEAN
    /\ file \in CourseRecords /\ ValidCourse(file)
    /\ reviewer = None \/ reviewer \in CourseRecords
    /\ captain.at \in {"idle", "planning", "chosen", "working", "writing"}
    /\ DOMAIN sidecar = Handlers
    /\ \A h \in Handlers : sidecar[h].at \in {"idle", "saving", "checking", "seeding",
                                              "provisioning", "restoring"}
    /\ edits \in 0 .. MaxEdits /\ reviews \in 0 .. MaxReviews

(* Nothing happens before a reviewed approval: while the course is engaged *)
(* or paused, once a package was started and once the repository was       *)
(* created, the inputs that the owner approved were judged ready by an     *)
(* independent review -- exactly those inputs, whatever was answered,      *)
(* rerouted or written over while the review was running.                  *)
Started(c) == {p \in Packages : c.packages[p] # "planned"}
WorkWasJudged ==
    /\ file.status \in {"engaged", "paused"} \/ Started(file) # {} => file.approval \in judged
    /\ greenfield /\ remote => judged # {}

(* A requirement never counts as verified with another answer than the one *)
(* that its evidence is about.                                             *)
VerifiedAsAnswered ==
    \A r \in Requirements :
       file.readiness[r].status = "verified"
          => file.readiness[r].evidence = file.readiness[r].answer

(* A greenfield course that is engaged has its repository once no request  *)
(* is creating it: a creation that fails puts the unengaged course back,   *)
(* whatever review, other approval or older request wrote meanwhile.  Two  *)
(* things break that, and only they do: a request that died between the    *)
(* seed and the end of the creation, and one that loaded the course as it  *)
(* was seeded -- a thread of the UI server is not kept from that -- and    *)
(* saves its copy after the failed creation has put the old one back.      *)
EngagedHasRemote ==
    /\ \A h \in Handlers : ~Creating(h)
    /\ file.status = "engaged" /\ ~crashed /\ ~early
    => remote

(* A package whose dependencies are complete and whose checkpoints are     *)
(* passed can be chosen.                                                   *)
DependentsGoOn == Eligible(file, Completed(file)) \subseteq Choosable(file)
=============================================================================
