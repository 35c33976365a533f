--------------------------- MODULE DeliveryCycle ---------------------------
(***************************************************************************)
(* One repository's delivery in the direct runtime: the run-state machine, *)
(* the event log and the active work of state.py, and the engine's cycle   *)
(* and watch over them, from a planned action to a merged and verified     *)
(* pull request.                                                           *)
(*                                                                         *)
(* A pass runs under the repository lease, so there is one at a time.  It  *)
(* reads the store and GitHub, decides, and then works through a script of *)
(* steps: durable writes (each its own transaction), GitHub calls, and     *)
(* questions to models or workers, whose answers replace the rest of the   *)
(* script.  Between any two steps GitHub may change or the process die.    *)
(*                                                                         *)
(* Fingerprints are abstracted to whether the evidence they cover is still *)
(* what it was: pass.same for the evidence the pass read, last.same for    *)
(* the evidence under the last operational event.  The mode is autonomous, *)
(* with no course and no pending approval.                                 *)
(***************************************************************************)
EXTENDS Integers, Sequences

CONSTANTS MaxPR,        \* pull requests a behaviour may open
          MaxHead,      \* heads pushed to one pull request after the first
          MaxTrouble,   \* disturbances of a behaviour: see the variable trouble
          EventWindow,  \* events among which a merge is looked for (30 in the code)
          Policies,     \* completion policies considered
          Answers       \* answers of models, workers and GitHub considered

PR == 1 .. MaxPR

ASSUME BoundsAreSane == /\ MaxPR \in Nat /\ MaxHead \in Nat /\ MaxTrouble \in Nat
                        /\ EventWindow \in Nat \ {0}
ASSUME PoliciesAreSane == Policies \subseteq {"auto_merge", "owner_approval"}

VARIABLES state,        \* repo_state: the run state
          last,         \* latest_operational_event: kind, state, same evidence
          log,          \* the PR_MERGED events: see Events below
          active,       \* active_work: pull request (0: no row) and status
          pr,           \* pull requests on GitHub
          main,         \* the commits of the default branch: see Commits below
          pass,         \* what the running pass knows
          todo,         \* the steps it still has to take
          policy,       \* completion_policy of the repository
          trouble,      \* how often other people pushed, merged or commented, a
                        \* pass crashed or a call failed, a notification failed
          waited,       \* (history) event of the last review, while no fact is new
          merges,       \* (history) merge calls that GitHub carried out
          verdict       \* (history) outcome of the verification of each merge

store == <<state, last, log, active>>
github == <<pr, main>>
history == <<waited, merges, verdict>>
vars == <<store, github, pass, todo, policy, trouble, history>>

----------------------------------------------------------------------------
(* The run-state machine.                                                  *)

RunStates == {"READY", "PLANNING", "EXECUTING", "PR_OPEN", "REVIEWING", "REPAIRING",
              "COMPLETION_READY", "MERGED", "POST_MERGE_VERIFICATION", "BLOCKED",
              "DEGRADED"}
InDelivery == {"PR_OPEN", "REVIEWING", "REPAIRING", "COMPLETION_READY"}
Stops == {"BLOCKED", "DEGRADED"}

Allowed ==
  [READY |-> {"PLANNING", "PR_OPEN"} \cup Stops,
   PLANNING |-> {"READY", "EXECUTING"} \cup Stops,
   EXECUTING |-> {"PR_OPEN", "READY"} \cup Stops,
   PR_OPEN |-> {"PLANNING", "REVIEWING", "REPAIRING"} \cup Stops,
   REVIEWING |-> {"PLANNING", "PR_OPEN", "REPAIRING", "COMPLETION_READY"} \cup Stops,
   REPAIRING |-> {"PLANNING", "PR_OPEN", "REVIEWING"} \cup Stops,
   COMPLETION_READY |-> {"PLANNING", "PR_OPEN", "REVIEWING", "MERGED", "READY"} \cup Stops,
   MERGED |-> {"POST_MERGE_VERIFICATION", "DEGRADED"},
   POST_MERGE_VERIFICATION |-> {"PLANNING", "READY"} \cup Stops,
   BLOCKED |-> {"PLANNING", "PR_OPEN", "REVIEWING", "REPAIRING", "READY", "DEGRADED"},
   DEGRADED |-> {"PLANNING", "EXECUTING", "PR_OPEN", "READY", "BLOCKED"}]

CanMove(to) == to = state \/ to \in Allowed[state]

(* Steps of a script.  keyed: the event stores the fingerprint of the      *)
(* evidence the pass read.                                                 *)
Do(what, arg, kind, keyed) == [do |-> what, arg |-> arg, kind |-> kind, keyed |-> keyed]
Move(to) == Do("move", to, "", FALSE)
Mark(status) == Do("mark", status, "", FALSE)
Ask(whom) == Do(whom, "", "", FALSE)
Call(what) == Do(what, "", "", FALSE)

(* _emit: transition, record_event, send.  Its transition also stands for  *)
(* an explicit one to the same state that some callers make just before.   *)
Emit(to, kind, keyed) == <<Move(to), Do("event", to, kind, keyed), Call("notify")>>

Calls == {"create", "push", "ready", "comment", "merge", "sha"}
Asks == {"plan", "issue", "coder", "review", "final", "repair"}

NoPass == [ctx |-> "none", pr |-> 0, head |-> 0, sha |-> 0, same |-> FALSE,
           still |-> FALSE, retry |-> FALSE]
NoWork == [pr |-> 0, status |-> "none"]

Disturb(what) ==
  /\ trouble.others + trouble.mishaps + trouble.unsent < MaxTrouble
  /\ trouble' = [trouble EXCEPT ![what] = @ + 1]

Open(p) == pr[p].st \in {"draft", "ready"}

Init == /\ state = "READY"
        /\ last = [kind |-> "BASELINE_READY", st |-> "READY", same |-> FALSE]
        /\ log = [of |-> 0, sha |-> [p \in PR |-> 0], newer |-> [p \in PR |-> 0]]
        /\ active = NoWork
        /\ pr = [p \in PR |-> [st |-> "none", head |-> 0, gate |-> "pending"]]
        /\ main = <<[pr |-> 0, runs |-> "passed"]>>
        /\ pass = NoPass /\ todo = <<>>
        /\ policy \in Policies
        /\ trouble = [others |-> 0, mishaps |-> 0, unsent |-> 0]
        /\ waited = "none"
        /\ merges = [p \in PR |-> 0] /\ verdict = [p \in PR |-> "none"]

----------------------------------------------------------------------------
(* What a pass decides to do from what it reads.                           *)

(* A mutant: it does not look beneath.                                     *)
EffectiveAsStored == state

(* A notification failure hides beneath it the state of the last event.    *)
Effective == IF state = "DEGRADED" THEN last.st ELSE state

(* requires_owner_attention.                                               *)
OwnerEvents == {"APPROVAL_REQUIRED", "ATTENTION_REQUIRED"}

(* The newest PR_MERGED event, if it is among the newest events, and what   *)
(* the workflow runs of the commit that it names have come to.             *)
MergeSeen == log.of # 0 /\ log.newer[log.of] < EventWindow
Runs == main[log.sha[log.of]].runs

(* Mutants: no failed run is taken for success; waiting is noted once,     *)
(* whatever is reported afterwards.                                        *)
VerifyUnlessFailed ==
  IF ~MergeSeen THEN Emit("DEGRADED", "POST_MERGE_EVIDENCE_MISSING", FALSE)
  ELSE IF Runs = "failed" THEN Emit("DEGRADED", "POST_MERGE_FAILED", TRUE)
  ELSE Emit("READY", "POST_MERGE_VERIFIED", TRUE)

VerifyNotedOnce ==
  IF last.kind = "POST_MERGE_WAITING" THEN <<>>
  ELSE IF MergeSeen /\ Runs = "running"
       THEN Emit("POST_MERGE_VERIFICATION", "POST_MERGE_WAITING", TRUE)
  ELSE VerifyUnlessFailed

(* _verify_post_merge.                                                     *)
VerifyScript ==
  IF ~MergeSeen THEN Emit("DEGRADED", "POST_MERGE_EVIDENCE_MISSING", FALSE)
  ELSE IF Runs = "failed" THEN Emit("DEGRADED", "POST_MERGE_FAILED", TRUE)
  ELSE IF Runs = "passed" THEN Emit("READY", "POST_MERGE_VERIFIED", TRUE)
  ELSE IF last.kind = "POST_MERGE_WAITING" /\ last.same THEN <<>>
  ELSE Emit("POST_MERGE_VERIFICATION", "POST_MERGE_WAITING", TRUE)

ChecksGreen(p) == pr[p].gate \in {"held", "clean"}

(* A mutant: only a review that found the pull request ready is reused.    *)
ReusedWhenReady == /\ active.status = "completion_ready"
                   /\ last.kind = "COMPLETION_READY"
                   /\ last.same

ReviewReused == /\ active.status \in {"pr_open", "completion_ready"}
                /\ last.kind \in {"REVIEW_WAITING", "COMPLETION_READY"}
                /\ last.same

ActiveScript ==
  IF active.status = "repair_requested" \/ state = "REPAIRING"
  THEN <<Move("REPAIRING"), Call("read"), Ask("repair")>>
  ELSE IF ~ChecksGreen(active.pr)
       THEN <<Mark("pr_open")>> \o IF last.kind = "PR_CHECKS_WAITING" /\ last.same
                                   THEN <<>>
                                   ELSE Emit("PR_OPEN", "PR_CHECKS_WAITING", TRUE)
  ELSE IF ReviewReused THEN <<>>
  ELSE <<Move("REVIEWING"), Call("read"), Ask("review")>>

RepeatStalls == {"EXECUTION_FAILED", "PLANNING_FAILED", "APPROVAL_REQUIRED", "ACTION_BLOCKED"}

PlanScript ==
  IF ~last.same THEN <<Move("PLANNING"), Ask("plan")>>
  ELSE IF last.kind = "ISSUE_FAILED" THEN <<Move("EXECUTING"), Ask("issue")>>
  ELSE IF last.kind = "STALLED" THEN <<>>
  ELSE IF last.kind \in RepeatStalls THEN Emit("DEGRADED", "STALLED", TRUE)
  ELSE <<Move("PLANNING"), Ask("plan")>>

NoContext == Emit("DEGRADED", "PLANNING_CONTEXT_UNAVAILABLE", FALSE)

CycleScripts ==
  IF Effective = "POST_MERGE_VERIFICATION" THEN {VerifyScript}
  ELSE IF Effective \in InDelivery /\ active # NoWork THEN {ActiveScript}
  ELSE IF Effective = "BLOCKED" /\ last.kind \in OwnerEvents
       THEN {Emit("BLOCKED", "ATTENTION_REQUIRED", last.same)}
  ELSE {PlanScript} \cup (IF "noContext" \in Answers THEN {NoContext} ELSE {})

WatchScripts ==
  IF state = "POST_MERGE_VERIFICATION" THEN {VerifyScript}
  ELSE IF state \in InDelivery \ {"REVIEWING"} /\ active # NoWork THEN {ActiveScript}
  ELSE {}

Begin(scripts) ==
  /\ pass = NoPass
  /\ \E script \in scripts \ {<<>>} :
       /\ todo' = script
       /\ pass' = [ctx |-> IF script[1] = Move("EXECUTING") THEN "execute" ELSE "bare",
                   pr |-> active.pr, head |-> 0, sha |-> 0, same |-> TRUE,
                   still |-> TRUE, retry |-> FALSE]
  /\ UNCHANGED <<store, github, policy, trouble, history>>

Cycle == Begin(CycleScripts)
Watch == Begin(WatchScripts)

----------------------------------------------------------------------------
(* How a pass goes through its script.                                     *)

Doing(what) == todo # <<>> /\ todo[1].do = what

Then(script, p) == /\ todo' = script
                   /\ pass' = IF script = <<>> THEN NoPass ELSE p
Done == Then(Tail(todo), pass)

(* Evidence that the running pass or the last event relies on has changed. *)
Stale(e) == [e EXCEPT !.same = FALSE]

(* An exception inside _execute becomes EXECUTION_FAILED; anywhere else it *)
(* ends the pass where it is.                                              *)
FailureKind == IF pass.retry THEN "ISSUE_FAILED" ELSE "EXECUTION_FAILED"
AfterRaise(p) == IF p.ctx = "execute"
                 THEN Then(Emit("DEGRADED", FailureKind, TRUE), [p EXCEPT !.ctx = "bare"])
                 ELSE Then(<<>>, p)
Raise == AfterRaise(pass)

DoMove == /\ Doing("move") /\ CanMove(todo[1].arg)
          /\ state' = todo[1].arg
          /\ Done
          /\ UNCHANGED <<last, log, active, github, policy, trouble, history>>

(* transition raises ValueError: nothing is written.                       *)
MoveRefused == /\ Doing("move") /\ ~CanMove(todo[1].arg)
               /\ Raise
               /\ UNCHANGED <<store, github, policy, trouble, history>>

Outcome(kind) == IF kind = "POST_MERGE_VERIFIED" THEN "verified"
                 ELSE IF kind = "POST_MERGE_FAILED" THEN "failed" ELSE "none"

(* A new event makes those of the log older.                               *)
Older == [p \in PR |-> IF log.sha[p] = 0 \/ log.newer[p] = EventWindow THEN log.newer[p]
                       ELSE log.newer[p] + 1]

Logged(kind) == IF kind = "PR_MERGED"
                THEN [of |-> pass.pr, sha |-> [log.sha EXCEPT ![pass.pr] = pass.sha],
                      newer |-> [Older EXCEPT ![pass.pr] = 0]]
                ELSE [log EXCEPT !.newer = Older]

RecordEvent ==
  /\ Doing("event")
  /\ LET e == todo[1] IN
       /\ last' = [kind |-> e.kind, st |-> e.arg, same |-> e.keyed /\ pass.same]
       /\ log' = Logged(e.kind)
       /\ waited' = IF e.kind \in {"REVIEW_WAITING", "COMPLETION_READY"} /\ pass.still
                    THEN e.kind ELSE waited
       /\ verdict' = IF Outcome(e.kind) = "none" THEN verdict
                     ELSE [verdict EXCEPT ![log.of] = Outcome(e.kind)]
  /\ Done
  /\ UNCHANGED <<state, active, github, policy, trouble, merges>>

Sent == /\ Doing("notify")
        /\ Done
        /\ UNCHANGED <<store, github, policy, trouble, history>>

(* record_notification_failure: DEGRADED, and an event that is not         *)
(* operational; then the error is raised again.                            *)
Unsent == /\ Doing("notify")
          /\ Disturb("unsent")
          /\ state' = "DEGRADED" /\ log' = Logged("NOTIFICATION_FAILED")
          /\ Raise
          /\ UNCHANGED <<last, active, github, policy, history>>

(* A mutant: the row keeps the number that the pass began with.            *)
SavedAsRead == [pr |-> active.pr, status |-> "pr_open"]

(* save_active_work, update_active_work (a no-op without a row), clear.    *)
Saved == [pr |-> pass.pr, status |-> "pr_open"]
Marked == IF active = NoWork THEN NoWork ELSE [active EXCEPT !.status = todo[1].arg]

WriteActive == /\ \/ Doing("save") /\ active' = Saved
                  \/ Doing("mark") /\ active' = Marked
                  \/ Doing("clear") /\ active' = NoWork
               /\ Done
               /\ UNCHANGED <<state, last, log, github, policy, trouble, history>>

----------------------------------------------------------------------------
(* GitHub calls of a pass.                                                 *)

(* A fact on GitHub: every fingerprint taken before it is out of date.     *)
Fact(script, p) == /\ Then(script, [Stale(p) EXCEPT !.still = FALSE])
                   /\ last' = Stale(last)
                   /\ waited' = "none"

Unused == {p \in PR : pr[p].st = "none"}

CreatePR == /\ Doing("create")
            /\ \E p \in Unused :
                 /\ \A q \in Unused : p <= q
                 /\ pr' = [pr EXCEPT ![p].st = "draft"]
                 /\ Fact(Tail(todo), [pass EXCEPT !.pr = p])
            /\ UNCHANGED <<state, log, active, main, policy, trouble, merges, verdict>>

NewHead(r) == [r EXCEPT !.head = @ + 1, !.gate = "pending"]

(* Not a forced push: it is rejected once the branch has moved on.         *)
BranchMoved == Open(pass.pr) /\ pr[pass.pr].head # pass.head

Push == /\ Doing("push") /\ ~BranchMoved
        /\ pr' = IF Open(pass.pr) THEN [pr EXCEPT ![pass.pr] = NewHead(@)] ELSE pr
        /\ Fact(Tail(todo), pass)
        /\ UNCHANGED <<state, log, active, main, policy, trouble, merges, verdict>>

MarkReady == /\ Doing("ready")
             /\ pr' = IF pr[pass.pr].st = "draft" THEN [pr EXCEPT ![pass.pr].st = "ready"] ELSE pr
             /\ Fact(Tail(todo), pass)
             /\ UNCHANGED <<state, log, active, main, policy, trouble, merges, verdict>>

(* A comment changes updatedAt, which the snapshot's fingerprint covers.   *)
Comment == /\ Doing("comment")
           /\ Then(Tail(todo), Stale(pass))
           /\ last' = Stale(last)
           /\ UNCHANGED <<state, log, active, github, policy, trouble, history>>

(* A commit on the default branch, of a pull request or (0) pushed to it.  *)
Landed(p) == Append(main, [pr |-> p, runs |-> "running"])

(* gh pr merge merges whatever the head is now; merging twice is accepted. *)
Merge == /\ Doing("merge") /\ pr[pass.pr].st # "draft"
         /\ pr' = [pr EXCEPT ![pass.pr].st = "merged"]
         /\ main' = IF pr[pass.pr].st = "merged" THEN main ELSE Landed(pass.pr)
         /\ merges' = [merges EXCEPT ![pass.pr] = @ + 1]
         /\ Fact(Tail(todo), pass)
         /\ UNCHANGED <<state, log, active, policy, trouble, verdict>>

PushRejected == /\ Doing("push") /\ BranchMoved
                /\ Raise
                /\ UNCHANGED <<store, github, policy, trouble, history>>

(* The head a review is anchored to, or a repair's checkout starts from.   *)
ReadPR == /\ Doing("read")
          /\ Then(Tail(todo), [pass EXCEPT !.head = pr[pass.pr].head])
          /\ UNCHANGED <<store, github, policy, trouble, history>>

(* A mutant: the head is remembered from before the merge.                 *)
ReadOldHead == /\ Doing("sha")
               /\ Then(Tail(todo), [pass EXCEPT !.sha = Len(main) - 1])
               /\ UNCHANGED <<store, github, policy, trouble, history>>

(* default_branch_sha: the head of the default branch by now, which others *)
(* may have moved on since the merge.                                      *)
ReadMainHead == /\ Doing("sha")
                /\ Then(Tail(todo), [pass EXCEPT !.sha = Len(main)])
                /\ UNCHANGED <<store, github, policy, trouble, history>>

CallFails == /\ \E what \in Calls : Doing(what)
             /\ Disturb("mishaps")
             /\ Raise
             /\ UNCHANGED <<store, github, policy, history>>

Crash == /\ pass # NoPass
         /\ Disturb("mishaps")
         /\ Then(<<>>, pass)
         /\ UNCHANGED <<store, github, policy, history>>

----------------------------------------------------------------------------
(* Questions and what follows from each answer.                            *)

ModelSuppressed == Emit("DEGRADED", "MODEL_CALL_SUPPRESSED", FALSE)
WorkerStops == Emit("DEGRADED", "EXECUTION_FAILED", pass.ctx = "execute")
OwnerStops == Emit("BLOCKED", "ATTENTION_REQUIRED", pass.ctx = "execute")

PlanReply ==
  [suppressed |-> ModelSuppressed,
   planFails |-> Emit("DEGRADED", "PLANNING_FAILED", TRUE),
   needsOwner |-> Emit("BLOCKED", "APPROVAL_REQUIRED", TRUE),
   denied |-> Emit("DEGRADED", "ACTION_BLOCKED", TRUE)]

(* A planned review or repair asks for a transition PLANNING does not have.*)
Selected ==
  [report |-> Emit("READY", "STATUS_REPORTED", TRUE),
   issue |-> <<Ask("issue")>>,
   implement |-> <<Move("EXECUTING"), Ask("coder")>>,
   reviewPR |-> <<Move("REVIEWING")>>]

IssueReply == [changed |-> Emit("READY", "ISSUE_UPDATED", FALSE)]

CoderReply ==
  [suppressed |-> ModelSuppressed, workerBlocked |-> WorkerStops, ownerBlocked |-> OwnerStops,
   finished |-> <<Call("create"), Call("save")>>
                \o Emit("PR_OPEN", "PR_OPENED", FALSE)]

RepairReply ==
  [suppressed |-> ModelSuppressed, workerBlocked |-> WorkerStops, ownerBlocked |-> OwnerStops,
   finished |-> <<Call("push"), Mark("pr_open")>>
                \o Emit("PR_OPEN", "PR_REPAIRED", FALSE)]

ChangesRequested == <<Call("comment"), Mark("repair_requested")>>
                    \o Emit("REPAIRING", "REVIEW_BLOCKED", FALSE)

(* The owner decision of a comment triage is an ATTENTION_REQUIRED event   *)
(* without the evidence of an owner blocker.                               *)
ReviewReply ==
  [suppressed |-> ModelSuppressed, changes |-> ChangesRequested,
   commentDecision |-> <<Call("comment"), Mark("owner_blocked")>>
                       \o Emit("BLOCKED", "COMMENT_DECISION", FALSE),
   approve |-> IF pr[pass.pr].st = "draft" THEN <<Call("ready"), Ask("final")>>
                                           ELSE <<Ask("final")>>]

(* A mutant: whether the pull request can be merged at all is not asked.   *)
GateWithoutMergeable == /\ pr[pass.pr].gate = "clean"
                        /\ pr[pass.pr].head = pass.head

(* gate and evaluate_merge or evaluate_owner_completion: not a draft,      *)
(* mergeable and clean, checks green, and the reviewed head still current. *)
GateAllows == /\ pr[pass.pr].st = "ready"
              /\ pr[pass.pr].gate = "clean"
              /\ pr[pass.pr].head = pass.head

MergeScript == <<Call("comment"), Call("merge"), Call("sha"), Call("clear"),
                 Move("COMPLETION_READY"), Move("MERGED")>>
               \o Emit("POST_MERGE_VERIFICATION", "PR_MERGED", FALSE)
OwnerScript == <<Call("comment"), Mark("completion_ready")>>
               \o Emit("COMPLETION_READY", "COMPLETION_READY", TRUE)
WaitScript == <<Move("PR_OPEN"), Mark("pr_open")>> \o Emit("PR_OPEN", "REVIEW_WAITING", TRUE)

FinalReply ==
  [suppressed |-> ModelSuppressed, changes |-> ChangesRequested, decline |-> WaitScript,
   ownerBlocked |-> <<Call("comment"), Mark("owner_blocked")>>
                    \o Emit("BLOCKED", "ATTENTION_REQUIRED", FALSE),
   approve |-> IF ~GateAllows THEN WaitScript
               ELSE IF policy = "auto_merge" THEN MergeScript ELSE OwnerScript]

(* The handlers of a stopped worker or model are outside of _execute.      *)
Answered(whom, reply) ==
  /\ Doing(whom)
  /\ \E a \in Answers \cap DOMAIN reply :
       Then(reply[a], IF a = "finished" THEN pass ELSE [pass EXCEPT !.ctx = "bare"])

Unmoved == UNCHANGED <<store, github, policy, trouble, waited, merges, verdict>>

PlanEnds == /\ Answered("plan", PlanReply)
            /\ Unmoved

(* The same decision again on the same evidence.                           *)
PlanRepeats == /\ Doing("plan") /\ last.kind = "STATUS_REPORTED" /\ last.same
               /\ Then(Emit("DEGRADED", "STALLED", TRUE), pass)
               /\ Unmoved

PlanSelects == /\ Doing("plan")
               /\ \E a \in Answers \cap DOMAIN Selected :
                    /\ a = "implement" => Unused # {}
                    /\ Then(Selected[a], [pass EXCEPT !.ctx = "execute", !.retry = a = "issue"])
               /\ Unmoved

IssueChanges == /\ Doing("issue") /\ "changed" \in Answers
                /\ Fact(IssueReply.changed, pass)
                /\ UNCHANGED <<state, log, active, github, policy, trouble,
                               merges, verdict>>

CoderAnswers == Answered("coder", CoderReply) /\ Unmoved

RepairAnswers == /\ Answered("repair", RepairReply)
                 /\ "push" \in {todo'[i].do : i \in DOMAIN todo'} => pr[pass.pr].head < MaxHead
                 /\ Unmoved

ReviewAnswers == Answered("review", ReviewReply) /\ Unmoved

FinalAnswers == Answered("final", FinalReply) /\ Unmoved

(* A model, a check or a provider raises.                                  *)
AskFails == /\ \E whom \in Asks \ {"plan"} : Doing(whom)
            /\ "fails" \in Answers
            /\ Raise
            /\ Unmoved

----------------------------------------------------------------------------
(* What other people and the checks do on GitHub meanwhile.                *)

Elsewhere == /\ pass' = [Stale(pass) EXCEPT !.still = FALSE]
             /\ last' = Stale(last)
             /\ waited' = "none"
             /\ UNCHANGED <<state, log, active, todo, policy, merges, verdict>>

Becomes(p, r) == pr' = [pr EXCEPT ![p] = r]

(* What else happens in the repository only puts evidence out of date.     *)
Tracked(p) == Open(p) /\ p \in {active.pr, pass.pr}
OtherNews == Disturb("others") /\ Elsewhere /\ UNCHANGED github

ChecksReport(p) == /\ Tracked(p) /\ pr[p].gate = "pending"
                   /\ \E g \in {"held", "clean"} : Becomes(p, [pr[p] EXCEPT !.gate = g])
                   /\ Elsewhere /\ UNCHANGED <<main, trouble>>

(* A review thread is opened or resolved, a conflict appears or goes.      *)
HoldChanges(p) == /\ Tracked(p) /\ ChecksGreen(p)
                  /\ Becomes(p, [pr[p] EXCEPT !.gate = IF @ = "held" THEN "clean" ELSE "held"])
                  /\ Disturb("others") /\ Elsewhere /\ UNCHANGED main

OutsiderPushes(p) == /\ Tracked(p) /\ pr[p].head < MaxHead
                     /\ Becomes(p, NewHead(pr[p]))
                     /\ Disturb("others") /\ Elsewhere /\ UNCHANGED main

OwnerMerges(p) == /\ pr[p].st = "ready"
                  /\ Becomes(p, [pr[p] EXCEPT !.st = "merged"])
                  /\ main' = Landed(p)
                  /\ Disturb("others") /\ Elsewhere

OutsiderLands == main' = Landed(0) /\ Disturb("others") /\ Elsewhere /\ UNCHANGED pr

(* The workflow runs of a commit of the default branch finish, one that a  *)
(* PR_MERGED event names or is about to: nobody looks at the others.       *)
Commit == 1 .. 1 + MaxPR + MaxTrouble
Named(c) == c = pass.sha \/ \E p \in PR : c = log.sha[p]
MainReports(c) == /\ c \in DOMAIN main /\ Named(c) /\ main[c].runs = "running"
                  /\ \E r \in {"passed", "failed"} : main' = [main EXCEPT ![c].runs = r]
                  /\ Elsewhere /\ UNCHANGED <<pr, trouble>>

PassStep == \/ DoMove \/ MoveRefused \/ RecordEvent \/ Sent \/ Unsent \/ WriteActive
            \/ CreatePR \/ Push \/ PushRejected \/ MarkReady \/ Comment \/ Merge \/ ReadPR \/ ReadMainHead
            \/ CallFails \/ PlanEnds \/ PlanRepeats \/ PlanSelects \/ IssueChanges
            \/ CoderAnswers \/ RepairAnswers \/ ReviewAnswers \/ FinalAnswers \/ AskFails

World(p) == \/ ChecksReport(p) \/ HoldChanges(p) \/ OutsiderPushes(p)
            \/ OwnerMerges(p)

Next == \/ Cycle \/ Watch \/ PassStep \/ Crash \/ OtherNews \/ OutsiderLands
        \/ \E p \in PR : World(p)
        \/ \E c \in Commit : MainReports(c)

Spec == Init /\ [][Next]_vars

(* The scheduler keeps starting cycles, a pass goes on, and the workflow   *)
(* runs of the default branch finish.                                      *)
Fairness == /\ WF_vars(Cycle) /\ WF_vars(PassStep)
            /\ \A c \in Commit : WF_vars(MainReports(c))
FairSpec == Spec /\ Fairness

----------------------------------------------------------------------------

Kinds == {"BASELINE_READY", "POST_MERGE_EVIDENCE_MISSING", "POST_MERGE_FAILED",
          "POST_MERGE_VERIFIED", "POST_MERGE_WAITING", "PR_CHECKS_WAITING", "STALLED",
          "PLANNING_CONTEXT_UNAVAILABLE", "ATTENTION_REQUIRED", "EXECUTION_FAILED",
          "ISSUE_FAILED", "MODEL_CALL_SUPPRESSED", "PLANNING_FAILED", "APPROVAL_REQUIRED",
          "ACTION_BLOCKED", "STATUS_REPORTED", "ISSUE_UPDATED", "PR_OPENED", "PR_REPAIRED",
          "REVIEW_BLOCKED", "COMMENT_DECISION", "PR_MERGED", "COMPLETION_READY",
          "REVIEW_WAITING"}
Statuses == {"none", "pr_open", "repair_requested", "owner_blocked", "completion_ready"}
Number == 0 .. MaxPR

(* Each PR_MERGED event names the head of the default branch that the pass *)
(* saw after its merge (0: there is no event yet); newer counts the events *)
(* after it, up to EventWindow; of is the pull request of the newest one.  *)
Events == [of : Number, sha : [PR -> Nat], newer : [PR -> 0 .. EventWindow]]
Commits == [pr : Number, runs : {"running", "passed", "failed"}]

Steps == [do : {"move"}, arg : RunStates, kind : {""}, keyed : {FALSE}]
         \cup [do : {"event"}, arg : RunStates, kind : Kinds, keyed : BOOLEAN]
         \cup [do : {"mark"}, arg : Statuses, kind : {""}, keyed : {FALSE}]
         \cup [do : Calls \cup Asks \cup {"save", "clear", "notify", "read"},
               arg : {""}, kind : {""}, keyed : {FALSE}]

(* Type correctness of the store, of GitHub and of the running pass.       *)
TypeOK ==
  /\ state \in RunStates
  /\ last \in [kind : Kinds, st : RunStates, same : BOOLEAN]
  /\ log \in Events
  /\ active \in [pr : Number, status : Statuses]
  /\ active.pr = 0 <=> active.status = "none"
  /\ pr \in [PR -> [st : {"none", "draft", "ready", "merged"}, head : 0 .. MaxHead,
                    gate : {"pending", "held", "clean"}]]
  /\ main \in Seq(Commits)
  /\ pass \in [ctx : {"none", "bare", "execute"}, pr : Number, head : 0 .. MaxHead,
               sha : Nat, same : BOOLEAN, still : BOOLEAN, retry : BOOLEAN]
  /\ todo \in Seq(Steps)
  /\ policy \in Policies
  /\ trouble \in [{"others", "mishaps", "unsent"} -> 0 .. MaxTrouble]
  /\ waited \in {"none", "REVIEW_WAITING", "COMPLETION_READY"}
  /\ merges \in [PR -> Nat]
  /\ verdict \in [PR -> {"none", "verified", "failed"}]

NoMishap == trouble.mishaps = 0

(* The merge call is never carried out twice for a pull request, although  *)
(* a pass may die between the merge and the write that forgets the active  *)
(* pull request, and later passes then review a merged one again.          *)
MergedOnce == \A p \in PR : merges[p] <= 1

(* A verdict on a merge is what the workflow runs of one commit say, and   *)
(* that commit contains the merge: the merge itself or, when others were   *)
(* quick, one that landed after it.  It is never one from before, whatever *)
(* was merged meanwhile and whatever crashed.                              *)
Contains(c, p) == \E i \in 1 .. c : main[i].pr = p
VerdictCoversMerge ==
  \A p \in PR :
     /\ verdict[p] # "none" => log.sha[p] \in DOMAIN main /\ Contains(log.sha[p], p)
     /\ verdict[p] = "verified" => main[log.sha[p]].runs = "passed"
     /\ verdict[p] = "failed" => main[log.sha[p]].runs = "failed"

(* A merge that the newest events no longer show.                          *)
Forgotten(p) == log.newer[p] = EventWindow

(* Without crashes, no pass opens a pull request while the verification of *)
(* a merge is outstanding, undelivered notifications or not -- unless so   *)
(* many events were recorded since the merge that it was given up.         *)
NoDependentWork ==
  [][CreatePR /\ NoMishap =>
       \A p \in PR : merges[p] > 0 => verdict[p] # "none" \/ Forgotten(p)]_vars

(* Without crashes, no pass opens a pull request over an open active one   *)
(* that the event log says is in delivery: an undelivered notification     *)
(* does not hide it.                                                       *)
DeliveryGoesOn ==
  [][CreatePR /\ NoMishap =>
       active = NoWork \/ ~Open(active.pr) \/ last.st \notin InDelivery]_vars

(* A reviewer is not asked again about a pull request on which nothing     *)
(* happened since a review found completion evidence missing.              *)
WaitingIsReused == [][ReviewAnswers => waited # "REVIEW_WAITING"]_vars

(* Nor after a review found it ready for the owner's decision.             *)
CompletionIsReused == [][ReviewAnswers => waited # "COMPLETION_READY"]_vars

(* Without crashes and failing calls, every merge comes to a verdict, or   *)
(* the log grows past it first.                                            *)
MergeIsVerified ==
  \A p \in PR : merges[p] > 0 ~> verdict[p] # "none" \/ Forgotten(p) \/ ~NoMishap
=============================================================================
