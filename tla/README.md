# Make It So: a formal model

Make It So is an autonomous "Captain" for Git repositories. A scheduled process
plans one unit of work at a time, hands it to model workers directly or through
a queue of role-separated cards, reviews the pull request, merges it when the
policy allows, and verifies the default branch afterwards. All durable state is
in one SQLite database. Paths below are relative to the repository;
`src/make_it_so/` is abbreviated to the file name.

## 1. The system

### 1.1 Components

| component | state it keeps | operations | interacts with |
|---|---|---|---|
| repository lease (`state.py` `lease`) | one row `repo, owner, expires_at` | acquire, probe and take over, release | every scheduled command enters it; SQLite serialises writers |
| direct queue (`direct_orchestrator.py`) | a JSON payload per card: status, claim (owner, token, expiry), failures, worker protocol, proof | create, claim, heartbeat, complete, block, cancel, recover expired, promote, reclaim, reassign, unblock | workers call it without the lease, reconcile and dispatch with it |
| workflow reconciliation (`orchestration.py`) | none of its own: decides from a list of cards | repair cards, fresh retries, proof promotion, requeue, control-plane recovery, QA cards, workspace cleanup, enqueue | a queue adapter, completion gate, worktrees |
| queue commands (`cli.py`) | none | dispatch, reconcile, unblock, canary, worker commands | lease, usage budget, reconciliation, events, notifier |
| run-state machine and event log (`state.py`) | state of the repository, events, active work, proposals, approvals, attention counters | transition, record_event, save/update/clear active work, approve/consume, note/acknowledge attention | engine, queue events, sidecar |
| engine (`engine.py`) | none beyond the store | watch, cycle, plan, implement, repair, review, merge, verify after merge, emit | GitHub, harness, store, notifier, reconciliation |
| policy, merge and completion gates (`policy.py`, `merge_gate.py`, `completion_gate.py`) | none | evaluate an action, a merge, a completion; validate workflow evidence | engine, reconciliation, CLI |
| attention and queue events (`notifications.py`, `queue_events.py`) | counters and events in the store | classify, deduplicate, send | engine, CLI |
| courses and readiness (`courses.py`, `readiness.py`) | course files: approval, status of work packages, readiness bound to an input hash | approve, pause, resume, set status, eligible packages | engine, sidecar |
| usage (`usage.py`, `openclaw_usage.py`) | usage rows | import, aggregate, dispatch budget | CLI, engine |
| harness (`harness.py`) | none | invoke a model, fall back, bound the output | engine |
| worktrees (`worktrees.py`) | git worktrees | allocate, remove | engine, reconciliation |
| GitHub provider (`github.py`) | GitHub | snapshot, gate, create, comment, merge | engine |
| external Workboard adapter (`openclaw_workboard.py`) | a gateway outside the repository | the queue contract over a command line | reconciliation |
| scheduler, sidecar, baseline, installer, canary, configuration, plugins | files and host configuration | I/O, parsing, reporting | all |

### 1.2 What is hard about it

* **Concurrency without a server.** Every command is a process of its own.
  Controllers exclude each other by the lease row; workers and operators do not
  take the lease, so claims, completions and cancellations happen between any
  two steps of a reconcile pass, which decides from a list it made earlier.
* **Time.** A lease term and a claim expire while their holders still run; a
  clock value is read before a transaction that may wait.
* **Crashes.** A process dies between two writes; the row, the claim or the
  state it left behind is all the next process has.
* **Two-connection updates.** `_update` reads a card on one connection and
  writes the whole payload on another.
* **Retry budgets.** Failures are counted in one place and judged in another.
* **Whole-file replacement.** Sidecar, readiness reviewer and Captain each load a
  course file, work for up to minutes, and replace the file; no lock spans the two,
  and the UI server calls the sidecar from a thread per request (`serve_ui.py:223-226`).
* **Decisions from a list.** A reconcile pass decides about every card from one
  list, and its earlier changes, other workers and GitHub invalidate it meanwhile.
* **Memory of what was told.** A pass stores which cards it saw before it records
  what changed, and records before it sends.
* **Events as state.** When the run state is DEGRADED, the engine continues
  from the state recorded in the latest operational event; the merge it still has
  to verify is looked for among the newest 30 events.
* **A moving default branch.** The commit to verify is read after the merge, when
  others may have pushed or merged on top of it.

### 1.3 What makes each component correct

* lease: at most one session is entitled; a row is taken over only when its time
  is up or its owner is known to be dead; a dead owner does not keep the
  repository busy for ever.
* direct queue: a claim is either live or gone, late results are refused,
  accepted completions and cancellations stay, failures are counted once,
  retries are bounded, dependencies are respected, orphans are recovered.
* reconciliation: one proof per stage reaches the original card, no duplicate
  retries, no retry of what was cancelled, no work on what is done.
* engine and store: no merge without the gate, a verdict about a commit that
  contains the merge, no dependent work before it, no open pull request forgotten, no state from which every
  later cycle fails, an approval used at most once.
* gates and policy: fail closed, monotone in the evidence, bound to one head.
* attention and queue events: a completion is recorded, an owner is pinged for
  what waits for him and never twice on the same rung.
* courses: nothing is engaged, started or created before exactly those inputs were
  judged ready; evidence stays with the answer it is about; packages run in
  dependency order.

## 2. Modules

| module | models |
|---|---|
| `SingleTerm` | the abstract promise of a lease: one entitled session at a time |
| `RepoLease` | the lease row, the probe, and the sessions inside it |
| `RepoLeaseProofs` | theorems about `RepoLease` |
| `DirectQueue` | cards, claims, workers, operators, and controller passes |
| `DirectQueueProofs`, `DirectQueueOutcomes` | theorems about `DirectQueue`: types and claims; budgets, results and order |
| `DeliveryCycle` | the run-state machine, the event log, active work, and the engine's passes over them |
| `DeliveryCycleProofs`, `DeliveryCycleOutcomes` | theorems about `DeliveryCycle`: scripts, merges and verdicts; what follows a merge, a review and an opened pull request |
| `WorkflowCards` | the cards of one workflow and every decision of a reconcile pass, as operators on a list |
| `WorkflowReconcile` | enqueue, workers, GitHub and reconcile passes over that board, on either adapter |
| `WorkflowProofs` | theorems about `WorkflowReconcile` |
| `Courses` | a course file and the functions that turn one version into the next |
| `CourseDesk` | sidecar, readiness reviewer and Captain, who replace the file |
| `CourseDeskProofs` | theorems about `CourseDesk` |
| `QueueEvents` | what a pass tells the owner: observation, records, ladders, messages |
| `QueueEventsProofs` | theorems about `QueueEvents` |
| `MCRepoLease`, `MCDirectQueue`, `MCDeliveryCycle`, `MCWorkflow`, `MCCourseDesk`, `MCQueueEvents` | instances for TLC |

`RepoLease` says when passes exclude each other, and `DirectQueue`,
`DeliveryCycle`, `WorkflowReconcile` and `QueueEvents` take one pass at a time for
granted. `DirectQueue` and `WorkflowReconcile` look at the same cards with different
grain: the first has claims, tokens, time and the two halves of `_update`; the
second has stages, proofs and every decision of a pass, with a change of a card as one
step. `QueueEvents` looks at the statuses the board goes through, `CourseDesk` at
the packages that the engine's cycles take up.

### 2.1 RepoLease

`row` is the row of table `leases`; `phase[s]` is where a session (one
`with state.lease(...)` block of one process) is; `age[s]` how long ago it read
the clock it compares with; `left[s]` what remains of the term it was granted.
Time is relative, so that the state space is finite without bounding time:
remaining times below `Floor` are indistinguishable to the code and saturate.

`ReadClock` is line 798, before `BEGIN IMMEDIATE`. `Acquire` is the transaction
of lines 800-812 with the outcome of the probe chosen from `ProbeAnswers`: an
engine owner is unknown, a live CLI owner runs, a dead one is gone unless its pid
was reused. `Busy` is `LeaseBusyError`, `GiveUp` SQLite's busy timeout, `Leave`
the `finally` clause, whose DELETE names the owner, `Crash` a killed process,
`Replace` a later process with a new owner string. `TermGranted` counts from the
old clock value, as the code does.

`Margin[s]` states when a session leaves: `Margin[s] <= Floor` says nothing about
it (it may stay inside long past its term), `Margin[s] >= 1` says it leaves in
time, which makes it one of the `Prompt` sessions. `MaxWait` is the 30 s busy
timeout in ticks.

### 2.2 DirectQueue

A card is its status, claim, remaining claim time, failure count, the class of
its blocker and whose proof it carries. A worker is an attempt: it claims once,
with a token of its own, and then heartbeats, completes, blocks, crashes or is
turned away. `Credited` is the test of `_claimed_update`: the token names the
card's claim, and the claim has not expired.

A controller is a process under the repository lease. It is in a part of a pass
(`reconcile`, `recover`, `promote`, `unblock`), has the list of cards it made
when the part began, and a turn left for each card. Every decision uses the
list; every change by `_update` is two steps, `Copy` and `Write`, and the copy's
claim ages meanwhile. `recover_expired_claims` is one step per card, because it
looks again inside its transaction (`StillLapsed`). The order of turns and the
end of a pass are free: a pass may stop or fail between any two writes, which
covers crashes, and some orders the code does not take.

`View` classifies a listed card as `_block_reason` and `classify_blocker` do:
whatever has no known prefix is technical, a blocked card without a reason too.
A `finding` is a reviewer's objection: the class is technical, but the reason
does not begin with TECHNICAL, so the failure is not counted.

Every attempt may become an expired, a cancelled, a crashed or a late one;
`cancelled` and `expired` remember which claims ended that way, for the
properties only.

### 2.3 DeliveryCycle

The store is `state` (table `repo_state`), `last` (`latest_operational_event`),
`log` and `active` (table `active_work`). Of the events, `log` keeps what
`_verify_post_merge` asks of them: which PR_MERGED event is the newest (`of`), the
commit that each one names (`sha`) and how many events are newer (`newer`, counted up
to `EventWindow`, 30 in the code). Every event counts, those of `Unsent` too.
GitHub is `pr` and `main`, the commits of the default branch in order, each with the
pull request it merged (0: pushed or merged by others) and what its runs came to. A pass is one call of `cycle` or `watch` under the
lease, so there is one at a time (the theorem `CriticalSection` of
`RepoLeaseProofs` says when that is so).

Every function of the engine that ends in `_emit` is a straight line of writes
and calls once its decision is made. The model keeps that line as data: `todo`
is the rest of the pass, a sequence of steps such as
`MergeScript = comment; merge; sha; clear; COMPLETION_READY; MERGED;
POST_MERGE_VERIFICATION; event PR_MERGED; notify`. `Begin` puts the script that
`cycle` or `watch` chooses from the store and GitHub; every kind of step has one
action; a question to a planner, worker or reviewer is a step too, and its
answer replaces the rest of the script (`PlanReply`, `CoderReply`, `ReviewReply`,
`FinalReply`, ...). So a crash (`Crash`), a failed call (`CallFails`), a refused
transition (`MoveRefused`), a lost notification (`Unsent`) and whatever others do
on GitHub may fall between any two steps, and an order of writes that the code
changes is an edit of one script. `Merge` and `ReadMainHead` are two of the steps: what
the pass reads, and PR_MERGED then names, is the head of `main` by that time, and
`OwnerMerges` and `OutsiderLands` may have put another commit there. `Raise` is an exception: inside `_execute` it
becomes an EXECUTION_FAILED event, anywhere else it ends the pass.

`Emit` starts with a transition to the event's own state. Several callers make
the same transition themselves a moment earlier; the second is then idle, and
the model has one.

The code compares fingerprints to decide whether anything changed. The model
keeps the comparison: `last.same` says that the evidence under the last event is
what a pass would read now, `pass.same` that what the pass read is still so. A
`Fact` (push, merge, checks, threads, news) makes both false; a comment does too,
because the snapshot's fingerprint includes `updatedAt` of open pull requests,
but is no new fact (`pass.still`, `waited`).

`merges`, `verdict` and `waited` are history for the properties only.

### 2.4 WorkflowCards and WorkflowReconcile

A board is a sequence of cards in creation order. The labels `retry-for:`,
`repair-for:` and `control-plane-recovery-for:` are the fields `retry`, `repair`
and `recov`; a retry inherits the labels of what it retries, so chains are walked
(`Ancestors`) as `_retry_depth` walks them. `Rows` is `_stage_sequence` for the
plan. A proof is reduced to what validation tells apart: no passed status, passed
without the stage's marker, or marked with the head it was given for.
`FinalCurrent`, `QaCurrent` and `RequiredQA` are the completion gate.

The adapters differ where the core notices: the direct one keeps parents where the
core does not look (`Visible`), never writes `failureCount` (`FailuresSeen`), and
stores the reason of a reclaim where a cancelled card is not recognised (`mark`).
The Workboard's own service is outside the repository and is modelled from how
`openclaw_workboard.py` uses it.

`Decision(L, i)` is one turn of reconcile's main loop, read from the list `L` of the
pass; `Superfluous(L)` are the three loops before it. A pass is `BeginPass` (list,
ended workers, missing QA cards), one `CancelTurn` per cancelled card, one `MainTurn`
per card that is acted on, and `EndPass` (cleanup, then dispatch: expired claims
or the deterministic merge, then promotion). Between any two of them workers claim,
finish, block or die, and somebody pushes. Enqueue is one step per card
(`CreateStage`, idempotent by work key), a failed call may have had its effect, and
a crash leaves the rest uncreated.

### 2.5 Courses and CourseDesk

`Courses` has the file as a record and `courses.py`, `readiness.py` and the
validators of `models.py` as operators on it. `NewCourses` are the drafts that
creation may save. Two fields keep more than the file
does, for the properties: an approval keeps the inputs it was given for, and
evidence keeps the answer it is about. `Inputs` is `readiness_input_sha`.

In `CourseDesk` every writer has its copy: `sidecar[h].new` (and `old`, which a failed
creation restores), `reviewer` (the course a review was given), `captain.course`.
Each request has a handler `h`: the sidecar's loop over its standard input serves one
after the other, the UI server one per thread, without a lock, so any handlers may be
busy at the same time. A request is `Prepare` (load and change) and `SidecarSaves`;
approving a greenfield course is `ChecksGit` (a local `.git` refuses it),
`SeedsGreenfield`, then `ProvisionSucceeds` or `ProvisionFails` (at whichever of its
calls), then `SidecarSaves` or `RestoresCourse`. `SidecarDies` ends the requests of
one process at any moment: the thread of one, or all of a server. `crashed` and
`early` are history: a request died while it created the repository; a request
loaded the course as another had seeded it, before the repository existed.
`ReviewEnds` applies the reviewer's answer to the reviewer's copy and saves that.
The Captain's cycle reads the file once (`CycleStarts`), chooses a package
(`PlanSelects`) and loads the file again for each status it sets
(`LoadsPackage`, `WritesPackage`).

### 2.6 QueueEvents

`seen` is table `orchestration_cards`, `ladder` is `notification_attention`, `log`
the events. A pass observes the board and stores what it saw in one transaction
(`ObservesBoard`), then records retries, changed cards, held cards and reports
in that order (`IsNext`), each a transaction of its own: `RecordsChange`, or
`ClimbsLadder` followed by `RecordsPing`; then it sends. `note_attention`'s SELECT
and upsert are one step: only an acknowledgement can fall between them, and the
upsert does not touch what it writes. `PassDies` drops what was due, `PassFails` is
an exception that is itself recorded and sent once.

## 3. Runs

| run | instance | shows |
|---|---|---|
| `lease` | 2 CLI and 2 engine sessions, one of each prompt (Margin 1) and one without bound on its stay, TTL 3, MaxWait 2 | TypeOK, TermExclusive, NoOverlap, TakeoverJustified, DeadRowGoes, ImplementsSingleTerm |
| `queue_chain` | c2 depends on c1, 3 claims of 1 tick, 1 retry each | TypeOK, NoStrandedClaim, WorkerKeepsItsCard, CompletionSurvives, CancellationSticks, FailuresCounted, DependencyOrder, LateResultRefused, OrphanRecovered |
| `queue_repair` | reviewer c1 (no retry) and its repair card c2 (1 retry), 3 claims of 2 ticks | NoStrandedClaim, FailuresCounted, LateResultRefused |
| `queue_budget` | one card, 3 claims, 1 retry | BudgetBounded is violated |
| `delivery` | 2 pull requests, 1 further head each, auto_merge, 2 disturbances, an event window of 3 | TypeOK, MergedOnce, VerdictCoversMerge, NoDependentWork, DeliveryGoesOn, WaitingIsReused |
| `delivery_verified` | 1 pull request, 1 further head, both policies, every answer, 2 disturbances, an event window of 3, fair | MergeIsVerified |
| `delivery_ready` | 1 pull request, owner_approval, nothing disturbs | CompletionIsReused is violated |
| `workflow` | both adapters; an issue, a build and a review with a QA profile, a repair, a review with auto_merge; a profile the paths call for or not; 6 cards, 1 retry, 2 heads, 1 disturbance (2 for the issue) | WorkflowTypeOK, StageOrder, RetryChainsBounded, OneCardPerStage, EvidenceKept, OwnerDecides, WorktreeOutlivesWork |
| `workflow_qa` | a review with auto_merge, 2 profiles of which one is planned, 8 cards, nothing disturbs | MergeHasEvidence is violated |
| `course` | 1 required requirement, 2 answers, 2 routings, 1 package behind a checkpoint, existing and greenfield, 2 handlers, 3 edits, 2 reviews | CourseTypeOK, WorkWasJudged, VerifiedAsAnswered, EngagedHasRemote |
| `course_dependents` | 2 packages, the second depends on the first, 1 handler, 3 edits, 1 review | DependentsGoOn is violated |
| `attention` | a repair card, a lasting report, rungs 1 and 3, counts up to 4, 1 failure of the card, 1 death, failure or lost message, fair | EventsTypeOK, DoneIsRecorded, PingsClimb, OwnerIsPinged |

**Bounds.** Three sessions are the fewest for which an expired holder, its
successor and a third contender meet, and the fourth gives each kind of owner
one session that keeps its term and one that does not; TTL 3 with MaxWait 2 lets a stale clock
value make the difference between expired and not. Three claims on two cards
let a first claim expire, a second worker take the card and a third take the
other card or the first again; a claim of two ticks has a state in which it is
renewed before it is old, one of one tick reaches every expiry sooner.
Two cards are enough for a dependency and for a reviewer with its repair. The
number of claims is the only bound on the length of a behaviour: everything
else recurs for ever.

In `DeliveryCycle`, `MaxPR` bounds the pull requests of a behaviour: the second is
the one that dependent work, a replaced row or a mixed-up verdict needs. `MaxHead`
bounds the heads after the first: one is enough for a reviewed head to be out of
date, and for one repair. `MaxTrouble` bounds what happens against the pass: a
crash, failed call, lost notification, or an outsider's push, merge, thread or
other change; two let, for instance, a lost notification meet a crash, or a
push meet a lost notification. An `EventWindow` of 3 stands for the 30 of the code:
a merge is forgotten after three newer events, few enough for the runs to get there
through waiting events and lost notifications, and enough for a verification that waits
once, loses a message and still finds its merge. Only commits that a PR_MERGED event
names, or the running pass is about to name, report their runs (`Named`): nobody
looks at the others. Checks, workflow runs, passes, reviews and
waiting events are not bounded. `Answers` is the set of answers considered:
`MCAnswers` has all, `MCFew` leaves out those that only record another DEGRADED or
BLOCKED event from the planner and a suppressed call, `MCSmooth` keeps the ones
that a shortest counterexample needs.

In `WorkflowReconcile`, `MaxCards` leaves room for the stages of each plan and one
or more retries, repairs or recoveries; `MaxHead` 2 makes evidence stale once;
`MaxRetries` 1 is the least for which a retry, its exhaustion and a recovery all
occur. One disturbance is enough for every recovery path to begin, and the
issue workflow, the smallest, has two, so that a retry fails as well. Passes,
claims and completions are not bounded. In `CourseDesk`, two handlers
are the fewest for which a request overlaps the creation of a repository; three
edits are an approval and what comes beside or behind it: a second approval, another
answer, a pause, a resumption, which may load the course before, while or after the
approval fails. The planning session has answered the question of the draft
(`Drafted`): a draft without an answer would take one edit more to get as far. Two reviews let one run on a copy from before an approval that another made
possible. Answers and handlers are each
interchangeable (SYMMETRY); the routings are not, because a new course has one of
them. In `QueueEvents`, the rungs 1 and 3 stand for a ladder with a silent count
between its rungs and one above them (the code has 1, 2, 3, 4, 8 and 16), and the one
disturbance is fewer than the rungs: with as many losses as rungs a ladder may fall silent
unheard.

**Fairness.** `RepoLease`: time passes; the scheduler keeps starting sessions
(`WF` of ReadClock or Replace); a pass ends, because every subprocess and model
call has a timeout (`WF` of Leave); of infinitely many requests SQLite does not
time out all (`SF` of Acquire or Busy). `DirectQueue`: time passes; a pass ends;
the scheduler keeps starting dispatch passes (`SF`, since reconcile and unblock
passes may hold the lease at any moment), and of infinitely many not all are
killed before they reach a given expired card. Workers owe nothing.
`DeliveryCycle`: the scheduler keeps starting cycles (`WF` of Cycle), a pass goes
on, because every model and subprocess call has a timeout (`WF` of PassStep), and
the workflow runs of each commit of the default branch that a merge event names
finish (`WF` of MainReports, per commit). Nothing is
assumed of reviewers, owners or watch passes. `QueueEvents`: the scheduler keeps
starting passes (`WF` of PassStarts) and a pass goes on (`WF` of PassStep); deaths
and losses are bounded by `MaxTrouble`, and nothing is assumed of workers or the
owner. `WorkflowReconcile` and `CourseDesk` are checked for safety only.

`CHECK_DEADLOCK FALSE` in the delivery, workflow and course runs: a repository may
come to rest, for instance STALLED on evidence that nobody changes any more, a
workflow when its bounds are used up, a course when nobody edits it.

### 3.1 Disagreements found

1. `queue_budget`. `recover_expired_claims` counts in `metadata.failures`, and
   leaves a card BLOCKED beyond `maxRetries`; reconcile judges the budget by
   `failureCount` or `attempts` (`orchestration.py:1844-1859`), which the direct
   adapter never writes, and requeues the exhausted card on every pass.
   `docs/ADAPTERS.md:87` promises a bounded budget.
2. `delivery_ready`. A COMPLETION_READY event stores a fingerprint taken before
   the Captain's own comment on the pull request, and the comment changes it
   (`updatedAt`, `github.py:135`): every cycle reviews the pull request again.
   `docs/ARCHITECTURE.md:184-188` promises the opposite. REVIEW_WAITING posts no
   comment, and is reused (WaitingIsReused, in `delivery`).
3. `workflow_qa`. The deterministic merge asks `evaluate_workboard_merge`, which
   looks at the final review, the head and GitHub, and at no QA evidence
   (`merge_gate.py:49`); the card for a profile that only the live files reveal is
   no parent of the merge card. The pull request is merged while that card is
   READY. `docs/ADAPTERS.md:127-131` promises the role card before final
   completion can pass.
4. `course_dependents`. `cycle` calls `eligible_work_packages(course)` without the
   completed packages (`engine.py:1029`), and the function counts only what its caller
   passes: a package that depends on another can never be chosen.
   `docs/PRODUCT_REORIENTATION.md:111` speaks of a dependency-aware graph, and
   `tests/test_courses.py:216` passes the completed packages.

### 3.2 Seen, not run

Behaviours met while modelling. The models allow them unless it says otherwise,
and the properties are stated so that they hold with them; no run asks about them.

Queue and delivery:

* For a blocked reviewer, reconcile passes its last repair card on whatever its
  status (`orchestration.py:717-723`): a RUNNING repair loses its live claim
  (`docs/ARCHITECTURE.md:214` says that workers proceed meanwhile).
* With `max_retries: 0`, the failure count of one that reconcile assumes for every
  direct card exceeds the budget, and TODO cards become READY before their parents
  are done (`orchestration.py:539-544`). Because of this and of the repair above,
  WorkerKeepsItsCard, CompletionSurvives, CancellationSticks and DependencyOrder are
  about `Ordinary` cards, which are no repairs and have a retry, on a board with any
  cards; the other properties are about all cards. DependencyOrder therefore does not
  catch the zero budget, it leaves it out.
* The PR_OPENED notification is sent inside `_execute`; its failure becomes an
  EXECUTION_FAILED event (`engine.py:1209`), the pull request is no longer in
  delivery, and the next planned work replaces its row
  (`docs/ARCHITECTURE.md:179-182`). A technical block of a worker does the same.
* Nothing ties the merge call to the reviewed head (`github.py:559-566`): a push
  between the gate and the merge is merged.
* A crash that leaves EXECUTING has no edge to PLANNING; DEGRADED has none to
  REVIEWING, REPAIRING or POST_MERGE_VERIFICATION, so that after a lost
  notification a pass with changed evidence is refused; a planned `review_pr` or
  `repair_pr` always is. A merge by the owner is not noticed. A crash between
  POST_MERGE_VERIFICATION and the PR_MERGED event lets an older merge be verified
  again, and the new one never: an exception of NoDependentWork and MergeIsVerified.
* What is verified is the head of the default branch as read after the merge
  (`engine.py:2847`): when somebody pushes or merges in between, that later commit
  is judged in place of the merge's own, although PR_MERGED calls it
  `merged_head_sha`. Its runs may fail or pass because of what is not the
  merge's. VerdictCoversMerge says what remains: the commit contains the merge, and a
  verdict is what its runs say.
* `_verify_post_merge` looks for PR_MERGED among the newest 30 events
  (`engine.py:2944-2951`). POST_MERGE_WAITING is recorded once per changed snapshot
  and a lost notification adds an event, so runs that take long enough push the merge
  out: POST_MERGE_EVIDENCE_MISSING, DEGRADED, and the next cycle plans without a
  verdict and without a crash, although the merge's event says to verify before dependent
  work is selected (`engine.py:2862`). `Forgotten` is this exception of
  NoDependentWork and MergeIsVerified.
* Not in a model: a crash between `_execute` and `consume_approval`
  (`engine.py:768`) leaves a one-time approval unused, and the next cycle executes
  again.

Workflow:

* On the direct queue a card that reconcile cancelled is not recognised as
  cancelled (`orchestration.py:482-519`, `1833`): the next pass takes it for a technical
  failure. RetryChainsBounded bounds what follows.
* A crash in enqueue leaves the workflow active without its last stages, for ever
  (`orchestration.py:432`).
* Promotion takes the first passed retry of the list, where the comment above it speaks
  of the freshest (`591-601`). With two passed retries a push can make the first one's
  proof stale: each pass promotes it again, over newer evidence too, and the stage is not
  retried. EvidenceKept therefore says nothing of the head a proof is for.
* A repair card is requeued by its reviewer's turn although it waits for its owner, and
  a card that is beyond its budget is reassigned although, since the pass made its
  list, it was claimed and now waits for its owner: the exceptions of OwnerDecides.
* A merge card that was blocked once is retried for ever although its retry merged
  (`530-538`); after the merge the gate is closed, so a final review whose proof is
  asked again is invalid, is retried, and the worktree is never cleaned up.
* The removed worktree's branch survives, so a failed enqueue of a build cannot be repeated
  (`worktrees.py:91-104`); a Workboard call that had its effect but lost its answer
  leaves a card whose worktree is then removed, the exception of WorktreeOutlivesWork.
* Recovery cards of an exhausted stage are not bounded; a dependency counts as met when
  the parent is DONE, whether or not its proof is valid.
* A card beyond its budget that completes while a pass holds it for READY is
  reassigned from the older list: the exception of EvidenceKept.

Courses:

* A later writer drops an earlier one's change: a review overwrites an answer, a
  pause, an approval or a package's progress; the Captain's ENGAGED copy overwrites
  a pause. WorkWasJudged and VerifiedAsAnswered are what survives that.
* Answers and routings may change while a course is engaged, and a checkpoint taken
  back between plan and start is not looked at again.
* Work that fails leaves its package EXECUTING, and nothing sets a course COMPLETED
  or BLOCKED. `course.create` replaces an existing course (not in the model).
* A failed greenfield creation leaves `.git`, so that a retry of the approval is refused
  (`docs/OPENCLAW_OPERATIONS.md:48` speaks of retry). Two things leave the course
  ENGAGED without a repository, against lines 46-48 there, and are the exceptions of
  EngagedHasRemote: a request that dies in the creation (`crashed`), and a thread of the UI
  server that loads the seeded course during the creation and saves it, changed, after the
  failed creation has restored the unengaged one (`early`). A paused course can come
  back the same way.

Attention:

* `acknowledged_at` is never cleared (`state.py:647-662`): after one acknowledgement
  every pass counts from one and records a first-rung ping again, and a second
  acknowledgement is not accepted. PingsClimb is about the time before. A new
  decision on the same card continues the old count, and may be silent. No property
  catches either: PingsClimb leaves acknowledged topics out, and OwnerIsPinged is
  satisfied by an earlier ping of the same card.
* A pass that dies between storing what it saw and recording it loses completions
  (`lost` in DoneIsRecorded).
* Not in the model: `_card_block_reason` reads one place of the three that
  reconcile reads, so some held cards climb no ladder; cancelled cards are reported
  as the owner's.

## 4. Proofs

TLAPS proves, for every value of the constants that the named assumptions allow:

* `RepoLeaseProofs`: `TypeCorrect`, `Exclusion` (TermExclusive),
  `CriticalSection` (NoOverlap: prompt sessions, those with `Margin[s] >= 1`, never
  overlap, whatever the others do), `TakeoverOnlyJustified`,
  and `Refinement` (the lease implements `SingleTerm`). TermExclusive is not
  inductive: nothing in it relates two sessions before they meet. The
  strengthening is `RowIsTerm`: whoever is inside an unexpired term owns the row,
  and the row's remaining time is that term. Two entitled sessions would both
  own the one row. `ObtainedFromNobody` is the key lemma: an Acquire succeeds
  only if no entitled session exists, because an entitled owner is neither
  expired (its remaining time is positive, and an old clock value only makes the
  row look younger) nor probed dead. NoOverlap adds `Punctual`: a session inside
  has at least its Margin left, so a prompt one is always entitled.
* `DirectQueueProofs`: `TypeCorrect`, for any number of controllers;
  `ClaimsNotStranded` (NoStrandedClaim) and `LateResultsRefused`
  (LateResultRefused) for one controller at a time, which is what the lease
  provides. The inductive invariant is `HeldInv`: claims belong to RUNNING cards
  and to attempts that were neither cancelled nor, while time is left, expired
  (`ClaimsAreLive`); a revoked attempt had claimed (`RevokedWereUsed`); a pending
  copy carries no claim, and a TODO card awaiting promotion is still TODO
  (`PassesAreCurrent`). The last is why `_update`, which is not atomic, cannot
  bring a claim back: under one controller nothing claims a card that a copy was
  made of with a claim. With two controllers this fails, and so does
  LateResultRefused; section 6 returns to it.
* `DirectQueueOutcomes`, for one controller and any board: `FailuresAreCounted`
  (FailuresCounted), `WorkersKeepTheirCards` (WorkerKeepsItsCard),
  `CompletionsSurvive` (CompletionSurvives), `CancellationsStick`
  (CancellationSticks) and `DependenciesAreOrdered` (DependencyOrder). For the count,
  `ChargeInv` says that a live claim has not been charged (`ClaimsRanOut`) and that the
  copy a pass is about to write carries the card's own count (`ChargesFit`). For the
  results, `OrdinaryInv` relates a pass to the board it has meanwhile lost sight of:
  what it listed as done is done, what it holds a turn or a copy for is still
  where a write does no harm (`PassesFit`), and a working attempt owns its
  card unless its claim was cancelled or expired (`WorkersHold`). The four
  properties are one induction: that a dependency stays done needs that completions
  survive, which needs that nobody but the worker ends a live claim.
* `DeliveryCycleProofs`, for any number of pull requests, heads and disturbances:
  `DeliveryTypes` (TypeOK), `MergesAreNotRepeated` (MergedOnce) and
  `VerdictsAreTrue` (VerdictCoversMerge). The invariant is `SafeInv`: the rest of the
  pass is a rest of a script that the engine writes (`ScriptFits`), and merges, verdicts and
  events fit each other (`MergesFit`). A second merge is impossible because
  no script merges a pull request that it did not see open. A merged pull request is
  among the commits of `main`, and `main` only grows: the head read after the merge contains
  it, whoever else was quick, and so does the commit that its event names for ever after.
* `DeliveryCycleOutcomes`: `VerificationComesFirst` (NoDependentWork), from
  `MergesAreFollowedUp`: unless a crash or a failed call came between, a merge
  without a verdict that the newest events still show is what the pass still
  verifies, or what the store's state and event make the next pass verify
  (`FollowedUp`). A merge that fell out of the window is excepted, in the lemma and in
  the property, for any size of the window.
  `WaitsAreReused` (WaitingIsReused), whatever crashes or fails, from `ReuseInv`:
  the steps of a script keep their order, also in what is left of one
  (`ScriptIsTidy`), what a pass that judges or waits read of the pull request is still
  so (`ReviewFits`), and once a wait is noted the stored review and event make the
  next pass find nothing to do (`WaitFits`). `DeliveriesGoOn` (DeliveryGoesOn), from
  `DeliveryInv`: work is created and saved in EXECUTING only (`CoderFits`), active work is
  forgotten before the state becomes MERGED (`ClearFits`), and while a delivery runs
  the state is one from which the next pass goes on, or the pass is just before
  or behind the event that says so (`GoesOn`). Lost notifications are allowed by it,
  crashes and failed calls are not: after one the state may be one that no pass
  leaves (section 3.2).
* `WorkflowProofs`, for any plans, adapters, budgets and bounds: `WorkflowIsTyped`
  (WorkflowTypeOK), `StagesHaveOneCard` (OneCardPerStage), `EvidenceIsKept`
  (EvidenceKept), `OwnersDecide` (OwnerDecides), `WorktreesOutlive`
  (WorktreeOutlivesWork), `StagesAreOrdered` (StageOrder) and `ChainsAreBounded`
  (RetryChainsBounded). `BoardInv` says that the board is well formed (a retry or repair is
  younger than what it is for and inherits its slot, each stage has at most the
  cards that enqueue gave it), that the pass's list is an earlier state of the same board
  (`PassFits`), and that enqueue creates what is missing (`EnqueueFits`). `Change` says once
  what one step may do to one card; the action properties follow from it.
  StageOrder is not inductive: `OrderFits` adds that a card that is awake (ready, or
  one step from it) has its dependencies done, and that what a pass listed as done
  stayed done. RetryChainsBounded needs `ChainsFit`: generation and rank of each
  retry, and that the list of the pass shows every retry that the rank counts.
  `Ancestry` is a recursive function; what is proved about it uses
  well-founded descent on sets of card numbers (a least counterexample), which is no
  induction over an operator. The attempt found two properties false beyond the
  bounds of the runs: EvidenceKept for a card that a newer head made stale,
  OwnerDecides for a card beyond its budget. Both now say so (section 3.2).
* `QueueEventsProofs`: `TypeCorrect` (EventsTypeOK), `CompletionsRecorded`
  (DoneIsRecorded) and `LadderClimbs` (PingsClimb), for any cards, reports, rungs
  and number of deaths. DoneIsRecorded speaks of the moments between passes; the
  inductive form `DoneIsHandled` says that a completion that was seen is recorded,
  lost or still due. For PingsClimb, `CountedOn` relates the stored count to the last rung:
  before an acknowledgement the count is at least the last rung recorded, and
  a ping that waits to be recorded carries a count above it.
* `CourseDeskProofs`: `DeskInvariant` and from it `CourseTypeCorrect` (CourseTypeOK),
  `NothingBeforeReview` (WorkWasJudged), `EvidenceIsOfTheAnswer`
  (VerifiedAsAnswered) and `EngagedIsCreated` (EngagedHasRemote). Any copy may
  become the file, so the invariant asks of every copy what it asks of the file
  (`CopiesKept`): `Kept(c, J)` says that c is valid, that its evidence matches its
  answers, and that its approval and its ready review are for inputs in J, which
  were judged. One lemma per operation of `Courses` shows that a kept copy becomes
  a kept copy; `KeptGrows` carries the other copies over a review that adds to J.
  `AwaitsRemote` is the part about creation, for any number of requests at once: until
  the repository exists, and unless a request died in the creation or loaded the course
  as it was seeded, no handler has an engaged or paused copy to save or to restore but
  those still to be seeded (`Waits`), and the Captain rests, so nobody can write an
  engaged course back after a failed creation. Without either exception it is false:
  the copy of such a request is engaged, and nothing keeps it from being saved.

Assumptions: the owner strings differ and the times are sane (`OwnersDiffer`,
`TimesAreSane`); the cards, repairs and budgets are well formed
(`CardsAreSane`, `NoneDiffers`, `BoundsAreSane`); the bounds of the delivery are
numbers and its policies the two of the code (`BoundsAreSane`, `PoliciesAreSane`); the
plans are those `_stage_sequence` can give, the profiles finite, the adapters the two
of the code (`PlansAreTyped`, `ProfilesAreFinite`, `BackendsAreKnown`,
`RetriesAreBounded`, `WorkflowBounds`, `TroubleIsBounded`); the first rung is one and the ladder
ends below the bound (`LevelsAreRungs`, `EventBounds`); there is a routing, and
None is no input record (`ValuesAreSane`, `DeskBounds`).

Theorems about the queue beyond its types assume one controller, which `RepoLease` provides
for passes that leave in time. `StagesAreOrdered` assumes `MaxRetries >= 1`, the
default being 2: without a retry the direct adapter promotes TODO cards before their
parents are done (section 3.2), so that StageOrder is false.

Only model-checked: DeadRowGoes, OrphanRecovered, MergeIsVerified and OwnerIsPinged,
which are liveness under fairness. Every safety and action property of the passing
runs is proved. The properties of the four violation runs are false.

## 5. Not modelled

* The Workboard gateway's own storage, sessions and command line are outside the
  repository; what the adapter asks of it is in `WorkflowReconcile`.
* Usage accounting and the dispatch budget: a suppressed dispatch is a choice of
  the models (`EndPassSuppressed`), the arithmetic on usage rows is not modelled.
* The model harness, baseline collection, provider logs, the installer, the
  scheduler files, the plugins, and the sidecar's configuration edits and reports
  are parsing, I/O and user interface.
* In the queue: worker output is always well formed; attempts of the
  in-process executor are attempts like those of any worker.
* In the workflow: several workflows on one board. Work keys and labels
  separate their cards in most decisions, but reconcile passes the whole board's cards
  to the validator and to the completion gate (`orchestration.py:550`), so cards
  of another workflow may count there: one workflow is a simplification, and
  the properties say nothing of a board with more. Archived cards, the wording of
  titles and notes.
* In the delivery: owner approvals and proposals, `--force-replan`,
  advisory, shadow and disabled modes, the control_plane_complete policy,
  `recover-pr`, and queue events in the same log: a repository with a queue delivers
  through it, and where both write, the window of section 3.2 is used up sooner.
  Re-runs of a finished workflow run. The UX review answers like any other review and is part of it. A
  worktree holds nothing that a later pass reads.
* In the courses: creation over an existing course, and what never changes
  after it (goal, scope, texts). Of the UI server only its concurrency is modelled;
  its files, tokens and routes are not.
* In the queue events: passes without `--send`, archived cards, a done card that is
  opened again, and the rotation of the last 200 events.

## 6. Plan

1. `DeliveryCycle`, extended by proposals and approvals: one use of an approval, and a
   recovery property for the states of section 3.2.
2. The composition of `RepoLease` and `DirectQueue`: what a dispatch pass that
   outlives its term can break, and the theorem that nothing breaks when passes
   leave in time.
3. The dispatch budget of `usage.py` and the fallback of the model harness.
