------------------------- MODULE WorkflowReconcile -------------------------
(***************************************************************************)
(* WorkflowOrchestrator over either adapter: enqueue materializes a        *)
(* workflow card by card, workers claim and finish cards at any time, and  *)
(* reconcile passes list the board, decide from that list (WorkflowCards)  *)
(* and change one card after the other.  Enqueue, reconcile and unblock    *)
(* hold the repository lease (RepoLease), so they exclude each other; the  *)
(* two-step writes of the direct adapter are the subject of DirectQueue.   *)
(*                                                                         *)
(* The Workboard is a service outside the repository: its claims, failure  *)
(* counts and the comment that records a reclaim are modelled from how     *)
(* openclaw_workboard.py and the orchestrator use them.                    *)
(***************************************************************************)
EXTENDS WorkflowCards

CONSTANTS MaxCards,     \* cards on the board (bounds a behaviour)
          MaxHead,      \* pushes (bounds a behaviour)
          MaxTrouble    \* disturbances, per kind of action (bounds a behaviour)

ASSUME WorkflowBounds == MaxCards \in Nat /\ MaxHead \in Nat /\ MaxHead > 0
ASSUME TroubleIsBounded == MaxTrouble \in [Kinds -> Nat]

setting == <<backend, plan, actual>>
vars == <<backend, plan, actual, cards, enq, ws, head, merged, pass, trouble>>

CardRecords ==
    [slot : Nat, stage : Stages, qa : Profiles \cup {""},
     deps : SUBSET (1 .. MaxCards), retry : 0 .. MaxCards, repair : 0 .. MaxCards,
     recov : 0 .. MaxCards, status : Statuses, why : Whys, mark : BOOLEAN,
     fails : Nat, saw : 0 .. MaxHead,
     proof : [form : {"none", "bare", "passed", "marked"}, head : 0 .. MaxHead]]

(* A pass: the list it decides from, the cards that list says to cancel,   *)
(* and the cards whose turn in the main loop is still to come.             *)
NoPass == [on |-> FALSE, list |-> <<>>, cancel |-> {}, turns |-> {}]

(* Type correctness of the board, the workflow and the pass.               *)
WorkflowTypeOK ==
    /\ backend \in Backends /\ plan \in Plans /\ actual \in SUBSET Profiles
    /\ cards \in Seq(CardRecords) /\ Len(cards) <= MaxCards
    /\ enq \in 0 .. Len(Rows) + 1 /\ ws \in {"none", "live", "removed"}
    /\ head \in 0 .. MaxHead /\ merged \in BOOLEAN
    /\ trouble \in 0 .. MaxTrouble[plan.kind]
    /\ pass.on \in BOOLEAN /\ pass.list \in Seq(CardRecords) /\ Len(pass.list) <= Len(cards)
    /\ pass.cancel \in SUBSET DOMAIN pass.list
    /\ pass.turns \in SUBSET DOMAIN pass.list

WorkflowInit ==
    /\ backend \in Backends /\ plan \in Plans /\ actual \in SUBSET Profiles
    /\ cards = <<>> /\ enq = 0 /\ ws = "none" /\ merged = FALSE
    /\ head = IF plan.kind \in {"review", "repair"} THEN 1 ELSE 0
    /\ pass = NoPass /\ trouble = 0

Hit == trouble < MaxTrouble[plan.kind] /\ trouble' = trouble + 1

----------------------------------------------------------------------------
(* Enqueue.                                                                *)

(* has_active_workflow: some card of the workflow is not DONE.             *)
HasActiveWorkflow(L) ==
    \E i \in DOMAIN L : InWorkflow(L[i]) /\ L[i].status # "done"

(* A removed worktree leaves its branch behind, and git refuses to create  *)
(* that branch again; create reuses a clean checkout of the default        *)
(* branch, checkout_existing none.                                         *)
Allocatable == \/ ~NeedsWorktree \/ ws = "none"
               \/ plan.kind = "build" /\ ws = "live" /\ head = 0

StartEnqueue == /\ enq = 0 /\ ~pass.on
                /\ ~HasActiveWorkflow(cards) /\ Allocatable
                /\ enq' = 1
                /\ ws' = IF NeedsWorktree THEN "live" ELSE ws
                /\ UNCHANGED <<setting, cards, head, merged, pass, trouble>>

SlotCards(s) == {i \in DOMAIN cards : cards[i].slot = s}

(* create_card is idempotent: the work key is the workflow and the stage.  *)
MaterializedAgain(s) ==
    LET row == Rows[s]
        deps == UNION {SlotCards(d) : d \in row.deps}
    IN  Append(cards, Card(s, [row EXCEPT !.deps = deps], "todo"))
Materialized(s) == IF SlotCards(s) # {} THEN cards ELSE MaterializedAgain(s)

CreateStage == /\ enq \in 1 .. Len(Rows) /\ Len(cards) < MaxCards
               /\ cards' = Materialized(enq) /\ enq' = enq + 1
               /\ UNCHANGED <<setting, ws, head, merged, pass, trouble>>

(* The root is complete once every stage has its card.                     *)
DoneWith(c, proof) == [c EXCEPT !.status = "done", !.proof = proof]

CloseRoot == /\ enq = Len(Rows) + 1
             /\ cards' = [i \in DOMAIN cards |->
                            IF cards[i].slot = 1
                            THEN DoneWith(cards[i], [form |-> "passed", head |-> 0])
                            ELSE cards[i]]
             /\ enq' = 0
             /\ UNCHANGED <<setting, ws, head, merged, pass, trouble>>

(* A call fails; a Workboard call may have had its effect.  enqueue drops  *)
(* the worktree when no stage card was acknowledged, the engine when the   *)
(* queue owns no card.                                                     *)
UnownedByQueue(L) == TRUE
Unowned(L) == enq <= 2 \/ ~HasActiveWorkflow(L)

FailEnqueue(effective) ==
    /\ enq > 0 /\ Hit
    /\ effective => backend = "workboard" /\ enq <= Len(Rows) /\ Len(cards) < MaxCards
    /\ cards' = IF effective THEN Materialized(enq) ELSE cards
    /\ ws' = IF ws = "live" /\ Unowned(cards') THEN "removed" ELSE ws
    /\ enq' = 0
    /\ UNCHANGED <<setting, head, merged, pass>>

CrashInEnqueue == /\ enq > 0 /\ Hit
                  /\ enq' = 0
                  /\ UNCHANGED <<setting, cards, ws, head, merged, pass>>

----------------------------------------------------------------------------
(* Workers, operators and GitHub.                                          *)

Set(i, c) == cards' = [cards EXCEPT ![i] = c]
OfWorkers == <<setting, enq, ws, pass>>

(* The Workboard's merge cards are left to deterministic dispatch.         *)
Claim(i) == /\ cards[i].status = "ready"
            /\ ~(backend = "workboard" /\ cards[i].stage = "merge")
            /\ Set(i, [cards[i] EXCEPT !.status = "running", !.saw = head])
            /\ UNCHANGED <<OfWorkers, head, merged, trouble>>

(* evaluate_workboard_merge: a completed final review anchored to the head. *)
MergeAllowed(f) == /\ cards[f].stage = "final" /\ cards[f].status = "done"
                   /\ cards[f].proof.form = "marked" /\ cards[f].proof.head = head
                   /\ GateOpen

Coding(c) == c.stage \in {"implementation", "repair"}

(* A worker completes its card; a coder has pushed before.                 *)
Succeed(i) ==
    /\ cards[i].status = "running"
    /\ cards[i].stage = "merge" => \E f \in DOMAIN cards : MergeAllowed(f)
    /\ head' = IF Coding(cards[i]) /\ head < MaxHead /\ GateOpen THEN head + 1 ELSE head
    /\ merged' = (merged \/ cards[i].stage = "merge")
    /\ Set(i, DoneWith(cards[i], [form |-> "marked",
                        head |-> IF Coding(cards[i]) THEN head' ELSE cards[i].saw]))
    /\ UNCHANGED <<OfWorkers, trouble>>

(* It completes without a passed proof, or without the stage's marker.     *)
CompleteWithout(i, form) ==
    /\ cards[i].status = "running" /\ cards[i].stage # "merge" /\ Hit
    /\ form = "passed" => cards[i].stage \in {"qa", "final"}
    /\ Set(i, DoneWith(cards[i], [form |-> form, head |-> cards[i].saw]))
    /\ UNCHANGED <<OfWorkers, head, merged>>

CountedDown(c, why) == [c EXCEPT !.status = "blocked", !.why = why, !.fails = @ - 1]
BlockedFor(c, why) == [c EXCEPT !.status = "blocked", !.why = why,
    !.fails = IF backend = "direct" /\ why = "owner" THEN @ ELSE @ + 1]

BlockCard(i, why) == /\ cards[i].status = "running" /\ Hit
                     /\ Set(i, BlockedFor(cards[i], why))
                     /\ UNCHANGED <<OfWorkers, head, merged>>

(* The worker dies; its card stays RUNNING until its claim has expired.    *)
Orphan(i) == /\ cards[i].status = "running" /\ Hit
             /\ Set(i, [cards[i] EXCEPT !.status = "orphaned"])
             /\ UNCHANGED <<OfWorkers, head, merged>>

(* cancel_claimed_card of the direct adapter.                              *)
CancelClaim(i) == /\ backend = "direct" /\ cards[i].status = "running" /\ Hit
                  /\ Set(i, [cards[i] EXCEPT !.status = "blocked", !.why = "cancelled"])
                  /\ UNCHANGED <<OfWorkers, head, merged>>

(* orchestrate unblock, under the repository lease.                        *)
Unblock(i) == /\ enq = 0 /\ ~pass.on
              /\ cards[i].status = "blocked" /\ cards[i].why = "owner"
              /\ Set(i, [cards[i] EXCEPT !.status = "todo", !.why = "none"])
              /\ UNCHANGED <<OfWorkers, head, merged, trouble>>

(* Somebody pushes to the pull request.                                    *)
Push == /\ head \in 1 .. MaxHead - 1 /\ GateOpen /\ Hit
        /\ head' = head + 1
        /\ UNCHANGED <<OfWorkers, cards, merged>>

----------------------------------------------------------------------------
(* Reconcile passes.                                                       *)

(* recover_ended_workers of the Workboard adapter.                         *)
EndedReviewed(L) ==
    IF backend = "direct" THEN L
    ELSE [i \in DOMAIN L |-> IF L[i].status = "orphaned"
                             THEN [L[i] EXCEPT !.status = "review"] ELSE L[i]]

(* _materialize_actual_qa: required profiles that no card carries.         *)
MissingQA(L) ==
    IF PullRequestKnown(L) /\ \E i \in DOMAIN L : InWorkflow(L[i])
    THEN {q \in RequiredQA : ~\E i \in DOMAIN L : InWorkflow(L[i]) /\ L[i].qa = q}
    ELSE {}

Ordered(S) == CHOOSE s \in [1 .. Cardinality(S) -> S] : \A x \in S : \E k \in DOMAIN s : s[k] = x
WithActualQA(L) ==
    LET missing == Ordered(MissingQA(L))
    IN  L \o [k \in DOMAIN missing |-> Card(0, Row("qa", missing[k], {}), "ready")]

BeginPass == /\ enq = 0 /\ ~pass.on /\ cards # <<>>
             /\ cards' = WithActualQA(EndedReviewed(cards))
             /\ Len(cards') <= MaxCards
             /\ pass' = [on |-> TRUE, list |-> cards', turns |-> DOMAIN cards',
                         cancel |-> Superfluous(cards')]
             /\ UNCHANGED <<setting, enq, ws, head, merged, trouble>>

OfPasses == <<setting, enq, ws, head, merged, trouble>>

(* reclaim_card takes the card from whoever holds it.  Only the Workboard  *)
(* keeps the reason where the core recognizes a cancelled card.            *)
Reclaimed(c, status) == [c EXCEPT !.status = status]
CancelledCard(c) == [Reclaimed(c, "blocked") EXCEPT !.mark = (backend = "workboard")]

CancelTurn(i) == /\ pass.on /\ i \in pass.cancel
                 /\ Set(i, CancelledCard(cards[i]))
                 /\ pass' = [pass EXCEPT !.cancel = @ \ {i}]
                 /\ UNCHANGED OfPasses

Acting == {i \in pass.turns : Decision(pass.list, i).name # "nothing"}

(* A retry copies stage, labels and what it sees of the parents.           *)
RetryCard(c, i) == [Card(0, Row(c.stage, c.qa, Visible(c)), "ready") EXCEPT
                       !.retry = i, !.repair = c.repair, !.recov = c.recov]
RepairCard(i) == [Card(0, Row("repair", "", {}), "ready") EXCEPT !.repair = i]
RecoveryCard(i) == [Card(0, Row("control", "", {}), "ready") EXCEPT !.recov = i]

(* A stale gate: waiting repairs are cancelled, the reviewer is retried.   *)
WaitingRepairs(i) == {j \in RepairsOf(pass.list, i) :
                        pass.list[j].status \in {"ready", "todo", "blocked"}}
Rechecked(i) ==
    LET held == [j \in DOMAIN cards |-> IF j \in WaitingRepairs(i)
                                        THEN CancelledCard(cards[j]) ELSE cards[j]]
    IN  IF ActiveRetries(pass.list, i) # {} THEN held
        ELSE Append(held, RetryCard(pass.list[i], i))

Applied(op) ==
    LET c == cards[op.card]
        With(new) == [cards EXCEPT ![op.card] = new]
    IN  CASE op.name = "complete" -> With(DoneWith(c, op.proof))
          [] op.name = "requeue"  -> With(Reclaimed(c, "ready"))
          [] op.name = "reassign" -> With([Reclaimed(c, "ready") EXCEPT !.fails = 0])
          [] op.name = "retry"    -> Append(cards, RetryCard(pass.list[op.card], op.card))
          [] op.name = "repair"   -> Append(cards, RepairCard(op.card))
          [] op.name = "recovery" -> Append(cards, RecoveryCard(op.card))
          [] op.name = "recheck"  -> Rechecked(op.card)

MainTurn == /\ pass.on /\ pass.cancel = {} /\ Acting # {}
            /\ LET i == First(Acting)
               IN  /\ cards' = Applied(Decision(pass.list, i))
                   /\ pass' = [pass EXCEPT !.turns = {j \in @ : j > i}]
            /\ Len(cards') <= MaxCards
            /\ UNCHANGED OfPasses

(* dispatch of the direct adapter: expired claims within the card's budget, *)
(* then TODO cards whose parents are all DONE.                             *)
Expired(L) == [i \in DOMAIN L |->
    IF L[i].status # "orphaned" THEN L[i]
    ELSE [L[i] EXCEPT !.fails = @ + 1, !.why = "technical",
            !.status = IF L[i].fails + 1 <= MaxRetries THEN "ready" ELSE "blocked"]]

PromotedEarly(L) == [i \in DOMAIN L |->
    IF L[i].status = "todo" /\ \A d \in L[i].deps : L[d].status \in {"done", "blocked"}
    THEN Reclaimed(L[i], "ready") ELSE L[i]]
Promoted(L) == [i \in DOMAIN L |->
    IF L[i].status = "todo" /\ \A d \in L[i].deps : L[d].status = "done"
    THEN Reclaimed(L[i], "ready") ELSE L[i]]

(* _dispatch_deterministic_merge: the first merge card whose parents are   *)
(* DONE, if they include one final review and the pull request is known.   *)
MergeReady == {i \in DOMAIN cards :
    /\ cards[i].stage = "merge" /\ cards[i].status \in {"todo", "ready"}
    /\ cards[i].deps # {} /\ \A d \in cards[i].deps : cards[d].status = "done"}
Mergeable == MergeReady # {} /\ PullRequestKnown(cards)
MergeNow == /\ Mergeable
            /\ \E f \in cards[First(MergeReady)].deps : MergeAllowed(f)

AfterMerge(allowed) ==
    IF backend = "direct" \/ ~Mergeable THEN cards
    ELSE [cards EXCEPT ![First(MergeReady)] =
            IF allowed THEN DoneWith(@, [form |-> "passed", head |-> head])
            ELSE BlockedFor(@, "technical")]

Dispatched(allowed) ==
    Promoted(IF backend = "direct" THEN Expired(cards) ELSE AfterMerge(allowed))

(* _cleanup_completed_workflows lists anew: all cards DONE and valid.      *)
CleanableAnyway == /\ ws = "live"
                   /\ \A i \in DOMAIN cards : cards[i].slot > 0 => cards[i].status = "done"
Cleanable == /\ ws = "live"
             /\ \A i \in DOMAIN cards :
                  InWorkflow(cards[i]) => cards[i].status = "done" /\ Valid(cards, i)

Cleanup == ws' = IF Cleanable THEN "removed" ELSE ws
MainLoopOver == pass.on /\ pass.cancel = {} /\ Acting = {}

EndPass == /\ MainLoopOver /\ Cleanup
           /\ cards' = Dispatched(MergeNow)
           /\ merged' = (merged \/ (backend = "workboard" /\ MergeNow))
           /\ pass' = NoPass
           /\ UNCHANGED <<setting, enq, head, trouble>>

(* The merge gate denies for a reason of its own (checks, threads).        *)
EndPassDenied == /\ MainLoopOver /\ Cleanup
                 /\ backend = "workboard" /\ MergeNow /\ Hit
                 /\ cards' = Dispatched(FALSE) /\ pass' = NoPass
                 /\ UNCHANGED <<setting, enq, head, merged>>

(* Dispatch is suppressed by the usage budget or the models' health.       *)
EndPassSuppressed == /\ MainLoopOver /\ Cleanup /\ Hit
                     /\ pass' = NoPass
                     /\ UNCHANGED <<setting, cards, enq, head, merged>>

(* orchestrate dispatch: a lease and a dispatch without a pass.            *)
DispatchAlone == /\ enq = 0 /\ ~pass.on
                 /\ cards' = Dispatched(MergeNow)
                 /\ merged' = (merged \/ (backend = "workboard" /\ MergeNow))
                 /\ UNCHANGED <<setting, enq, ws, head, pass, trouble>>

(* A call of the adapter fails or the process dies.                        *)
AbortPass == /\ pass.on /\ Hit
             /\ pass' = NoPass
             /\ UNCHANGED <<setting, cards, enq, ws, head, merged>>

----------------------------------------------------------------------------
EnqueueStep == \/ StartEnqueue \/ CreateStage \/ CloseRoot \/ CrashInEnqueue
               \/ \E effective \in BOOLEAN : FailEnqueue(effective)

WorkerOn(i) == Claim(i) \/ Succeed(i)
TroubleOn(i) == \/ \E form \in {"bare", "passed"} : CompleteWithout(i, form)
                \/ \E why \in {"technical", "stale", "owner"} : BlockCard(i, why)
                \/ Orphan(i) \/ CancelClaim(i)

PassStep == \/ BeginPass \/ MainTurn \/ EndPass \/ EndPassDenied
            \/ EndPassSuppressed \/ AbortPass \/ DispatchAlone
            \/ \E i \in DOMAIN cards : CancelTurn(i)

WorkflowNext == \/ EnqueueStep \/ PassStep \/ Push
                \/ \E i \in DOMAIN cards : WorkerOn(i) \/ TroubleOn(i) \/ Unblock(i)

WorkflowSpec == WorkflowInit /\ [][WorkflowNext]_vars

----------------------------------------------------------------------------
(* The card whose work i repeats: i itself, or the one it retries at last. *)
Origin(i) == IF Ancestors(cards, i) = {} THEN i ELSE First(Ancestors(cards, i))
Started(c) == c.status \in {"running", "orphaned", "review", "done"}

(* A stage, or a retry of it, is worked on only when all the stages it     *)
(* depends on are DONE, however they got there and whatever was retried.   *)
StageOrder ==
    \A i \in DOMAIN cards : Started(cards[i]) =>
        \A d \in cards[Origin(i)].deps : cards[d].status = "done"

(* The evidence of a stage is not lost: once its own card is DONE by a     *)
(* proof that counts, it stays DONE by one, whatever is promoted onto it   *)
(* and however old the list of the pass is.  A card beyond its budget that *)
(* completes while a pass holds it for READY is the exception: it is       *)
(* reassigned.                                                             *)
EvidenceKept ==
    [][\A i \in DOMAIN cards :
          /\ cards[i].slot > 1 /\ WithinBudget(cards[i])
          /\ cards[i].status = "done" /\ HasProof(cards[i])
          => cards'[i].status = "done" /\ HasProof(cards'[i])]_vars

(* A card that waits for its owner waits until the owner resumes it: no    *)
(* pass requeues or completes it, however old its list is.  Repair cards   *)
(* are requeued by their reviewer, and a card beyond its budget that a     *)
(* pass holds for READY is reassigned: the exceptions.                     *)
OwnerDecides ==
    [][\A i \in DOMAIN cards :
          /\ cards[i].status = "blocked" /\ cards[i].why = "owner"
          /\ cards[i].repair = 0 /\ WithinBudget(cards[i])
          => \/ cards'[i].status = "blocked" /\ cards'[i].why = "owner"
             \/ cards'[i].status = "todo"]_vars

(* "After every card in a workflow has completed with proof": the worktree *)
(* of a workflow is not removed while a card that works in it is pending.  *)
(* A Workboard call whose answer is lost is the exception (README).        *)
WorktreeOutlivesWork ==
    [][ws = "live" /\ ws' = "removed" /\ backend = "direct" =>
          \A i \in DOMAIN cards' : OnWorktree(cards'[i]) => cards'[i].status = "done"]_vars

(* "Stop proofless retry chains before they become an unattended loop":    *)
(* a card, its retries and theirs are at most MaxRetries generations and   *)
(* siblings; merges and stale gates are retried outside that budget.       *)
RetryChainsBounded ==
    \A i \in DOMAIN cards : cards[i].stage \notin {"merge", "final"} =>
        Cardinality(Ancestors(cards, i)) + Cardinality(RetriesOf(cards, i)) <= MaxRetries

(* A stage has one card, whatever enqueue was interrupted and repeated.    *)
OneCardPerStage == \A s \in 1 .. Len(Rows) : Cardinality(SlotCards(s)) <= 1

(* "The validator compares every required profile with the current PR      *)
(* head": nothing is merged before each profile that the pull request's    *)
(* paths call for has evidence for the head that is merged.                *)
MergeHasEvidence ==
    [][~merged /\ merged' =>
          \A q \in RequiredQA : \E i \in DOMAIN cards :
             InWorkflow(cards[i]) /\ cards[i].qa = q /\ QaCurrent(cards[i])]_vars
=============================================================================
