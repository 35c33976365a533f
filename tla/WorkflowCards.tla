--------------------------- MODULE WorkflowCards ---------------------------
(***************************************************************************)
(* The cards of one workflow and what WorkflowOrchestrator.reconcile reads *)
(* off them: which proofs count, which retries, repairs and recoveries     *)
(* belong to a card, and what the pass decides to do about each card.      *)
(*                                                                         *)
(* A list L of cards is a sequence in creation order; a card is named by   *)
(* its position.  The labels retry-for:, repair-for: and control-plane-    *)
(* recovery-for: are the fields retry, repair and recov (0: no such label) *)
(* and are inherited by a retry, as its labels are.  Every decision here   *)
(* is about a list that may be older than the cards.                       *)
(***************************************************************************)
EXTENDS Integers, FiniteSets, Sequences

CONSTANTS Backends,     \* the adapters to consider: "direct", "workboard"
          Plans,        \* the planner decisions to consider
          Profiles,     \* keys of QA profiles
          MaxRetries    \* max_retries of every card

ASSUME BackendsAreKnown == Backends \subseteq {"direct", "workboard"}
ASSUME RetriesAreBounded == MaxRetries \in Nat
ASSUME ProfilesAreFinite == IsFiniteSet(Profiles)

VARIABLES backend,      \* the adapter of the repository (constant)
          plan,         \* kind of action, auto_merge policy, planned QA (constant)
          actual,       \* QA profiles that the PR's real paths call for (constant)
          cards,        \* the board
          enq,          \* 0, or the position in the plan that enqueue is at
          ws,           \* the isolated worktree: none, live or removed
          head,         \* pushes to the pull request; 0: there is none yet
          merged,       \* whether it was merged
          pass,         \* the reconcile pass that is running
          trouble       \* what may still go wrong (bounds a behaviour)

Kinds == {"issue", "build", "repair", "review"}
Stages == {"root", "control", "implementation", "repair", "review", "qa",
           "final", "merge", "post_merge"}
ReviewerStages == {"review", "qa", "final"}
Statuses == {"todo", "ready", "running", "orphaned", "review", "blocked", "done"}

(* The class of a block reason: "none" is a block without any evidence.    *)
Whys == {"none", "technical", "stale", "owner", "cancelled"}

ASSUME PlansAreTyped ==
    Plans \subseteq [kind : Kinds, auto : BOOLEAN, qa : Seq(Profiles)]

(* A proof record: bare has no passed status, passed lacks the marker that *)
(* a final or QA stage needs, marked names the reviewed head.              *)
NoProof == [form |-> "none", head |-> 0]

(* _stage_sequence: the stages after the root card, which is number 1.     *)
Row(stage, qa, deps) == [stage |-> stage, qa |-> qa, deps |-> deps]

BuildRows(p) ==
    IF p.kind = "review" THEN <<>>
    ELSE <<Row(IF p.kind = "repair" THEN "repair" ELSE "implementation", "", {1})>>

PullRequestRows(p) ==
    LET first  == 1 + Len(BuildRows(p))
        review == first + 1
        final  == review + Len(p.qa) + 1
        gates  == [k \in 1 .. Len(p.qa) |-> Row("qa", p.qa[k], {first})]
    IN  BuildRows(p) \o <<Row("review", "", {first})>> \o gates
          \o <<Row("final", "", review .. final - 1)>>
          \o (IF p.auto THEN <<Row("merge", "", {final}),
                               Row("post_merge", "", {final + 1})>> ELSE <<>>)

StageRows(p) ==
    IF p.kind = "issue" THEN <<Row("control", "", {1}), Row("post_merge", "", {2})>>
    ELSE PullRequestRows(p)

Rows == <<Row("root", "", {})>> \o StageRows(plan)

Card(slot, row, status) ==
    [slot |-> slot, stage |-> row.stage, qa |-> row.qa, deps |-> row.deps,
     retry |-> 0, repair |-> 0, recov |-> 0, status |-> status, why |-> "none",
     mark |-> FALSE, fails |-> 0, saw |-> 0, proof |-> NoProof]

(* Recovery cards and their retries carry no workflow label.               *)
InWorkflow(c) == c.recov = 0

(* worktrees.create and checkout_existing: implementations and repairs.    *)
NeedsWorktree == plan.kind \in {"build", "repair"}
OnWorktree(c) == /\ NeedsWorktree /\ InWorkflow(c)
                 /\ c.stage \notin {"root", "merge", "post_merge"}

----------------------------------------------------------------------------
(* Relations between cards.                                                *)

First(S) == CHOOSE i \in S : \A j \in S : i <= j
Last(S) == CHOOSE i \in S : \A j \in S : i >= j

RetriesOf(L, i) == {j \in DOMAIN L : L[j].retry = i}
RepairsOf(L, i) == {j \in DOMAIN L : L[j].repair = i}
RecoveriesOf(L, i) == {j \in DOMAIN L : L[j].recov = i}

(* The cards that j retries, directly or through other retries.            *)
Ancestry(L) ==
    LET Up[j \in 0 .. Len(L)] ==
          IF j = 0 \/ L[j].retry = 0 THEN {} ELSE {L[j].retry} \cup Up[L[j].retry]
    IN  Up
Ancestors(L, j) == Ancestry(L)[j]
Descendants(L, i) == {j \in DOMAIN L : i \in Ancestors(L, j)}

Active(c) == c.status \notin {"done", "blocked"}
ActiveRetries(L, i) == {j \in RetriesOf(L, i) : Active(L[j])}

(* _retry_depth plus the retries of the card itself.                       *)
DirectRetriesOnly(L, i) == Cardinality(RetriesOf(L, i)) >= MaxRetries
RetriesExhausted(L, i) ==
    Cardinality(Ancestors(L, i)) + Cardinality(RetriesOf(L, i)) >= MaxRetries

(* The direct adapter keeps parents where the core does not look for them. *)
Visible(c) == IF backend = "direct" THEN {} ELSE c.deps

(* The direct adapter never writes failureCount: the core always sees one. *)
FailuresSeen(c) == IF backend = "direct" \/ c.fails = 0 THEN 1 ELSE c.fails
HasFailureEvidence(c) == c.status = "blocked" \/ (backend = "workboard" /\ c.fails > 0)

----------------------------------------------------------------------------
(* Which proofs count.                                                     *)

HasProof(c) == c.proof.form \in (IF c.stage = "final" THEN {"marked"}
                                 ELSE {"passed", "marked"})

(* The workflow names its pull request by its source or by a proof.        *)
PullRequestKnown(L) ==
    \/ plan.kind \in {"review", "repair"}
    \/ \E i \in DOMAIN L : L[i].stage = "implementation" /\ HasProof(L[i])

Planned == {plan.qa[k] : k \in 1 .. Len(plan.qa)}
RequiredQA == Planned \cup actual

QaCurrent(c) == c.proof.form = "marked" /\ c.proof.head = head

(* The gate that the validator asks GitHub for: a merged pull request is   *)
(* not mergeable any more.                                                 *)
GateOpen == ~merged

FinalCurrent(L, c) ==
    /\ c.proof.head = head /\ GateOpen
    /\ \A q \in RequiredQA :
          \E j \in DOMAIN L : InWorkflow(L[j]) /\ L[j].qa = q /\ QaCurrent(L[j])

(* GitHubCompletionValidator.validate, asked about final and QA cards.     *)
LiveValidated(L, c) ==
    CASE c.stage = "final" -> PullRequestKnown(L) /\ FinalCurrent(L, c)
      [] c.stage = "qa"    -> PullRequestKnown(L) /\ QaCurrent(c)
      [] OTHER             -> TRUE

Valid(L, i) == HasProof(L[i]) /\ LiveValidated(L, L[i])

DoneRetries(L, i) == {j \in Descendants(L, i) : L[j].status = "done"}
PassedRetries(L, i) == {j \in Descendants(L, i) : HasProof(L[j])}
PassedAncestor(L, i) == \E j \in Ancestors(L, i) : HasProof(L[j])

(* A parent counts as valid through any of its retries, too.               *)
MergeReviewed(L, i) ==
    \E j \in DOMAIN L :
       /\ InWorkflow(L[j]) /\ L[j].stage = "final"
       /\ L[j].status = "done" /\ HasProof(L[j])
       /\ \/ Visible(L[i]) = {}
          \/ \E p \in Visible(L[i]) : j = p \/ p \in Ancestors(L, j)

ValidPredecessors(L, i) ==
    /\ Visible(L[i]) # {}
    /\ \A p \in Visible(L[i]) : \E j \in DOMAIN L :
          /\ L[j].status = "done" /\ Valid(L, j)
          /\ j = p \/ p \in Ancestors(L, j)

----------------------------------------------------------------------------
(* What a pass decides.                                                    *)

(* Whether the card that a repair or a recovery is for needs it no longer. *)
TargetSettled(L, t) ==
    \/ L[t].status = "done" /\ (HasProof(L[t]) \/ PassedRetries(L, t) # {})
    \/ L[t].status = "blocked" /\ L[t].mark

RepairObsolete(L, i) == L[i].repair # 0 /\ TargetSettled(L, L[i].repair)
RecoveryObsolete(L, i) ==
    /\ L[i].recov # 0
    /\ IF L[L[i].recov].stage = "merge" THEN MergeReviewed(L, L[i].recov)
       ELSE TargetSettled(L, L[i].recov)

(* The three loops before the main one cancel work that is not needed.     *)
Superfluous(L) ==
    {i \in DOMAIN L :
       /\ L[i].status \in {"ready", "todo"}
       /\ \/ L[i].retry # 0 /\ PassedAncestor(L, i)
          \/ L[i].stage = "control" /\ RecoveryObsolete(L, i)
          \/ L[i].stage = "repair" /\ RepairObsolete(L, i)}

Op(name, card, proof) == [name |-> name, card |-> card, proof |-> proof]
Nothing == Op("nothing", 0, NoProof)
CompleteWith(i, proof) == Op("complete", i, proof)

(* _create_fresh_retry and _create_control_plane_recovery return the live  *)
(* card that is already there.                                             *)
FreshRetry(L, i) ==
    IF ActiveRetries(L, i) # {} THEN Nothing ELSE Op("retry", i, NoProof)
FreshRecovery(L, i) ==
    IF \E j \in RecoveriesOf(L, i) : Active(L[j]) THEN Nothing
    ELSE Op("recovery", i, NoProof)

(* The proof of the first passed retry is moved to the stage's own card.   *)
Promote(L, i) == CompleteWith(i, L[First(PassedRetries(L, i))].proof)

RetryOrRecover(L, i) ==
    IF ActiveRetries(L, i) # {}
    THEN LET r == First(ActiveRetries(L, i))
         IN  IF RetriesExhausted(L, r) THEN FreshRecovery(L, r) ELSE Nothing
    ELSE IF RetriesExhausted(L, i) THEN FreshRecovery(L, i) ELSE FreshRetry(L, i)

WithinBudget(c) == FailuresSeen(c) <= MaxRetries
RequeueOrRecover(L, i) ==
    IF WithinBudget(L[i]) THEN Op("requeue", i, NoProof) ELSE FreshRecovery(L, i)

(* A reviewer blocked with a finding: its repair card, if there is one, is *)
(* requeued unless a repair is complete.                                   *)
BlockedReviewer(L, i) ==
    IF L[i].stage = "final" /\ L[i].why \in {"none", "stale"} /\ ValidPredecessors(L, i)
    THEN Op("recheck", i, NoProof)
    ELSE IF \E j \in RepairsOf(L, i) : L[j].status = "done" /\ Valid(L, j)
    THEN RetryOrRecover(L, i)
    ELSE IF RepairsOf(L, i) # {} THEN RequeueOrRecover(L, Last(RepairsOf(L, i)))
    ELSE Op("repair", i, NoProof)

CancelledOnly(c) == c.why = "cancelled"
OwnerSide(c) == c.why \in {"owner", "cancelled"}

Blocked(L, i) ==
    IF OwnerSide(L[i]) \/ L[i].mark THEN Nothing
    ELSE IF PassedRetries(L, i) # {} THEN Promote(L, i)
    ELSE IF L[i].stage = "merge" /\ MergeReviewed(L, i) THEN FreshRetry(L, i)
    ELSE IF L[i].stage \in ReviewerStages THEN BlockedReviewer(L, i)
    ELSE RequeueOrRecover(L, i)

Unproven(L, i) ==
    IF PassedRetries(L, i) # {} THEN Promote(L, i) ELSE RetryOrRecover(L, i)

(* The main loop's turn of card i.                                         *)
Decision(L, i) ==
    LET c == L[i]
    IN  IF c.stage = "repair" /\ RepairObsolete(L, i) THEN Nothing
        ELSE IF /\ c.stage = "merge" /\ c.retry = 0
                /\ HasFailureEvidence(c) /\ MergeReviewed(L, i)
        THEN FreshRetry(L, i)
        ELSE IF c.status \in {"ready", "todo"} /\ ~WithinBudget(c)
        THEN Op("reassign", i, NoProof)
        ELSE IF c.stage # "root" /\ c.status = "review"
        THEN IF Valid(L, i) THEN CompleteWith(i, c.proof) ELSE Unproven(L, i)
        ELSE IF c.stage # "root" /\ c.status = "done" /\ ~Valid(L, i)
        THEN Unproven(L, i)
        ELSE IF c.status = "blocked" THEN Blocked(L, i)
        ELSE Nothing
=============================================================================
