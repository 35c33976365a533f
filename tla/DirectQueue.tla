---------------------------- MODULE DirectQueue ----------------------------
(***************************************************************************)
(* DirectOrchestrator: cards in SQLite, workers that claim them under an   *)
(* owner/token pair with an expiring lease, operators who cancel claims,   *)
(* and controllers, the processes that hold the repository lease and run   *)
(* a reconcile, dispatch or unblock pass.                                  *)
(*                                                                         *)
(* Worker operations and cancellation are single transactions and take no  *)
(* repository lease.  A controller lists the cards, decides from that      *)
(* list, and then changes one card at a time: recover_expired_claims in a  *)
(* transaction that looks again, every other change by reading the card    *)
(* and writing a modified copy of it over a second connection (_update),   *)
(* two steps here.  With one controller this is the code under a held      *)
(* repository lease; with two it is a lease that was outlived (RepoLease). *)
(*                                                                         *)
(* A claim's token is drawn afresh for each claim, so attempts stand for   *)
(* tokens and each is used once.  Claim expiry is kept relative to now.    *)
(***************************************************************************)
EXTENDS Integers, FiniteSets

CONSTANTS Card,         \* work items of one board
          Parents,      \* Parents[c]: the cards c depends on
          RepairOf,     \* RepairOf[c]: the reviewer card a repair card repairs
          Attempt,      \* claims that may be made (bounds a behaviour)
          Controller,   \* processes that act under the repository lease
          None,
          LeaseTicks,   \* lease_seconds, in ticks
          MaxRetries    \* MaxRetries[c]: metadata.automation.maxRetries of c

Repair == DOMAIN RepairOf
Reviewer == {RepairOf[c] : c \in Repair}

ASSUME CardsAreSane == /\ Parents \in [Card -> SUBSET Card]
                       /\ RepairOf \in [Repair -> Card]
                       /\ Repair \subseteq Card
                       /\ Reviewer \cap Repair = {}
ASSUME NoneDiffers == None \notin Attempt \cup Card
ASSUME BoundsAreSane == /\ LeaseTicks \in Nat \ {0}
                        /\ MaxRetries \in [Card -> Nat]
                        /\ IsFiniteSet(Attempt)

VARIABLES cards,        \* the rows of the table direct_cards
          att,          \* what became of each attempt, as its worker knows it
          job,          \* the card each attempt claimed
          ctl,          \* each controller's pass: phase, list, turns, pending write
          cancelled,    \* attempts whose claim an operator cancelled
          expired       \* attempts whose claim ran out of time

revoked == <<cancelled, expired>>
vars == <<cards, att, job, ctl, cancelled, expired>>

Statuses == {"absent", "todo", "ready", "running", "blocked", "done"}
Reasons == {"technical", "finding", "owner"}
Blocks == {"none", "cancelled"} \cup Reasons
CardRecord == [status : Statuses, claim : Attempt \cup {None}, left : 0 .. LeaseTicks,
               failures : Nat, block : Blocks,
               proof : Attempt \cup {None}]

(* What a list of cards tells a pass about one card: its status and, for a *)
(* blocked one, the class of its reason.  Every reason without a known     *)
(* prefix is technical, no reason at all included (_block_reason).         *)
Views == (Statuses \ {"blocked"}) \cup {"technical", "owner", "cancelled"}
View(r) == IF r.status # "blocked" THEN r.status
           ELSE IF r.block \in {"owner", "cancelled"} THEN r.block ELSE "technical"
Listing == [c \in Card |-> View(cards[c])]

Phases == {"idle", "reconcile", "recover", "promote", "unblock"}
NoWrite == [card |-> None, rec |-> None]
Idle == [phase |-> "idle", list |-> [c \in Card |-> "absent"], turns |-> {},
         lapsed |-> {}, pending |-> NoWrite]

Writes == {NoWrite} \cup [card : Card, rec : CardRecord]
Passes == [phase : Phases, list : [Card -> Views], turns : SUBSET Card,
           lapsed : SUBSET Attempt, pending : Writes]

(* Type correctness of the cards, the attempts and the controllers.        *)
TypeOK == /\ cards \in [Card -> CardRecord]
          /\ att \in [Attempt -> {"unused", "working", "accepted", "blocked",
                                  "rejected", "crashed"}]
          /\ job \in [Attempt -> Card \cup {None}]
          /\ ctl \in [Controller -> Passes]
          /\ cancelled \in SUBSET Attempt /\ expired \in SUBSET Attempt

Created(status) == [status |-> status, claim |-> None, left |-> 0, failures |-> 0,
                    block |-> "none", proof |-> None]

Init == /\ cards = [c \in Card |-> Created(IF c \in Repair THEN "absent" ELSE "todo")]
        /\ att = [a \in Attempt |-> "unused"]
        /\ job = [a \in Attempt |-> None]
        /\ ctl = [k \in Controller |-> Idle]
        /\ cancelled = {} /\ expired = {}

----------------------------------------------------------------------------
(* Workers and operators: transactions, no repository lease.               *)

Unclaimed(r) == [r EXCEPT !.claim = None, !.left = 0]

Claimed(r, a) == [r EXCEPT !.status = "running", !.claim = a, !.left = LeaseTicks]

Claim(a, c) == /\ att[a] = "unused"
               /\ cards[c].status = "ready" /\ cards[c].claim = None
               /\ cards' = [cards EXCEPT ![c] = Claimed(@, a)]
               /\ att' = [att EXCEPT ![a] = "working"]
               /\ job' = [job EXCEPT ![a] = c]
               /\ UNCHANGED <<ctl, revoked>>

(* _claimed_update: the token still names the card's claim, and the claim  *)
(* has not expired.                                                        *)
TokenOnly(a) == job[a] # None /\ cards[job[a]].claim = a
CardOnly(a) == /\ job[a] # None
               /\ cards[job[a]].claim # None /\ cards[job[a]].left > 0
Credited(a) == /\ job[a] # None
               /\ cards[job[a]].claim = a /\ cards[job[a]].left > 0

Prolonged(r) == [r EXCEPT !.left = @ + LeaseTicks]
Renewed(r) == [r EXCEPT !.left = LeaseTicks]

Heartbeat(a) == /\ att[a] = "working" /\ Credited(a)
                /\ cards' = [cards EXCEPT ![job[a]] = Renewed(@)]
                /\ UNCHANGED <<att, job, ctl, revoked>>

Completed(r, a) == [Unclaimed(r) EXCEPT !.status = "done", !.proof = a]

Complete(a) == /\ att[a] = "working" /\ Credited(a)
               /\ cards' = [cards EXCEPT ![job[a]] = Completed(@, a)]
               /\ att' = [att EXCEPT ![a] = "accepted"]
               /\ UNCHANGED <<job, ctl, revoked>>

(* A TECHNICAL reason counts against the card's budget, any other does not. *)
BlockedFor(r, why) ==
    [Unclaimed(r) EXCEPT !.status = "blocked", !.block = why,
                         !.failures = IF why = "technical" THEN @ + 1 ELSE @]

Block(a, why) == /\ att[a] = "working" /\ Credited(a)
                 /\ cards' = [cards EXCEPT ![job[a]] = BlockedFor(@, why)]
                 /\ att' = [att EXCEPT ![a] = "blocked"]
                 /\ UNCHANGED <<job, ctl, revoked>>

(* PermissionError: the worker learns that the card is no longer its own.  *)
Rejected(a) == /\ att[a] = "working" /\ ~Credited(a)
               /\ att' = [att EXCEPT ![a] = "rejected"]
               /\ UNCHANGED <<cards, job, ctl, revoked>>

WorkerCrash(a) == /\ att[a] = "working"
                  /\ att' = [att EXCEPT ![a] = "crashed"]
                  /\ UNCHANGED <<cards, job, ctl, revoked>>

(* cancel_claimed_card: any claim, expired or not, whatever the status.    *)
CancelledKeepingClaim(r) == [r EXCEPT !.status = "blocked", !.block = "cancelled"]
Cancelled(r) == [Unclaimed(r) EXCEPT !.status = "blocked", !.block = "cancelled"]

Cancel(c) == /\ cards[c].claim # None
             /\ cards' = [cards EXCEPT ![c] = Cancelled(@)]
             /\ cancelled' = cancelled \cup {cards[c].claim}
             /\ UNCHANGED <<att, job, ctl, expired>>

(* Time passes for the claims on the cards, and for those in copies.       *)
Older(r) == [r EXCEPT !.left = IF @ > 0 THEN @ - 1 ELSE 0]

Tick == /\ \E c \in Card : cards[c].left > 0
        /\ cards' = [c \in Card |-> Older(cards[c])]
        /\ ctl' = [k \in Controller |->
                     IF ctl[k].pending = NoWrite THEN ctl[k]
                     ELSE [ctl[k] EXCEPT !.pending =
                             [card |-> @.card, rec |-> Older(@.rec)]]]
        /\ expired' = expired \cup {a \in Attempt : \E c \in Card :
                                      cards[c].claim = a /\ cards[c].left = 1}
        /\ UNCHANGED <<att, job, cancelled>>

----------------------------------------------------------------------------
(* Controllers.                                                            *)

(* Each part of a pass lists the cards anew; every card gets one turn.     *)
Enter(k, phase, lapsed) ==
    ctl' = [ctl EXCEPT ![k] = [phase |-> phase, list |-> Listing, turns |-> Card,
                               lapsed |-> lapsed, pending |-> NoWrite]]

BeginReconcile(k) == /\ ctl[k].phase = "idle"
                     /\ Enter(k, "reconcile", {})
                     /\ UNCHANGED <<cards, att, job, revoked>>

BeginUnblock(k) == /\ ctl[k].phase = "idle"
                   /\ Enter(k, "unblock", {})
                   /\ UNCHANGED <<cards, att, job, revoked>>

(* recover_expired_claims lists the cards after it read the clock once.    *)
LiveListed == {cards[c].claim : c \in {d \in Card : cards[d].left > 0}}
Lapsed == {cards[c].claim : c \in {d \in Card : /\ cards[d].status = "running"
                                                /\ cards[d].claim # None
                                                /\ cards[d].left = 0}}

BeginDispatch(k) == /\ ctl[k].phase \in {"idle", "reconcile"}
                    /\ ctl[k].pending = NoWrite
                    /\ Enter(k, "recover", Lapsed)
                    /\ UNCHANGED <<cards, att, job, revoked>>

(* The budget of expired leases: back to READY while failures are within   *)
(* maxRetries, BLOCKED once they exceed it.                                *)
Charged(r, n, limit) ==
    [Unclaimed(r) EXCEPT !.failures = n, !.block = "technical",
                         !.status = IF n <= limit THEN "ready" ELSE "blocked"]
CountedTwice(r, limit) == Charged(r, r.failures + 2, limit)
Expired(r, limit) == Charged(r, r.failures + 1, limit)

(* The transaction looks again: the claim must still be the expired one.   *)
ListedRunning(k, c) == ctl[k].list[c] = "running"
StillLapsed(k, c) == cards[c].claim \in ctl[k].lapsed

Recover(k, c) == /\ ctl[k].phase = "recover" /\ c \in ctl[k].turns
                 /\ StillLapsed(k, c)
                 /\ cards' = [cards EXCEPT ![c] = Expired(@, MaxRetries[c])]
                 /\ ctl' = [ctl EXCEPT ![k].turns = @ \ {c}]
                 /\ UNCHANGED <<att, job, revoked>>

(* Every listed expired claim was handled, or is no longer there.          *)
BeginPromote(k) == /\ ctl[k].phase = "recover"
                   /\ \A c \in ctl[k].turns : ~StillLapsed(k, c)
                   /\ Enter(k, "promote", {})
                   /\ UNCHANGED <<cards, att, job, revoked>>

(* A change by _update: the copy made now is what Write will store.        *)
Copy(k, c, turn, rec) ==
    /\ ctl[k].pending = NoWrite /\ turn \in ctl[k].turns
    /\ ctl' = [ctl EXCEPT ![k].pending = [card |-> c, rec |-> rec],
                          ![k].turns = @ \ {turn}]
    /\ UNCHANGED <<cards, att, job, revoked>>

Write(k) == /\ ctl[k].pending # NoWrite
            /\ cards' = [cards EXCEPT ![ctl[k].pending.card] = ctl[k].pending.rec]
            /\ ctl' = [ctl EXCEPT ![k].pending = NoWrite]
            /\ UNCHANGED <<att, job, revoked>>

(* dispatch promotes TODO cards whose parents were all listed as DONE.     *)
NoParentBlocked(k, c) ==
    \A p \in Parents[c] : ctl[k].list[p] \notin {"technical", "owner", "cancelled"}
ParentsDone(k, c) == \A p \in Parents[c] : ctl[k].list[p] = "done"

Promote(k, c) == /\ ctl[k].phase = "promote" /\ ctl[k].list[c] = "todo"
                 /\ ParentsDone(k, c)
                 /\ Copy(k, c, c, [cards[c] EXCEPT !.status = "ready"])

(* reconcile reads failureCount, which no operation of this adapter        *)
(* writes, so it sees one failure on every card.                           *)
SeenFailures == 1
Retryable(c) == SeenFailures <= MaxRetries[c]

(* _recover_card pops the claim, whoever holds it: reclaim_card within the *)
(* budget it sees, else reassign_card to the captain with a new budget.    *)
RequeuedClaimed(r) == [r EXCEPT !.status = "ready"]
Requeued(r) == [Unclaimed(r) EXCEPT !.status = "ready"]
Reassigned(r) == [Requeued(r) EXCEPT !.failures = 0]

(* A queued card beyond its budget is reassigned, TODO or READY; a blocked *)
(* one gets a recovery card instead, which is not modelled.                *)
ReassignQueued(k, c) == /\ ctl[k].phase = "reconcile" /\ ~Retryable(c)
                        /\ ctl[k].list[c] \in {"todo", "ready"}
                        /\ Copy(k, c, c, Reassigned(cards[c]))

(* A technical blocker that no repair card is made for.                    *)
AnyBlocked(k, c) == ctl[k].list[c] \in {"technical", "owner", "cancelled"}
TechnicalBlocker(k, c) == ctl[k].list[c] = "technical"

RequeueBlocked(k, c) == /\ ctl[k].phase = "reconcile"
                        /\ c \notin Reviewer /\ TechnicalBlocker(k, c)
                        /\ Retryable(c)
                        /\ Copy(k, c, c, Requeued(cards[c]))

(* A blocked reviewer without a repair card gets one (idempotent key).     *)
CreateRepair(k, c) == /\ ctl[k].phase = "reconcile" /\ ctl[k].pending = NoWrite
                      /\ c \in Repair /\ RepairOf[c] \in ctl[k].turns
                      /\ TechnicalBlocker(k, RepairOf[c])
                      /\ ctl[k].list[c] = "absent"
                      /\ cards' = IF cards[c].status # "absent" THEN cards
                                  ELSE [cards EXCEPT ![c] = Created("ready")]
                      /\ ctl' = [ctl EXCEPT ![k].turns = @ \ {RepairOf[c]}]
                      /\ UNCHANGED <<att, job, revoked>>

(* One with a repair card that is not DONE has that card requeued,         *)
(* whatever its status: repairs[-1] goes to _recover_card unexamined.      *)
RequeueRepair(k, c) == /\ ctl[k].phase = "reconcile"
                       /\ c \in Repair /\ Retryable(c)
                       /\ TechnicalBlocker(k, RepairOf[c])
                       /\ ctl[k].list[c] \notin {"absent", "done"}
                       /\ Copy(k, c, RepairOf[c], Requeued(cards[c]))

(* orchestrate unblock: only a card listed as blocked on its owner.        *)
Unblocked(r) == [Unclaimed(r) EXCEPT !.status = "todo", !.block = "none"]

Unblock(k, c) == /\ ctl[k].phase = "unblock" /\ ctl[k].list[c] = "owner"
                 /\ Copy(k, c, c, Unblocked(cards[c]))

(* A pass ends, fails or is killed between two of its writes.              *)
EndPass(k) == /\ ctl[k].phase # "idle"
              /\ ctl' = [ctl EXCEPT ![k] = Idle]
              /\ UNCHANGED <<cards, att, job, revoked>>

WorkerStep(a) == \/ \E c \in Card : Claim(a, c)
                 \/ Heartbeat(a) \/ Complete(a) \/ Rejected(a) \/ WorkerCrash(a)
                 \/ \E why \in Reasons : Block(a, why)

ControllerStep(k) == \/ BeginReconcile(k) \/ BeginDispatch(k) \/ BeginPromote(k)
                     \/ BeginUnblock(k) \/ Write(k) \/ EndPass(k)
                     \/ \E c \in Card : \/ Recover(k, c) \/ Promote(k, c)
                                        \/ ReassignQueued(k, c)
                                        \/ RequeueBlocked(k, c) \/ CreateRepair(k, c)
                                        \/ RequeueRepair(k, c) \/ Unblock(k, c)

Next == \/ Tick
        \/ \E a \in Attempt : WorkerStep(a)
        \/ \E c \in Card : Cancel(c)
        \/ \E k \in Controller : ControllerStep(k)

Spec == Init /\ [][Next]_vars

(* Time passes; every pass ends; the scheduler keeps starting dispatch     *)
(* passes, and of infinitely many not all are killed before they recover.  *)
Fairness == /\ WF_vars(Tick)
            /\ \A k \in Controller :
                  /\ WF_vars(EndPass(k)) /\ SF_vars(BeginDispatch(k))
                  /\ \A c \in Card : SF_vars(Recover(k, c))

FairSpec == Spec /\ Fairness

----------------------------------------------------------------------------

(* A card that carries a claim is RUNNING.  A claim on a READY or BLOCKED  *)
(* card would be unclaimable for workers and invisible to the recovery,    *)
(* which looks only at cards listed as RUNNING.                            *)
NoStrandedClaim == \A c \in Card : cards[c].claim # None => cards[c].status = "running"

(* "Cancellation and expiry remove the live token before changing state,   *)
(* so a late process cannot overwrite the newer decision": once its claim  *)
(* was cancelled or ran out of time, no attempt is accepted any more.      *)
LateResultRefused ==
    [][\A a \in cancelled \cup expired :
          att'[a] = "accepted" => att[a] = "accepted"]_vars

(* Passes leave the work on a card alone, except that the turn of a blocked *)
(* reviewer requeues its repair card whatever became of it, and that a card *)
(* without retries counts as beyond its budget before it ever failed.       *)
Ordinary == {c \in Card \ Repair : MaxRetries[c] >= 1}

(* The worker of an ordinary card is turned away only after its claim       *)
(* expired or was cancelled: reconcile, dispatch and unblock passes do not  *)
(* take the card from it.                                                   *)
WorkerKeepsItsCard ==
    \A a \in Attempt : att[a] = "rejected" /\ job[a] \in Ordinary =>
        a \in cancelled \cup expired

(* What a worker was told is accepted stays: its card is DONE by its proof. *)
CompletionSurvives ==
    \A a \in Attempt : att[a] = "accepted" /\ job[a] \in Ordinary =>
        cards[job[a]].status = "done" /\ cards[job[a]].proof = a

(* An operator's cancellation is the last word on an ordinary card.        *)
CancellationSticks ==
    \A a \in cancelled : job[a] \in Ordinary => View(cards[job[a]]) = "cancelled"

(* The failures counted against a card's budget are failures that happened: *)
(* no attempt is counted twice, however the recovery interleaves.           *)
Failed(c) == {a \in Attempt : job[a] = c /\ (a \in expired \/ att[a] = "blocked")}
FailuresCounted == \A c \in Card : cards[c].failures <= Cardinality(Failed(c))

(* A card is worked on, or done, only when all its parents are done.       *)
DependencyOrder ==
    \A c \in Ordinary : cards[c].status \in {"running", "done"} =>
        \A p \in Parents[c] \cap Ordinary : cards[p].status = "done"

(* "Expired leases retry only within the card's bounded budget": the claims *)
(* of a card run out of time at most once more than maxRetries.            *)
BudgetBounded ==
    \A c \in Card : Cardinality({a \in expired : job[a] = c}) <= MaxRetries[c] + 1

(* The claim of a worker that died does not hold its card for ever.        *)
OrphanRecovered ==
    \A a \in Attempt : \A c \in Card :
        cards[c].claim = a /\ att[a] = "crashed" ~> cards[c].claim # a
=============================================================================
