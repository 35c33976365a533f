------------------------- MODULE DirectQueueProofs -------------------------
(* Proofs about DirectQueue, for every set of cards, dependencies, repair  *)
(* cards, attempts, lease time and retry budget.  Type correctness holds   *)
(* for any number of controllers; the other theorems are about one         *)
(* controller, which is what a held repository lease guarantees.           *)
EXTENDS DirectQueue, TLAPS

LEMMA ChargedRecords ==
  ASSUME NEW r \in CardRecord, NEW n \in Nat, NEW limit \in Nat
  PROVE  Charged(r, n, limit) \in CardRecord
<1>1. Unclaimed(r) \in CardRecord
  <2>1. LeaseTicks \in Nat /\ 0 \in 0 .. LeaseTicks
    BY BoundsAreSane
  <2> QED
    BY <2>1 DEF CardRecord, Unclaimed
<1>2. CASE n <= limit
  BY <1>1, <1>2 DEF CardRecord, Charged, Statuses, Blocks, Reasons
<1>3. CASE ~(n <= limit)
  BY <1>1, <1>3 DEF CardRecord, Charged, Statuses, Blocks, Reasons
<1> QED
  BY <1>2, <1>3

LEMMA Records ==
  ASSUME NEW r \in CardRecord
  PROVE  /\ Unclaimed(r) \in CardRecord /\ Renewed(r) \in CardRecord
         /\ Cancelled(r) \in CardRecord /\ Older(r) \in CardRecord
         /\ Requeued(r) \in CardRecord /\ Reassigned(r) \in CardRecord
         /\ \A limit \in Nat : Expired(r, limit) \in CardRecord
         /\ Unblocked(r) \in CardRecord /\ View(r) \in Views
         /\ [r EXCEPT !.status = "ready"] \in CardRecord
         /\ \A a \in Attempt : Claimed(r, a) \in CardRecord /\ Completed(r, a) \in CardRecord
         /\ \A why \in Reasons : BlockedFor(r, why) \in CardRecord
<1>1. LeaseTicks \in Nat /\ 0 \in 0 .. LeaseTicks /\ LeaseTicks \in 0 .. LeaseTicks
  BY BoundsAreSane
<1>2. Unclaimed(r) \in CardRecord
  BY <1>1 DEF CardRecord, Unclaimed
<1>3. Renewed(r) \in CardRecord
  BY <1>1 DEF CardRecord, Renewed
<1>4. Cancelled(r) \in CardRecord
  BY <1>2 DEF CardRecord, Cancelled, Statuses, Blocks
<1>5. Older(r) \in CardRecord
  BY <1>1 DEF CardRecord, Older
<1>6. ASSUME NEW limit \in Nat PROVE Expired(r, limit) \in CardRecord
  <2>1. r.failures + 1 \in Nat
    BY DEF CardRecord
  <2> QED
    BY <2>1, ChargedRecords DEF Expired
<1>7. Requeued(r) \in CardRecord /\ Reassigned(r) \in CardRecord
  <2>1. Requeued(r) \in CardRecord
    BY <1>2 DEF CardRecord, Requeued, Statuses
  <2> QED
    BY <2>1 DEF CardRecord, Reassigned
<1>8. Unblocked(r) \in CardRecord
  BY <1>2 DEF CardRecord, Unblocked, Statuses, Blocks
<1>9. View(r) \in Views
  BY DEF CardRecord, View, Views, Statuses, Blocks
<1>10. [r EXCEPT !.status = "ready"] \in CardRecord
  BY DEF CardRecord, Statuses
<1>11. \A a \in Attempt : Claimed(r, a) \in CardRecord /\ Completed(r, a) \in CardRecord
  BY <1>1, <1>2 DEF CardRecord, Claimed, Completed, Statuses
<1>12. \A why \in Reasons : BlockedFor(r, why) \in CardRecord
  <2>1. r.failures + 1 \in Nat
    BY DEF CardRecord
  <2>2. BlockedFor(r, "technical") \in CardRecord
    BY <1>2, <2>1 DEF CardRecord, BlockedFor, Unclaimed, Statuses, Blocks, Reasons
  <2>3. \A why \in {"finding", "owner"} : BlockedFor(r, why) \in CardRecord
    BY <1>2 DEF CardRecord, BlockedFor, Unclaimed, Statuses, Blocks, Reasons
  <2> QED
    BY <2>2, <2>3 DEF Reasons
<1> QED
  BY <1>2, <1>3, <1>4, <1>5, <1>6, <1>7, <1>8, <1>9, <1>10, <1>11, <1>12

LEMMA FreshCards == \A status \in Statuses : Created(status) \in CardRecord
BY BoundsAreSane DEF Created, CardRecord, Blocks

LEMMA Listings == ASSUME TypeOK PROVE Listing \in [Card -> Views]
BY Records DEF TypeOK, Listing

(* TypeOK holds in every reachable state.                                  *)
THEOREM TypeCorrect == Spec => []TypeOK
<1>1. Init => TypeOK
  <2> SUFFICES ASSUME Init PROVE TypeOK
    OBVIOUS
  <2>1. cards \in [Card -> CardRecord]
    BY FreshCards DEF Init, Statuses
  <2>2. Idle \in Passes
    BY DEF Idle, Passes, Phases, Writes, Views, Statuses
  <2> QED
    BY <2>1, <2>2 DEF Init, TypeOK
<1>2. TypeOK /\ [Next]_vars => TypeOK'
  <2> SUFFICES ASSUME TypeOK, [Next]_vars PROVE TypeOK'
    OBVIOUS
  <2>1. CASE Tick
    <3>1. cards' \in [Card -> CardRecord]
      BY <2>1, Records DEF Tick, TypeOK
    <3>2. ctl' \in [Controller -> Passes]
      <4> SUFFICES ASSUME NEW k \in Controller PROVE ctl'[k] \in Passes
        BY <2>1 DEF Tick
      <4>1. CASE ctl[k].pending = NoWrite
        BY <2>1, <4>1 DEF Tick, TypeOK
      <4>2. CASE ctl[k].pending # NoWrite
        <5>1. ctl[k].pending \in [card : Card, rec : CardRecord]
          BY <4>2 DEF TypeOK, Passes, Writes
        <5>2. [card |-> ctl[k].pending.card, rec |-> Older(ctl[k].pending.rec)] \in Writes
          BY <5>1, Records DEF Writes
        <5> QED
          BY <2>1, <4>2, <5>2 DEF Tick, TypeOK, Passes
      <4> QED
        BY <4>1, <4>2
    <3>3. expired' \in SUBSET Attempt
      BY <2>1 DEF Tick, TypeOK
    <3> QED
      BY <2>1, <3>1, <3>2, <3>3 DEF Tick, TypeOK
  <2>2. ASSUME NEW a \in Attempt, WorkerStep(a) PROVE TypeOK'
    <3>1. ASSUME NEW c \in Card, Claim(a, c) PROVE TypeOK'
      BY <3>1, Records DEF Claim, TypeOK, revoked
    <3>2. CASE Heartbeat(a)
      BY <3>2, Records DEF Heartbeat, Credited, TypeOK, revoked
    <3>3. CASE Complete(a)
      BY <3>3, Records DEF Complete, Credited, TypeOK, revoked
    <3>4. ASSUME NEW why \in Reasons, Block(a, why) PROVE TypeOK'
      BY <3>4, Records DEF Block, Credited, TypeOK, revoked
    <3>5. CASE Rejected(a) \/ WorkerCrash(a)
      BY <3>5 DEF Rejected, WorkerCrash, TypeOK, revoked
    <3> QED
      BY <2>2, <3>1, <3>2, <3>3, <3>4, <3>5 DEF WorkerStep
  <2>3. ASSUME NEW c \in Card, Cancel(c) PROVE TypeOK'
    <3>1. cards[c] \in CardRecord /\ cards[c].claim \in Attempt
      BY <2>3 DEF Cancel, TypeOK, CardRecord
    <3> QED
      BY <2>3, <3>1, Records DEF Cancel, TypeOK
  <2>4. ASSUME NEW k \in Controller, ControllerStep(k) PROVE TypeOK'
    <3> USE DEF revoked
    <3>1. ctl[k] \in Passes
      BY DEF TypeOK
    <3>2. ASSUME NEW phase \in Phases, NEW lapsed \in SUBSET Attempt,
                 Enter(k, phase, lapsed)
          PROVE  ctl' \in [Controller -> Passes]
      BY <3>2, Listings DEF Enter, TypeOK, Passes, Writes
    <3>3. CASE BeginReconcile(k) \/ BeginUnblock(k) \/ BeginPromote(k)
      BY <3>2, <3>3 DEF BeginReconcile, BeginUnblock, BeginPromote, TypeOK, Phases
    <3>4. CASE BeginDispatch(k)
      <4>1. Lapsed \in SUBSET Attempt
        BY DEF Lapsed, TypeOK, CardRecord
      <4> QED
        BY <3>2, <3>4, <4>1 DEF BeginDispatch, TypeOK, Phases
    <3>5. ASSUME NEW c \in Card, NEW turn, NEW rec \in CardRecord, Copy(k, c, turn, rec)
          PROVE  TypeOK'
      <4>1. [card |-> c, rec |-> rec] \in Writes
        BY DEF Writes
      <4> QED
        BY <3>1, <3>5, <4>1 DEF Copy, TypeOK, Passes
    <3>6. CASE Write(k)
      <4>1. ctl[k].pending \in [card : Card, rec : CardRecord]
        BY <3>1, <3>6 DEF Write, Passes, Writes
      <4>2. [ctl[k] EXCEPT !.pending = NoWrite] \in Passes
        BY <3>1 DEF Passes, Writes
      <4> QED
        BY <3>6, <4>1, <4>2 DEF Write, TypeOK
    <3>7. CASE EndPass(k)
      <4>1. Idle \in Passes
        BY DEF Idle, Passes, Phases, Writes, Views, Statuses
      <4> QED
        BY <3>7, <4>1 DEF EndPass, TypeOK
    <3>8. ASSUME NEW c \in Card, Recover(k, c) PROVE TypeOK'
      <4>1. cards[c] \in CardRecord /\ MaxRetries[c] \in Nat
        BY BoundsAreSane DEF TypeOK
      <4>2. Expired(cards[c], MaxRetries[c]) \in CardRecord
        BY <4>1, Records
      <4> QED
        BY <3>1, <3>8, <4>2 DEF Recover, TypeOK, Passes
    <3>9. ASSUME NEW c \in Card, Promote(k, c) PROVE TypeOK'
      <4>1. [cards[c] EXCEPT !.status = "ready"] \in CardRecord
        BY Records DEF TypeOK
      <4> QED
        BY <3>5, <3>9, <4>1 DEF Promote
    <3>10. ASSUME NEW c \in Card, RequeueBlocked(k, c) \/ RequeueRepair(k, c)
                               \/ ReassignQueued(k, c)
           PROVE  TypeOK'
      <4>1. Requeued(cards[c]) \in CardRecord /\ Reassigned(cards[c]) \in CardRecord
        BY Records DEF TypeOK
      <4> QED
        BY <3>5, <3>10, <4>1 DEF RequeueBlocked, RequeueRepair, ReassignQueued
    <3>11. ASSUME NEW c \in Card, CreateRepair(k, c) PROVE TypeOK'
      <4>1. Created("ready") \in CardRecord
        BY FreshCards DEF Statuses
      <4> QED
        BY <3>1, <3>11, <4>1 DEF CreateRepair, TypeOK, Passes
    <3>12. ASSUME NEW c \in Card, Unblock(k, c) PROVE TypeOK'
      <4>1. Unblocked(cards[c]) \in CardRecord
        BY Records DEF TypeOK
      <4> QED
        BY <3>5, <3>12, <4>1 DEF Unblock
    <3> QED
      BY <2>4, <3>3, <3>4, <3>6, <3>7, <3>8, <3>9, <3>10, <3>11, <3>12
         DEF ControllerStep
  <2>5. CASE UNCHANGED vars
    BY <2>5 DEF TypeOK, vars
  <2> QED
    BY <2>1, <2>2, <2>3, <2>4, <2>5 DEF Next
<1> QED
  BY <1>1, <1>2, PTL DEF Spec

----------------------------------------------------------------------------
(* What holds under a held repository lease: one controller.               *)

(* A card's claim is that of an attempt that claimed this card, and it was *)
(* neither cancelled nor, while time is left, did it run out.              *)
ClaimsAreLive ==
    \A c \in Card : cards[c].claim # None =>
        /\ cards[c].status = "running"
        /\ job[cards[c].claim] = c /\ att[cards[c].claim] # "unused"
        /\ cards[c].claim \notin cancelled
        /\ cards[c].left > 0 => cards[c].claim \notin expired

(* A revoked claim had been made.                                          *)
RevokedWereUsed == \A a \in cancelled \cup expired : att[a] # "unused"

(* No pending copy carries a claim, and a TODO card that waits for its     *)
(* turn in the promotion is still TODO.                                    *)
PassesAreCurrent ==
    \A k \in Controller :
        /\ ctl[k].pending # NoWrite => ctl[k].pending.rec.claim = None
        /\ ctl[k].phase = "promote" =>
              \A c \in ctl[k].turns :
                 /\ ctl[k].list[c] = "todo" => cards[c].status = "todo"
                 /\ ctl[k].pending # NoWrite => ctl[k].pending.card # c

HeldInv == TypeOK /\ ClaimsAreLive /\ RevokedWereUsed /\ PassesAreCurrent

LEMMA Effects ==
  ASSUME NEW r \in CardRecord
  PROVE  /\ Unclaimed(r).claim = None /\ Cancelled(r).claim = None
         /\ Requeued(r).claim = None /\ Reassigned(r).claim = None
         /\ Unblocked(r).claim = None
         /\ \A limit : Expired(r, limit).claim = None
         /\ \A a : Completed(r, a).claim = None
         /\ \A why : BlockedFor(r, why).claim = None
         /\ \A a : /\ Claimed(r, a).claim = a /\ Claimed(r, a).status = "running"
                   /\ Claimed(r, a).left = LeaseTicks
         /\ Renewed(r).claim = r.claim /\ Renewed(r).status = r.status
         /\ Older(r).claim = r.claim /\ Older(r).status = r.status
         /\ Older(r).left > 0 => r.left > 1
<1>1. Unclaimed(r) \in CardRecord /\ Unclaimed(r).claim = None
  <2>1. Unclaimed(r) \in CardRecord
    BY Records
  <2> QED
    BY <2>1 DEF CardRecord, Unclaimed
<1>2. /\ Cancelled(r).claim = None /\ Requeued(r).claim = None
      /\ Reassigned(r).claim = None /\ Unblocked(r).claim = None
  <2>1. Requeued(r) \in CardRecord /\ Requeued(r).claim = None
    BY <1>1, Records DEF Requeued, CardRecord
  <2> QED
    BY <1>1, <2>1 DEF Reassigned, Unblocked, Cancelled, CardRecord
<1>3. \A limit : Expired(r, limit).claim = None
  BY <1>1 DEF Expired, Charged, CardRecord
<1>4. /\ \A a : Completed(r, a).claim = None
      /\ \A why : BlockedFor(r, why).claim = None
  BY <1>1 DEF Completed, BlockedFor, CardRecord
<1>5. \A a : /\ Claimed(r, a).claim = a /\ Claimed(r, a).status = "running"
             /\ Claimed(r, a).left = LeaseTicks
  BY DEF CardRecord, Claimed
<1>6. Renewed(r).claim = r.claim /\ Renewed(r).status = r.status
  BY DEF CardRecord, Renewed
<1>7. /\ Older(r).claim = r.claim /\ Older(r).status = r.status
      /\ Older(r).left > 0 => r.left > 1
  BY BoundsAreSane DEF CardRecord, Older
<1> QED
  BY <1>1, <1>2, <1>3, <1>4, <1>5, <1>6, <1>7

(* A step that only takes claims away, from cards that are not TODO or by  *)
(* no pass, keeps the claims live.                                         *)
LEMMA DroppedClaim ==
  ASSUME ClaimsAreLive, NEW c \in Card, NEW rec, rec.claim = None,
         cards' = [cards EXCEPT ![c] = rec], TypeOK,
         job' = job, expired' = expired,
         \A a \in Attempt : att[a] # "unused" => att'[a] # "unused",
         \A a \in cancelled' \ cancelled : cards[c].claim = a
  PROVE  ClaimsAreLive'
<1> SUFFICES ASSUME NEW d \in Card, cards'[d].claim # None
             PROVE  /\ cards'[d].status = "running"
                    /\ job'[cards'[d].claim] = d /\ att'[cards'[d].claim] # "unused"
                    /\ cards'[d].claim \notin cancelled'
                    /\ cards'[d].left > 0 => cards'[d].claim \notin expired'
  BY DEF ClaimsAreLive
<1>1. d # c /\ cards'[d] = cards[d]
  BY DEF TypeOK
<1>2. cards[d].claim \in Attempt
  BY <1>1 DEF TypeOK, CardRecord
<1>3. cards[d].claim \notin cancelled'
  <2>1. CASE cards[c].claim = None
    BY <1>1, <2>1, <1>2, NoneDiffers DEF ClaimsAreLive
  <2>2. CASE cards[c].claim # None
    BY <1>1, <1>2, <2>2 DEF ClaimsAreLive
  <2> QED
    BY <2>1, <2>2
<1> QED
  BY <1>1, <1>2, <1>3 DEF ClaimsAreLive

(* Workers and operators do not touch TODO cards.                          *)
LEMMA PassesFrame ==
  ASSUME TypeOK, PassesAreCurrent, ctl' = ctl, NEW c \in Card, NEW rec,
         cards' = [cards EXCEPT ![c] = rec], cards[c].status # "todo"
  PROVE  PassesAreCurrent'
BY DEF TypeOK, PassesAreCurrent

LEMMA WorkerKeepsHeld ==
  ASSUME HeldInv, NEW a \in Attempt, WorkerStep(a)
  PROVE  (ClaimsAreLive /\ RevokedWereUsed /\ PassesAreCurrent)'
<1> USE DEF HeldInv, revoked
<1>1. ASSUME NEW c \in Card, Claim(a, c)
      PROVE  (ClaimsAreLive /\ RevokedWereUsed /\ PassesAreCurrent)'
  <2>1. cards[c] \in CardRecord /\ cards[c].status = "ready"
    BY <1>1 DEF Claim, TypeOK
  <2>2. PassesAreCurrent'
    BY <1>1, <2>1, PassesFrame DEF Claim
  <2>3. RevokedWereUsed'
    BY <1>1 DEF Claim, RevokedWereUsed, TypeOK
  <2>4. ASSUME NEW d \in Card, cards'[d].claim # None
        PROVE  /\ cards'[d].status = "running"
               /\ job'[cards'[d].claim] = d /\ att'[cards'[d].claim] # "unused"
               /\ cards'[d].claim \notin cancelled'
               /\ cards'[d].left > 0 => cards'[d].claim \notin expired'
    <3>1. CASE d = c
      <4>1. cards'[d].claim = a /\ cards'[d].status = "running"
        BY <1>1, <2>1, <3>1, Effects DEF Claim, TypeOK
      <4> QED
        BY <1>1, <3>1, <4>1 DEF Claim, TypeOK, RevokedWereUsed
    <3>2. CASE d # c
      <4>1. cards'[d] = cards[d] /\ cards[d].claim \in Attempt
        BY <1>1, <2>4, <3>2 DEF Claim, TypeOK, CardRecord
      <4>2. cards[d].claim # a
        BY <1>1, <2>4, <4>1 DEF Claim, ClaimsAreLive
      <4> QED
        BY <1>1, <2>4, <4>1, <4>2 DEF Claim, ClaimsAreLive, TypeOK
    <3> QED
      BY <3>1, <3>2
  <2> QED
    BY <2>2, <2>3, <2>4 DEF ClaimsAreLive
<1>2. CASE Credited(a) /\ (Heartbeat(a) \/ Complete(a) \/ \E why \in Reasons : Block(a, why))
  <2> DEFINE c == job[a]
  <2>1. /\ c \in Card /\ cards[c] \in CardRecord /\ cards[c].claim = a /\ cards[c].left > 0
    BY <1>2 DEF Credited, TypeOK
  <2>2. cards[c].status = "running" /\ a \notin cancelled /\ a \notin expired
    BY <2>1, NoneDiffers DEF ClaimsAreLive
  <2>3. CASE Heartbeat(a)
    <3>1. cards' = [cards EXCEPT ![c] = Renewed(cards[c])]
      BY <2>3 DEF Heartbeat
    <3>2. PassesAreCurrent'
      BY <2>1, <2>2, <2>3, <3>1, PassesFrame DEF Heartbeat
    <3>3. ClaimsAreLive'
      <4>1. ASSUME NEW d \in Card
            PROVE  /\ cards'[d].claim = cards[d].claim /\ cards'[d].status = cards[d].status
                   /\ d # c => cards'[d] = cards[d]
        BY <2>1, <3>1, Effects DEF TypeOK
      <4> QED
        BY <2>1, <2>2, <2>3, <4>1 DEF ClaimsAreLive, Heartbeat
    <3> QED
      BY <2>3, <3>2, <3>3 DEF Heartbeat, RevokedWereUsed
  <2>4. ASSUME NEW rec, rec.claim = None, cards' = [cards EXCEPT ![c] = rec],
               NEW outcome \in {"accepted", "blocked"},
               att' = [att EXCEPT ![a] = outcome], UNCHANGED <<job, ctl, cancelled, expired>>
        PROVE  (ClaimsAreLive /\ RevokedWereUsed /\ PassesAreCurrent)'
    <3>1. \A b \in Attempt : att[b] # "unused" => att'[b] # "unused"
      BY <2>4 DEF TypeOK
    <3>2. ClaimsAreLive'
      BY <2>1, <2>4, <3>1, DroppedClaim
    <3>3. PassesAreCurrent'
      BY <2>1, <2>2, <2>4, PassesFrame
    <3> QED
      BY <2>4, <3>1, <3>2, <3>3 DEF RevokedWereUsed, TypeOK
  <2>5. CASE Complete(a)
    <3>1. Completed(cards[c], a).claim = None
      BY <2>1, Effects
    <3>2. /\ cards' = [cards EXCEPT ![c] = Completed(cards[c], a)]
          /\ att' = [att EXCEPT ![a] = "accepted"] /\ UNCHANGED <<job, ctl, cancelled, expired>>
      BY <2>5 DEF Complete
    <3> QED
      BY <2>4, <3>1, <3>2
  <2>6. ASSUME NEW why \in Reasons, Block(a, why)
        PROVE  (ClaimsAreLive /\ RevokedWereUsed /\ PassesAreCurrent)'
    <3>1. BlockedFor(cards[c], why).claim = None
      BY <2>1, Effects
    <3>2. /\ cards' = [cards EXCEPT ![c] = BlockedFor(cards[c], why)]
          /\ att' = [att EXCEPT ![a] = "blocked"] /\ UNCHANGED <<job, ctl, cancelled, expired>>
      BY <2>6 DEF Block
    <3> QED
      BY <2>4, <3>1, <3>2
  <2> QED
    BY <1>2, <2>3, <2>5, <2>6
<1>3. CASE Rejected(a) \/ WorkerCrash(a)
  <2>1. /\ \A b \in Attempt : att[b] # "unused" => att'[b] # "unused"
        /\ UNCHANGED <<cards, job, ctl, cancelled, expired>>
    BY <1>3 DEF Rejected, WorkerCrash, TypeOK
  <2>2. \A c \in Card : cards[c].claim \in Attempt \cup {None}
    BY DEF TypeOK, CardRecord
  <2> QED
    BY <2>1, <2>2 DEF ClaimsAreLive, RevokedWereUsed, PassesAreCurrent, TypeOK
<1> QED
  BY <1>1, <1>2, <1>3 DEF WorkerStep, Heartbeat, Complete, Block

(* A controller's step that changes one card drops its claim, if any.      *)
LEMMA ControllerKeepsHeld ==
  ASSUME HeldInv, \A j, k \in Controller : j = k, NEW k \in Controller, ControllerStep(k)
  PROVE  (ClaimsAreLive /\ RevokedWereUsed /\ PassesAreCurrent)'
<1> USE DEF HeldInv, revoked
<1>1. ctl[k] \in Passes /\ \A j \in Controller : j = k
  BY DEF TypeOK
<1>2. UNCHANGED <<att, job, cancelled, expired>>
  BY DEF ControllerStep, BeginReconcile, BeginDispatch, BeginPromote, BeginUnblock, Write,
         EndPass, Recover, Promote, RequeueBlocked, CreateRepair, RequeueRepair, Unblock,
         ReassignQueued, Copy
<1>3. RevokedWereUsed'
  BY <1>2 DEF RevokedWereUsed
<1>4. cards' = cards => ClaimsAreLive'
  BY <1>2 DEF ClaimsAreLive
<1>5. ASSUME NEW c \in Card, NEW rec, rec.claim = None, cards' = [cards EXCEPT ![c] = rec]
      PROVE  ClaimsAreLive'
  BY <1>2, <1>5, DroppedClaim
<1>6. ASSUME NEW phase, NEW lapsed, Enter(k, phase, lapsed), cards' = cards
      PROVE  PassesAreCurrent'
  <2>1. ctl'[k] = [phase |-> phase, list |-> Listing, turns |-> Card,
                   lapsed |-> lapsed, pending |-> NoWrite]
    BY <1>6 DEF Enter, TypeOK
  <2>2. \A c \in Card : Listing[c] = "todo" => cards[c].status = "todo"
    BY DEF Listing, View
  <2> QED
    BY <1>1, <1>6, <2>1, <2>2 DEF PassesAreCurrent
<1>7. CASE BeginReconcile(k) \/ BeginDispatch(k) \/ BeginPromote(k) \/ BeginUnblock(k)
  BY <1>3, <1>4, <1>6, <1>7 DEF BeginReconcile, BeginDispatch, BeginPromote, BeginUnblock
<1>8. CASE EndPass(k)
  <2>1. ctl'[k] = Idle
    BY <1>8 DEF EndPass, TypeOK
  <2>2. PassesAreCurrent'
    BY <1>1, <2>1 DEF PassesAreCurrent, Idle
  <2> QED
    BY <1>3, <1>4, <1>8, <2>2 DEF EndPass
<1>9. CASE Write(k)
  <2>1. ctl[k].pending \in [card : Card, rec : CardRecord]
    BY <1>1, <1>9 DEF Write, Passes, Writes
  <2>2. ClaimsAreLive'
    BY <1>5, <1>9, <2>1 DEF Write, PassesAreCurrent
  <2>3. /\ ctl'[k].pending = NoWrite /\ ctl'[k].phase = ctl[k].phase
        /\ ctl'[k].turns = ctl[k].turns /\ ctl'[k].list = ctl[k].list
    BY <1>1, <1>9 DEF Write, TypeOK, Passes
  <2>4. ASSUME NEW c \in Card, c # ctl[k].pending.card PROVE cards'[c] = cards[c]
    BY <1>9, <2>4 DEF Write, TypeOK
  <2>5. PassesAreCurrent'
    BY <1>1, <1>9, <2>3, <2>4 DEF PassesAreCurrent, Write, Passes
  <2> QED
    BY <1>3, <2>2, <2>5
<1>10. ASSUME NEW c \in Card, NEW turn, NEW rec, rec.claim = None, Copy(k, c, turn, rec),
              ctl[k].phase = "promote" => turn = c
       PROVE  (ClaimsAreLive /\ RevokedWereUsed /\ PassesAreCurrent)'
  <2>1. /\ ctl'[k].pending = [card |-> c, rec |-> rec] /\ ctl'[k].phase = ctl[k].phase
        /\ ctl'[k].turns = ctl[k].turns \ {turn} /\ ctl'[k].list = ctl[k].list
    BY <1>1, <1>10 DEF Copy, TypeOK, Passes
  <2>2. ctl'[k].pending.rec.claim = None /\ ctl'[k].pending.card = c
    BY <1>10, <2>1
  <2>3. ctl[k].phase = "promote" => \A d \in ctl'[k].turns : d \in ctl[k].turns /\ d # c
    BY <1>10, <2>1
  <2>4. cards' = cards
    BY <1>10 DEF Copy
  <2>5. PassesAreCurrent'
    BY <1>1, <2>1, <2>2, <2>3, <2>4 DEF PassesAreCurrent
  <2> QED
    BY <1>3, <1>4, <2>4, <2>5
<1>11. ASSUME NEW c \in Card, Promote(k, c)
       PROVE  (ClaimsAreLive /\ RevokedWereUsed /\ PassesAreCurrent)'
  <2>1. cards[c] \in CardRecord /\ cards[c].status = "todo"
    BY <1>11 DEF Promote, Copy, PassesAreCurrent, TypeOK
  <2>2. [cards[c] EXCEPT !.status = "ready"].claim = None
    BY <2>1 DEF ClaimsAreLive, CardRecord
  <2> QED
    BY <1>10, <1>11, <2>2 DEF Promote
<1>12. ASSUME NEW c \in Card, \/ RequeueBlocked(k, c) \/ RequeueRepair(k, c)
                              \/ ReassignQueued(k, c) \/ Unblock(k, c)
       PROVE  (ClaimsAreLive /\ RevokedWereUsed /\ PassesAreCurrent)'
  <2>1. /\ Requeued(cards[c]).claim = None /\ Reassigned(cards[c]).claim = None
        /\ Unblocked(cards[c]).claim = None
    BY Effects DEF TypeOK
  <2> QED
    BY <1>10, <1>12, <2>1 DEF RequeueBlocked, RequeueRepair, ReassignQueued, Unblock
<1>13. ASSUME NEW c \in Card, CreateRepair(k, c) \/ Recover(k, c)
       PROVE  (ClaimsAreLive /\ RevokedWereUsed /\ PassesAreCurrent)'
  <2>1. cards[c] \in CardRecord
    BY DEF TypeOK
  <2>2. Created("ready").claim = None /\ Expired(cards[c], MaxRetries[c]).claim = None
    BY <2>1, Effects DEF Created
  <2>3. ClaimsAreLive'
    BY <1>4, <1>5, <1>13, <2>2 DEF CreateRepair, Recover
  <2>4. ctl'[k].pending = ctl[k].pending /\ ctl'[k].phase # "promote"
    BY <1>1, <1>13 DEF CreateRepair, Recover, TypeOK, Passes
  <2>5. PassesAreCurrent'
    BY <1>1, <2>4 DEF PassesAreCurrent
  <2> QED
    BY <1>3, <2>3, <2>5
<1> QED
  BY <1>7, <1>8, <1>9, <1>11, <1>12, <1>13 DEF ControllerStep

(* Time takes no claim away and runs out only for the claims it passes.    *)
LEMMA TickKeepsHeld ==
  ASSUME HeldInv, Tick
  PROVE  (ClaimsAreLive /\ RevokedWereUsed /\ PassesAreCurrent)'
<1> USE DEF HeldInv
<1>1. ASSUME NEW c \in Card
      PROVE  /\ cards[c] \in CardRecord /\ cards[c].claim \in Attempt \cup {None}
             /\ cards'[c].claim = cards[c].claim /\ cards'[c].status = cards[c].status
             /\ cards'[c].left > 0 => cards[c].left > 1
  <2>1. cards[c] \in CardRecord /\ cards'[c] = Older(cards[c])
    BY DEF Tick, TypeOK
  <2> QED
    BY <2>1, Effects DEF CardRecord
<1>2. UNCHANGED <<att, job, cancelled>>
  BY DEF Tick
<1>3. ASSUME NEW a \in expired' \ expired
      PROVE  \E c \in Card : cards[c].claim = a /\ cards[c].left = 1 /\ a \in Attempt
  BY <1>3 DEF Tick
<1>4. ClaimsAreLive'
  <2> SUFFICES ASSUME NEW c \in Card, cards'[c].claim # None
               PROVE  /\ cards'[c].status = "running"
                      /\ job'[cards'[c].claim] = c /\ att'[cards'[c].claim] # "unused"
                      /\ cards'[c].claim \notin cancelled'
                      /\ cards'[c].left > 0 => cards'[c].claim \notin expired'
    BY DEF ClaimsAreLive
  <2>1. cards[c].claim \in Attempt
    BY <1>1
  <2>2. ASSUME cards'[c].left > 0, cards[c].claim \in expired' PROVE FALSE
    <3>1. cards[c].claim \notin expired /\ cards[c].left > 1
      BY <1>1, <2>1, <2>2, NoneDiffers DEF ClaimsAreLive, CardRecord
    <3>2. PICK d \in Card : cards[d].claim = cards[c].claim /\ cards[d].left = 1
      BY <1>3, <2>2, <3>1
    <3>3. d = c
      BY <2>1, <3>2, NoneDiffers DEF ClaimsAreLive
    <3> QED
      BY <3>1, <3>2, <3>3
  <2> QED
    BY <1>1, <1>2, <2>1, <2>2, NoneDiffers DEF ClaimsAreLive
<1>5. RevokedWereUsed'
  BY <1>2, <1>3, NoneDiffers DEF RevokedWereUsed, ClaimsAreLive
<1>6. PassesAreCurrent'
  <2> SUFFICES ASSUME NEW k \in Controller
               PROVE  /\ ctl'[k].phase = ctl[k].phase /\ ctl'[k].turns = ctl[k].turns
                      /\ ctl'[k].list = ctl[k].list
                      /\ ctl[k].pending = NoWrite => ctl'[k].pending = NoWrite
                      /\ ctl[k].pending # NoWrite =>
                           /\ ctl'[k].pending.card = ctl[k].pending.card
                           /\ ctl'[k].pending.rec.claim = ctl[k].pending.rec.claim
    BY <1>1 DEF PassesAreCurrent, TypeOK, Passes
  <2>1. ctl[k] \in Passes
    BY DEF TypeOK
  <2>2. CASE ctl[k].pending = NoWrite
    BY <2>2 DEF Tick
  <2>3. CASE ctl[k].pending # NoWrite
    <3>1. ctl[k].pending \in [card : Card, rec : CardRecord]
      BY <2>1, <2>3 DEF Passes, Writes
    <3>2. Older(ctl[k].pending.rec).claim = ctl[k].pending.rec.claim
      BY <3>1, Effects
    <3> QED
      BY <2>1, <2>3, <3>1, <3>2 DEF Tick, Passes
  <2> QED
    BY <2>2, <2>3
<1> QED
  BY <1>4, <1>5, <1>6

LEMMA CancelKeepsHeld ==
  ASSUME HeldInv, NEW c \in Card, Cancel(c)
  PROVE  (ClaimsAreLive /\ RevokedWereUsed /\ PassesAreCurrent)'
<1> USE DEF HeldInv
<1>1. /\ cards[c] \in CardRecord /\ cards[c].claim \in Attempt
      /\ cards[c].status = "running" /\ att[cards[c].claim] # "unused"
  BY DEF Cancel, TypeOK, CardRecord, ClaimsAreLive
<1>2. Cancelled(cards[c]).claim = None
  BY <1>1, Effects
<1>3. ClaimsAreLive'
  BY <1>1, <1>2, DroppedClaim DEF Cancel
<1>4. PassesAreCurrent'
  BY <1>1, PassesFrame DEF Cancel
<1> QED
  BY <1>1, <1>3, <1>4 DEF Cancel, RevokedWereUsed

LEMMA HeldAlways ==
  ASSUME \A j, k \in Controller : j = k
  PROVE  Spec => []HeldInv
<1> DEFINE Held == ClaimsAreLive /\ RevokedWereUsed /\ PassesAreCurrent
<1>1. Init => Held
  BY DEF Init, Created, Idle, ClaimsAreLive, RevokedWereUsed, PassesAreCurrent
<1>2. TypeOK /\ Held /\ [Next]_vars => Held'
  <2> SUFFICES ASSUME HeldInv, [Next]_vars PROVE Held'
    BY DEF HeldInv
  <2>1. CASE UNCHANGED vars
    BY <2>1 DEF vars, HeldInv, ClaimsAreLive, RevokedWereUsed, PassesAreCurrent
  <2> QED
    BY <2>1, TickKeepsHeld, WorkerKeepsHeld, CancelKeepsHeld, ControllerKeepsHeld DEF Next
<1>3. Spec => []TypeOK
  BY TypeCorrect
<1>4. TypeOK /\ Held => HeldInv
  BY DEF HeldInv
<1> HIDE DEF Held
<1> QED
  BY <1>1, <1>2, <1>3, <1>4, PTL DEF Spec

(* Under a held repository lease no claim is left on a card that is not    *)
(* RUNNING, where no worker could take it and no recovery would find it.   *)
THEOREM ClaimsNotStranded ==
  ASSUME \A j, k \in Controller : j = k
  PROVE  Spec => []NoStrandedClaim
<1>1. HeldInv => NoStrandedClaim
  BY DEF HeldInv, ClaimsAreLive, NoStrandedClaim
<1> QED
  BY <1>1, HeldAlways, PTL

(* Under a held repository lease no attempt whose claim was cancelled or   *)
(* ran out of time is accepted, whatever passes, retries and repairs came  *)
(* in between.                                                             *)
THEOREM LateResultsRefused ==
  ASSUME \A j, k \in Controller : j = k
  PROVE  Spec => LateResultRefused
<1> DEFINE Refused == \A a \in cancelled \cup expired :
                         att'[a] = "accepted" => att[a] = "accepted"
<1>1. HeldInv /\ [Next]_vars => [Refused]_vars
  <2> SUFFICES ASSUME HeldInv, Next, NEW a \in cancelled \cup expired, att'[a] = "accepted"
               PROVE  att[a] = "accepted"
    OBVIOUS
  <2>1. a \in Attempt /\ TypeOK
    BY DEF HeldInv, TypeOK
  <2>2. ~Credited(a)
    <3>1. job[a] # None => job[a] \in Card
      BY <2>1 DEF TypeOK
    <3> QED
      BY <2>1, <3>1, NoneDiffers DEF HeldInv, ClaimsAreLive, Credited
  <2>3. ASSUME NEW b \in Attempt, WorkerStep(b) PROVE att[a] = "accepted"
    <3>1. CASE b = a /\ Complete(b)
      BY <2>2, <3>1 DEF Complete
    <3>2. CASE b # a /\ Complete(b)
      BY <2>1, <3>2 DEF Complete, TypeOK
    <3>3. CASE Heartbeat(b)
      BY <3>3 DEF Heartbeat
    <3>4. ASSUME NEW outcome \in {"working", "blocked", "rejected", "crashed"},
                 att' = [att EXCEPT ![b] = outcome]
          PROVE  att[a] = "accepted"
      BY <2>1, <3>4 DEF TypeOK
    <3> QED
      BY <2>3, <3>1, <3>2, <3>3, <3>4
         DEF WorkerStep, Claim, Block, Rejected, WorkerCrash
  <2>4. ASSUME NEW k \in Controller, ControllerStep(k) PROVE att' = att
    BY <2>4 DEF ControllerStep, BeginReconcile, BeginDispatch, BeginPromote, BeginUnblock,
                Write, EndPass, Recover, Promote, RequeueBlocked, CreateRepair,
                RequeueRepair, Unblock, ReassignQueued, Copy
  <2> QED
    BY <2>3, <2>4 DEF Next, Tick, Cancel
<1>2. Spec => []HeldInv
  BY HeldAlways
<1> QED
  BY <1>1, <1>2, PTL DEF Spec, LateResultRefused
=============================================================================
