------------------------ MODULE DirectQueueOutcomes ------------------------
(* What becomes of attempts and cards under a held repository lease, for   *)
(* every board: the failures counted against a card's budget, and, for     *)
(* ordinary cards, the claims of workers, completions, cancellations and   *)
(* the order of dependent cards.                                           *)
EXTENDS DirectQueueProofs, FiniteSetTheorems

(* A claim without time left is known to have run out, and a recovery only *)
(* looks for claims that did.                                              *)
ClaimsRanOut ==
    /\ \A c \in Card : cards[c].claim # None /\ cards[c].left = 0
                          => cards[c].claim \in expired
    /\ \A k \in Controller : ctl[k].lapsed \subseteq expired

(* A card's budget is charged with attempts that failed, but not yet with  *)
(* the one that still holds it, and a copy carries no larger charge.       *)
ChargesFit ==
    /\ \A c \in Card : cards[c].failures <= Cardinality(Failed(c) \ {cards[c].claim})
    /\ \A k \in Controller : ctl[k].pending # NoWrite =>
          ctl[k].pending.rec.failures <= Cardinality(Failed(ctl[k].pending.card))

ChargeInv == ClaimsRanOut /\ ChargesFit

(* What the changes of a card's record do to its charge, time and result.  *)
LEMMA RecordEffects ==
  ASSUME NEW r \in CardRecord
  PROVE  /\ Cancelled(r).failures = r.failures /\ Requeued(r).failures = r.failures
         /\ Unblocked(r).failures = r.failures /\ Renewed(r).failures = r.failures
         /\ Older(r).failures = r.failures /\ Reassigned(r).failures = 0
         /\ [r EXCEPT !.status = "ready"].failures = r.failures
         /\ \A a : Claimed(r, a).failures = r.failures /\ Completed(r, a).failures = r.failures
         /\ \A why \in Reasons : /\ BlockedFor(r, why).failures <= r.failures + 1
                                 /\ BlockedFor(r, why).status = "blocked"
         /\ \A limit \in Nat : Expired(r, limit).failures = r.failures + 1
         /\ Renewed(r).left = LeaseTicks /\ (Older(r).left = 0 => r.left \in {0, 1})
         /\ Requeued(r).status = "ready" /\ Unblocked(r).status = "todo"
         /\ [r EXCEPT !.status = "ready"].status = "ready"
         /\ View(Cancelled(r)) = "cancelled"
         /\ \A a : Completed(r, a).status = "done" /\ Completed(r, a).proof = a
         /\ View(Older(r)) = View(r) /\ Older(r).proof = r.proof
         /\ View(Renewed(r)) = View(r) /\ Renewed(r).proof = r.proof
<1>1. Unclaimed(r) \in CardRecord /\ Unclaimed(r).failures = r.failures
  <2>1. Unclaimed(r) \in CardRecord
    BY Records
  <2> QED
    BY <2>1 DEF CardRecord, Unclaimed
<1>2. /\ Cancelled(r).failures = r.failures /\ Requeued(r).failures = r.failures
      /\ Unblocked(r).failures = r.failures /\ Reassigned(r).failures = 0
      /\ Requeued(r).status = "ready" /\ Unblocked(r).status = "todo"
      /\ View(Cancelled(r)) = "cancelled"
  <2>1. Requeued(r) \in CardRecord
    BY Records
  <2> QED
    BY <1>1, <2>1 DEF Cancelled, Requeued, Unblocked, Reassigned, View, CardRecord
<1>3. /\ Renewed(r).failures = r.failures /\ Older(r).failures = r.failures
      /\ [r EXCEPT !.status = "ready"].failures = r.failures
      /\ [r EXCEPT !.status = "ready"].status = "ready"
      /\ Renewed(r).left = LeaseTicks /\ (Older(r).left = 0 => r.left \in {0, 1})
      /\ Older(r).proof = r.proof /\ Renewed(r).proof = r.proof
      /\ Older(r).status = r.status /\ Older(r).block = r.block
      /\ Renewed(r).status = r.status /\ Renewed(r).block = r.block
  BY BoundsAreSane DEF CardRecord, Renewed, Older
<1>4. View(Older(r)) = View(r) /\ View(Renewed(r)) = View(r)
  BY <1>3 DEF View
<1>5. \A a : /\ Claimed(r, a).failures = r.failures /\ Completed(r, a).failures = r.failures
             /\ Completed(r, a).status = "done" /\ Completed(r, a).proof = a
  BY <1>1 DEF Claimed, Completed, CardRecord
<1>6. \A why \in Reasons : /\ BlockedFor(r, why).failures <= r.failures + 1
                           /\ BlockedFor(r, why).status = "blocked"
  BY <1>1 DEF BlockedFor, CardRecord
<1>7. \A limit \in Nat : Expired(r, limit).failures = r.failures + 1
  BY <1>1 DEF Expired, Charged, CardRecord
<1> QED
  BY <1>2, <1>3, <1>4, <1>5, <1>6, <1>7

(* Attempts are finitely many, so that failures can be counted.            *)
LEMMA FailedIsFinite ==
  ASSUME NEW S \in SUBSET Attempt
  PROVE  /\ IsFiniteSet(S) /\ Cardinality(S) \in Nat
         /\ \A T \in SUBSET S : Cardinality(T) <= Cardinality(S)
         /\ \A a \in S : Cardinality(S) = Cardinality(S \ {a}) + 1
<1>1. IsFiniteSet(S)
  BY BoundsAreSane, FS_Subset
<1>2. \A a \in S : Cardinality(S \ {a}) = Cardinality(S) - 1
  BY <1>1, FS_RemoveElement
<1> QED
  BY <1>1, <1>2, FS_CardinalityType, FS_Subset

(* A failure is never forgotten.                                           *)
LEMMA FailedGrows ==
  ASSUME HeldInv, Next, NEW c \in Card
  PROVE  Failed(c) \subseteq Failed(c)'
<1> USE DEF HeldInv, Failed
<1>1. ASSUME expired \subseteq expired',
             \A a \in Attempt : att[a] # "unused" => job'[a] = job[a],
             \A a \in Attempt : att[a] = "blocked" => att'[a] = "blocked"
      PROVE  Failed(c) \subseteq Failed(c)'
  BY <1>1 DEF RevokedWereUsed
<1>2. CASE Tick
  BY <1>1, <1>2 DEF Tick
<1>3. ASSUME NEW a \in Attempt, WorkerStep(a) PROVE Failed(c) \subseteq Failed(c)'
  <2>1. ASSUME NEW d \in Card, Claim(a, d) PROVE Failed(c) \subseteq Failed(c)'
    BY <1>1, <2>1 DEF Claim, revoked, TypeOK
  <2> QED
    BY <1>1, <1>3, <2>1 DEF WorkerStep, Heartbeat, Complete, Rejected, WorkerCrash, Block,
                            revoked, TypeOK
<1>4. ASSUME NEW d \in Card, Cancel(d) PROVE Failed(c) \subseteq Failed(c)'
  BY <1>1, <1>4 DEF Cancel
<1>5. ASSUME NEW k \in Controller, ControllerStep(k) PROVE Failed(c) \subseteq Failed(c)'
  <2>1. UNCHANGED <<att, job, expired>>
    BY <1>5 DEF ControllerStep, BeginReconcile, BeginDispatch, BeginPromote, BeginUnblock,
                Write, EndPass, Recover, Promote, RequeueBlocked, CreateRepair,
                RequeueRepair, Unblock, ReassignQueued, Copy, revoked
  <2> QED
    BY <1>1, <2>1
<1> QED
  BY <1>2, <1>3, <1>4, <1>5 DEF Next

(* A card keeps its charge and its claim, or loses the claim.              *)
LEMMA ChargeKept ==
  ASSUME TypeOK, TypeOK', NEW c \in Card, Failed(c) \subseteq Failed(c)',
         cards[c].failures <= Cardinality(Failed(c) \ {cards[c].claim}),
         cards'[c].claim \in {None, cards[c].claim},
         cards'[c].failures <= cards[c].failures
  PROVE  cards'[c].failures <= Cardinality(Failed(c)' \ {cards'[c].claim})
<1>1. /\ Failed(c) \ {cards[c].claim} \in SUBSET (Failed(c)' \ {cards'[c].claim})
      /\ Failed(c)' \ {cards'[c].claim} \in SUBSET Attempt
      /\ Failed(c) \ {cards[c].claim} \in SUBSET Attempt
  BY NoneDiffers DEF Failed
<1>2. cards[c].failures \in Nat /\ cards'[c].failures \in Nat
  BY DEF TypeOK, CardRecord
<1> HIDE DEF Failed
<1> QED
  BY <1>1, <1>2, FailedIsFinite

(* A card is charged with its claim, which it loses.                       *)
LEMMA ChargeAdded ==
  ASSUME TypeOK, TypeOK', NEW c \in Card, Failed(c) \subseteq Failed(c)',
         cards[c].failures <= Cardinality(Failed(c) \ {cards[c].claim}),
         cards[c].claim \in Failed(c)', cards'[c].claim = None,
         cards'[c].failures <= cards[c].failures + 1
  PROVE  cards'[c].failures <= Cardinality(Failed(c)' \ {cards'[c].claim})
<1>1. /\ Failed(c)' \in SUBSET Attempt /\ Failed(c)' \ {cards'[c].claim} = Failed(c)'
      /\ Failed(c) \ {cards[c].claim} \in SUBSET (Failed(c)' \ {cards[c].claim})
      /\ Failed(c)' \ {cards[c].claim} \in SUBSET Attempt
      /\ Failed(c) \ {cards[c].claim} \in SUBSET Attempt
  <2>1. Failed(c)' \in SUBSET Attempt
    BY DEF Failed
  <2> QED
    BY <2>1, NoneDiffers
<1>2. cards[c].failures \in Nat /\ cards'[c].failures \in Nat
  BY DEF TypeOK, CardRecord
<1>3. Cardinality(Failed(c)') = Cardinality(Failed(c)' \ {cards[c].claim}) + 1
  BY <1>1, FailedIsFinite
<1>4. Cardinality(Failed(c) \ {cards[c].claim}) <= Cardinality(Failed(c)' \ {cards[c].claim})
  BY <1>1, FailedIsFinite
<1>5. /\ Cardinality(Failed(c)' \ {cards[c].claim}) \in Nat
      /\ Cardinality(Failed(c) \ {cards[c].claim}) \in Nat /\ Cardinality(Failed(c)') \in Nat
  BY <1>1, FailedIsFinite
<1>6. Cardinality(Failed(c)' \ {cards'[c].claim}) = Cardinality(Failed(c)')
  BY <1>1
<1> QED
  BY <1>2, <1>3, <1>4, <1>5, <1>6

(* What is left of a pass when a card had its turn, a write was prepared,  *)
(* and a write was made.                                                   *)
LEMMA TurnTaken ==
  ASSUME TypeOK, NEW k \in Controller, NEW turn,
         ctl' = [ctl EXCEPT ![k].turns = @ \ {turn}]
  PROVE  \A j \in Controller :
            /\ ctl'[j].phase = ctl[j].phase /\ ctl'[j].list = ctl[j].list
            /\ ctl'[j].lapsed = ctl[j].lapsed /\ ctl'[j].pending = ctl[j].pending
            /\ ctl'[j].turns = IF j = k THEN ctl[j].turns \ {turn} ELSE ctl[j].turns
BY DEF TypeOK, Passes

(* The first half of _update changes nothing but the controller.           *)
LEMMA WritePrepared ==
  ASSUME TypeOK, NEW k \in Controller, NEW c, NEW turn, NEW rec, Copy(k, c, turn, rec)
  PROVE  /\ UNCHANGED <<cards, att, job, cancelled, expired>>
         /\ ctl'[k].phase = ctl[k].phase /\ ctl'[k].list = ctl[k].list
         /\ ctl'[k].lapsed = ctl[k].lapsed /\ ctl'[k].turns = ctl[k].turns \ {turn}
         /\ ctl'[k].pending = [card |-> c, rec |-> rec]
BY DEF Copy, TypeOK, Passes, revoked

(* The second half stores the copy.                                        *)
LEMMA WriteMade ==
  ASSUME TypeOK, NEW k \in Controller, Write(k)
  PROVE  /\ UNCHANGED <<att, job, cancelled, expired>>
         /\ ctl'[k].phase = ctl[k].phase /\ ctl'[k].list = ctl[k].list
         /\ ctl'[k].lapsed = ctl[k].lapsed /\ ctl'[k].turns = ctl[k].turns
         /\ ctl'[k].pending = NoWrite
         /\ ctl[k].pending.card \in Card /\ ctl[k].pending.rec \in CardRecord
         /\ cards' = [cards EXCEPT ![ctl[k].pending.card] = ctl[k].pending.rec]
BY DEF Write, TypeOK, Passes, Writes, revoked

(* A step that changes one card, which keeps its claim and its time or     *)
(* loses its claim, leaves no claim without time that did not run out.     *)
LEMMA RanOutFrame ==
  ASSUME HeldInv, ClaimsRanOut, NEW c \in Card, NEW rec, cards' = [cards EXCEPT ![c] = rec],
         rec.claim = None \/ rec.left # 0, expired' = expired
  PROVE  \A d \in Card : cards'[d].claim # None /\ cards'[d].left = 0
                            => cards'[d].claim \in expired'
BY DEF HeldInv, TypeOK, ClaimsRanOut

(* A claim that ended by expiry had run out, in every step.                *)
LEMMA RanOutStep ==
  ASSUME HeldInv, ClaimsRanOut, Next
  PROVE  ClaimsRanOut'
<1> USE DEF HeldInv, revoked
<1> DEFINE RanOut == \A c \in Card : cards[c].claim # None /\ cards[c].left = 0
                                        => cards[c].claim \in expired
<1>1. ASSUME \A k \in Controller : ctl'[k].lapsed = ctl[k].lapsed, expired \subseteq expired',
             RanOut'
      PROVE  ClaimsRanOut'
  BY <1>1 DEF ClaimsRanOut
<1>2. CASE Tick
  <2>1. ASSUME NEW k \in Controller PROVE ctl'[k].lapsed = ctl[k].lapsed
    <3>1. ctl[k] \in Passes
      BY DEF TypeOK
    <3> QED
      BY <1>2, <3>1 DEF Tick, Passes
  <2>2. ASSUME NEW c \in Card, cards'[c].claim # None, cards'[c].left = 0
        PROVE  cards'[c].claim \in expired'
    <3>1. cards[c] \in CardRecord /\ cards'[c] = Older(cards[c])
      BY <1>2 DEF Tick, TypeOK
    <3>2. cards'[c].claim = cards[c].claim /\ cards[c].left \in {0, 1}
      BY <2>2, <3>1, Effects, RecordEffects
    <3>3. cards[c].claim \in Attempt
      BY <2>2, <3>1, <3>2 DEF CardRecord
    <3>4. CASE cards[c].left = 0
      BY <1>2, <2>2, <3>2, <3>4 DEF ClaimsRanOut, Tick
    <3>5. CASE cards[c].left = 1
      BY <1>2, <3>2, <3>3, <3>5 DEF Tick
    <3> QED
      BY <3>2, <3>4, <3>5
  <2>3. expired \subseteq expired'
    BY <1>2 DEF Tick
  <2> QED
    BY <1>1, <2>1, <2>2, <2>3
<1>3. ASSUME NEW a \in Attempt, WorkerStep(a) PROVE ClaimsRanOut'
  <2>1. UNCHANGED <<ctl, expired>>
    BY <1>3 DEF WorkerStep, Claim, Heartbeat, Complete, Rejected, WorkerCrash, Block
  <2>2. CASE cards' = cards
    BY <1>1, <2>1, <2>2 DEF ClaimsRanOut
  <2>3. ASSUME NEW c \in Card, Claim(a, c) PROVE ClaimsRanOut'
    <3>1. Claimed(cards[c], a).left # 0
      BY Effects, BoundsAreSane DEF TypeOK
    <3> QED
      BY <1>1, <2>1, <2>3, <3>1, RanOutFrame DEF Claim
  <2>4. CASE Credited(a) /\ (Heartbeat(a) \/ Complete(a) \/ \E why \in Reasons : Block(a, why))
    <3>1. job[a] \in Card /\ cards[job[a]] \in CardRecord
      BY <2>4 DEF Credited, TypeOK
    <3>2. /\ Renewed(cards[job[a]]).left # 0 /\ Completed(cards[job[a]], a).claim = None
          /\ \A why : BlockedFor(cards[job[a]], why).claim = None
      BY <3>1, Effects, RecordEffects, BoundsAreSane
    <3> QED
      BY <1>1, <2>1, <2>4, <3>1, <3>2, RanOutFrame DEF Heartbeat, Complete, Block
  <2> QED
    BY <1>3, <2>2, <2>3, <2>4 DEF WorkerStep, Heartbeat, Complete, Rejected, WorkerCrash, Block
<1>4. ASSUME NEW c \in Card, Cancel(c) PROVE ClaimsRanOut'
  <2>1. Cancelled(cards[c]).claim = None
    BY Effects DEF TypeOK
  <2> QED
    BY <1>1, <1>4, <2>1, RanOutFrame DEF Cancel
<1>5. ASSUME NEW k \in Controller, ControllerStep(k) PROVE ClaimsRanOut'
  <2>1. expired' = expired /\ ctl[k] \in Passes
    BY <1>5 DEF TypeOK, ControllerStep, BeginReconcile, BeginDispatch, BeginPromote,
                BeginUnblock, Write, EndPass, Recover, Promote, RequeueBlocked, CreateRepair,
                RequeueRepair, Unblock, ReassignQueued, Copy
  <2>2. CASE BeginDispatch(k)
    <3>1. Lapsed \subseteq expired
      BY DEF Lapsed, ClaimsRanOut
    <3> QED
      BY <2>1, <2>2, <3>1 DEF BeginDispatch, Enter, ClaimsRanOut, TypeOK
  <2>3. CASE BeginReconcile(k) \/ BeginPromote(k) \/ BeginUnblock(k) \/ EndPass(k)
    BY <2>1, <2>3 DEF BeginReconcile, BeginPromote, BeginUnblock, EndPass, Enter, Idle,
                      ClaimsRanOut, TypeOK
  <2>4. ASSUME NEW c \in Card, NEW turn, NEW rec, Copy(k, c, turn, rec) PROVE ClaimsRanOut'
    BY <2>1, <2>4 DEF Copy, ClaimsRanOut, TypeOK, Passes
  <2>5. CASE Write(k)
    <3>1. ctl[k].pending.card \in Card /\ ctl[k].pending.rec.claim = None
      BY <2>1, <2>5 DEF Write, Passes, Writes, PassesAreCurrent
    <3>2. \A j \in Controller : ctl'[j].lapsed = ctl[j].lapsed
      BY <2>1, <2>5 DEF Write, TypeOK, Passes
    <3> QED
      BY <1>1, <2>1, <2>5, <3>1, <3>2, RanOutFrame DEF Write
  <2>6. ASSUME NEW c \in Card, Recover(k, c) \/ CreateRepair(k, c) PROVE ClaimsRanOut'
    <3>1. Expired(cards[c], MaxRetries[c]).claim = None /\ Created("ready").claim = None
      BY Effects DEF TypeOK, Created
    <3>2. \A j \in Controller : ctl'[j].lapsed = ctl[j].lapsed
      <4>1. CASE Recover(k, c)
        BY <4>1, TurnTaken DEF Recover
      <4>2. CASE CreateRepair(k, c)
        BY <4>2, TurnTaken DEF CreateRepair
      <4> QED
        BY <2>6, <4>1, <4>2
    <3>3. CASE cards' = cards
      BY <1>1, <2>1, <3>2, <3>3 DEF ClaimsRanOut
    <3> QED
      BY <1>1, <2>1, <2>6, <3>1, <3>2, <3>3, RanOutFrame DEF Recover, CreateRepair
  <2> QED
    BY <1>5, <2>2, <2>3, <2>4, <2>5, <2>6
       DEF ControllerStep, Promote, RequeueBlocked, RequeueRepair, Unblock, ReassignQueued
<1> QED
  BY <1>2, <1>3, <1>4, <1>5 DEF Next

(* Every step charges a card at most the failures it had.                  *)
LEMMA ChargesStep ==
  ASSUME HeldInv, HeldInv', \A j, k \in Controller : j = k, ChargeInv, Next
  PROVE  ChargesFit'
<1> USE DEF HeldInv, revoked
<1> DEFINE Fits(c) == cards[c].failures <= Cardinality(Failed(c) \ {cards[c].claim})
           CopyFits(k) == ctl[k].pending # NoWrite =>
              ctl[k].pending.rec.failures <= Cardinality(Failed(ctl[k].pending.card))
<1>1. \A c \in Card : Fits(c) /\ Failed(c) \subseteq Failed(c)'
  BY FailedGrows DEF ChargeInv, ChargesFit
<1>2. \A k \in Controller : CopyFits(k)
  BY DEF ChargeInv, ChargesFit
<1>3. ASSUME NEW c \in Card, cards'[c].claim \in {None, cards[c].claim},
             cards'[c].failures <= cards[c].failures
      PROVE  Fits(c)'
  BY <1>1, <1>3, ChargeKept
<1>4. ASSUME NEW c \in Card, cards'[c] = cards[c] PROVE Fits(c)'
  BY <1>3, <1>4 DEF TypeOK, CardRecord
<1>5. ASSUME NEW c \in Card, NEW rec, cards' = [cards EXCEPT ![c] = rec],
             rec.claim \in {None, cards[c].claim}, rec.failures <= cards[c].failures,
             NEW d \in Card
      PROVE  Fits(d)'
  <2>1. CASE d = c
    BY <1>3, <1>5, <2>1 DEF TypeOK
  <2>2. CASE d # c
    BY <1>4, <1>5, <2>2 DEF TypeOK
  <2> QED
    BY <2>1, <2>2
<1>6. ASSUME NEW k \in Controller, ctl'[k].pending = NoWrite \/ ctl'[k].pending = ctl[k].pending
      PROVE  CopyFits(k)'
  <2> SUFFICES ASSUME ctl'[k].pending # NoWrite, ctl'[k].pending = ctl[k].pending
               PROVE  ctl'[k].pending.rec.failures <= Cardinality(Failed(ctl[k].pending.card)')
    BY <1>6
  <2>1. PICK c \in Card : c = ctl[k].pending.card /\ ctl[k].pending.rec.failures \in Nat
    BY <1>6 DEF TypeOK, Passes, Writes, CardRecord
  <2>2. Failed(c) \in SUBSET Failed(c)' /\ Failed(c)' \in SUBSET Attempt /\ Failed(c) \in SUBSET Attempt
    BY <1>1, <2>1 DEF Failed
  <2>3. ctl[k].pending.rec.failures <= Cardinality(Failed(c))
    BY <1>2, <2>1
  <2>4. /\ Cardinality(Failed(c)) <= Cardinality(Failed(c)')
        /\ Cardinality(Failed(c)) \in Nat /\ Cardinality(Failed(c)') \in Nat
    BY <2>2, FailedIsFinite
  <2>5. ctl[k].pending.rec.failures <= Cardinality(Failed(c)')
    BY <2>1, <2>3, <2>4
  <2> QED
    BY <2>1, <2>5
<1> SUFFICES (\A c \in Card : Fits(c)') /\ \A k \in Controller : CopyFits(k)'
  BY DEF ChargesFit
<1> HIDE DEF Fits, CopyFits
<1>7. CASE Tick
  <2>1. ASSUME NEW c \in Card PROVE Fits(c)'
    <3>1. cards[c] \in CardRecord /\ cards'[c] = Older(cards[c])
      BY <1>7 DEF Tick, TypeOK
    <3>2. cards'[c].claim = cards[c].claim /\ cards'[c].failures = cards[c].failures
      BY <3>1, Effects, RecordEffects
    <3> QED
      BY <1>3, <3>1, <3>2 DEF CardRecord
  <2>2. ASSUME NEW k \in Controller PROVE CopyFits(k)'
    <3>1. CASE ctl[k].pending = NoWrite
      BY <1>6, <1>7, <3>1 DEF Tick
    <3>2. CASE ctl[k].pending # NoWrite
      <4>1. /\ ctl[k] \in Passes /\ ctl[k].pending \in [card : Card, rec : CardRecord]
        BY <3>2 DEF TypeOK, Passes, Writes
      <4>2. /\ ctl'[k].pending.card = ctl[k].pending.card
            /\ ctl'[k].pending.rec = Older(ctl[k].pending.rec)
        BY <1>7, <3>2, <4>1 DEF Tick, Passes
      <4>3. ctl'[k].pending.rec.failures = ctl[k].pending.rec.failures
        BY <4>1, <4>2, RecordEffects
      <4>8. PICK c \in Card : c = ctl[k].pending.card
        BY <4>1
      <4>4. /\ Failed(c) \in SUBSET Failed(c)' /\ Failed(c)' \in SUBSET Attempt
            /\ Failed(c) \in SUBSET Attempt /\ ctl[k].pending.rec.failures \in Nat
        BY <1>1, <4>1 DEF Failed, CardRecord
      <4>5. ctl[k].pending.rec.failures <= Cardinality(Failed(c))
        BY <1>2, <3>2, <4>8 DEF CopyFits
      <4>6. /\ Cardinality(Failed(c)) <= Cardinality(Failed(c)')
            /\ Cardinality(Failed(c)) \in Nat /\ Cardinality(Failed(c)') \in Nat
        BY <4>4, FailedIsFinite
      <4>7. ctl[k].pending.rec.failures <= Cardinality(Failed(c)')
        BY <4>4, <4>5, <4>6
      <4> QED
        BY <4>2, <4>3, <4>7, <4>8 DEF CopyFits
    <3> QED
      BY <3>1, <3>2
  <2> QED
    BY <2>1, <2>2
<1>8. ASSUME NEW a \in Attempt, WorkerStep(a)
      PROVE  (\A c \in Card : Fits(c)') /\ \A k \in Controller : CopyFits(k)'
  <2>1. ctl' = ctl /\ cancelled' = cancelled /\ expired' = expired
    BY <1>8 DEF WorkerStep, Claim, Heartbeat, Complete, Rejected, WorkerCrash, Block
  <2>2. \A k \in Controller : CopyFits(k)'
    BY <1>6, <2>1
  <2>3. CASE cards' = cards
    BY <1>4, <2>2, <2>3
  <2>4. ASSUME NEW c \in Card, Claim(a, c) PROVE \A d \in Card : Fits(d)'
    <3>1. ASSUME NEW d \in Card, d # c PROVE Fits(d)'
      BY <1>4, <2>4, <3>1 DEF Claim, TypeOK
    <3>2. cards'[c].claim = a /\ cards'[c].failures = cards[c].failures
      BY <2>4, Effects, RecordEffects DEF Claim, TypeOK
    <3>3. a \notin Failed(c)'
      BY <2>1, <2>4 DEF Claim, Failed, TypeOK, RevokedWereUsed
    <3>4. cards[c].claim = None
      BY <2>4 DEF Claim
    <3>5. /\ Failed(c) \ {cards[c].claim} \in SUBSET (Failed(c)' \ {cards'[c].claim})
          /\ Failed(c) \ {cards[c].claim} \in SUBSET Attempt
          /\ Failed(c)' \ {cards'[c].claim} \in SUBSET Attempt
      <4>1. Failed(c) \subseteq Attempt /\ Failed(c)' \subseteq Attempt
        BY DEF Failed
      <4> QED
        BY <1>1, <3>2, <3>3, <4>1
    <3>6. /\ Cardinality(Failed(c) \ {cards[c].claim}) <= Cardinality(Failed(c)' \ {cards'[c].claim})
          /\ Cardinality(Failed(c) \ {cards[c].claim}) \in Nat
          /\ Cardinality(Failed(c)' \ {cards'[c].claim}) \in Nat
      BY <3>5, FailedIsFinite
    <3>7. cards[c].failures <= Cardinality(Failed(c) \ {cards[c].claim})
      BY <1>1 DEF Fits
    <3>8. cards[c].failures \in Nat
      BY DEF TypeOK, CardRecord
    <3>9. Fits(c)'
      BY <3>2, <3>6, <3>7, <3>8 DEF Fits
    <3> QED
      BY <3>1, <3>9
  <2>5. CASE Credited(a) /\ (Heartbeat(a) \/ Complete(a) \/ \E why \in Reasons : Block(a, why))
    <3>1. PICK c \in Card :
             /\ c = job[a] /\ cards[c] \in CardRecord /\ cards[c].claim = a
             /\ cards[c].failures \in Nat
      BY <2>5 DEF Credited, TypeOK, CardRecord
    <3>2. CASE Heartbeat(a)
      <4>1. cards' = [cards EXCEPT ![c] = Renewed(cards[c])]
        BY <3>1, <3>2 DEF Heartbeat
      <4>2. /\ Renewed(cards[c]).claim \in {None, cards[c].claim}
            /\ Renewed(cards[c]).failures <= cards[c].failures
        BY <3>1, Effects, RecordEffects
      <4> QED
        BY <1>5, <2>2, <3>1, <4>1, <4>2
    <3>3. CASE Complete(a)
      <4>1. cards' = [cards EXCEPT ![c] = Completed(cards[c], a)]
        BY <3>1, <3>3 DEF Complete
      <4>2. /\ Completed(cards[c], a).claim \in {None, cards[c].claim}
            /\ Completed(cards[c], a).failures <= cards[c].failures
        BY <3>1, Effects, RecordEffects
      <4> QED
        BY <1>5, <2>2, <3>1, <4>1, <4>2
    <3>4. ASSUME NEW why \in Reasons, Block(a, why) PROVE \A d \in Card : Fits(d)'
      <4>1. cards' = [cards EXCEPT ![c] = BlockedFor(cards[c], why)]
        BY <3>1, <3>4 DEF Block
      <4>2. /\ BlockedFor(cards[c], why).claim = None
            /\ BlockedFor(cards[c], why).failures <= cards[c].failures + 1
        BY <3>1, Effects, RecordEffects
      <4>3. cards'[c].claim = None /\ cards'[c].failures <= cards[c].failures + 1
        BY <3>1, <4>1, <4>2 DEF TypeOK
      <4>4. a \in Failed(c)'
        BY <3>1, <3>4 DEF Block, Failed, TypeOK
      <4>5. cards[c].failures <= Cardinality(Failed(c) \ {cards[c].claim})
        BY <1>1, <3>1 DEF Fits
      <4>6. Fits(c)'
        BY <1>1, <3>1, <4>3, <4>4, <4>5, ChargeAdded DEF Fits
      <4>7. ASSUME NEW d \in Card, d # c PROVE Fits(d)'
        BY <1>4, <4>1, <4>7 DEF TypeOK
      <4> QED
        BY <4>6, <4>7
    <3> QED
      BY <2>2, <2>5, <3>2, <3>3, <3>4
  <2> QED
    BY <1>8, <2>2, <2>3, <2>4, <2>5
       DEF WorkerStep, Heartbeat, Complete, Rejected, WorkerCrash, Block
<1>9. ASSUME NEW c \in Card, Cancel(c)
      PROVE  (\A d \in Card : Fits(d)') /\ \A k \in Controller : CopyFits(k)'
  <2>1. /\ Cancelled(cards[c]).claim \in {None, cards[c].claim}
        /\ Cancelled(cards[c]).failures <= cards[c].failures
    <3>1. cards[c] \in CardRecord /\ cards[c].failures \in Nat
      BY DEF TypeOK, CardRecord
    <3> QED
      BY <3>1, Effects, RecordEffects
  <2>2. \A d \in Card : Fits(d)'
    BY <1>5, <1>9, <2>1 DEF Cancel
  <2> QED
    BY <1>6, <1>9, <2>2 DEF Cancel
<1>10. ASSUME NEW k \in Controller, ControllerStep(k)
       PROVE  (\A c \in Card : Fits(c)') /\ \A j \in Controller : CopyFits(j)'
  <2>1. ctl[k] \in Passes /\ \A j \in Controller : j = k
    BY DEF TypeOK
  <2>2. ASSUME cards' = cards, ctl'[k].pending = NoWrite
        PROVE  (\A c \in Card : Fits(c)') /\ \A j \in Controller : CopyFits(j)'
    BY <1>4, <1>6, <2>1, <2>2
  <2>3. CASE BeginReconcile(k) \/ BeginDispatch(k) \/ BeginPromote(k) \/ BeginUnblock(k) \/ EndPass(k)
    BY <2>2, <2>3 DEF BeginReconcile, BeginDispatch, BeginPromote, BeginUnblock, EndPass,
                      Enter, Idle, TypeOK
  <2>4. ASSUME NEW c \in Card, NEW turn, NEW rec, Copy(k, c, turn, rec),
               rec.failures <= cards[c].failures, rec.failures \in Nat
        PROVE  (\A d \in Card : Fits(d)') /\ \A j \in Controller : CopyFits(j)'
    <3>1. /\ cards' = cards /\ ctl'[k].pending = [card |-> c, rec |-> rec]
          /\ UNCHANGED <<att, job, expired>>
      BY <2>4, WritePrepared
    <3>2. Failed(c)' = Failed(c)
      BY <3>1 DEF Failed
    <3>3. cards[c].failures <= Cardinality(Failed(c) \ {cards[c].claim}) /\ cards[c].failures \in Nat
      BY <1>1 DEF Fits, TypeOK, CardRecord
    <3>4. /\ Failed(c) \ {cards[c].claim} \in SUBSET Failed(c) /\ Failed(c) \in SUBSET Attempt
          /\ Failed(c) \ {cards[c].claim} \in SUBSET Attempt
      BY DEF Failed
    <3>5. /\ Cardinality(Failed(c) \ {cards[c].claim}) <= Cardinality(Failed(c))
          /\ Cardinality(Failed(c) \ {cards[c].claim}) \in Nat /\ Cardinality(Failed(c)) \in Nat
      BY <3>4, FailedIsFinite
    <3>6. rec.failures <= Cardinality(Failed(c)')
      BY <2>4, <3>2, <3>3, <3>5
    <3>7. CopyFits(k)'
      BY <3>1, <3>6 DEF CopyFits
    <3> QED
      BY <1>4, <2>1, <3>1, <3>7
  <2>5. ASSUME NEW c \in Card, \/ Promote(k, c) \/ ReassignQueued(k, c) \/ RequeueBlocked(k, c)
                               \/ RequeueRepair(k, c) \/ Unblock(k, c)
        PROVE  (\A d \in Card : Fits(d)') /\ \A j \in Controller : CopyFits(j)'
    <3>1. cards[c] \in CardRecord /\ cards[c].failures \in Nat
      BY DEF TypeOK, CardRecord
    <3>2. ASSUME NEW rec \in {Requeued(cards[c]), Reassigned(cards[c]), Unblocked(cards[c]),
                              [cards[c] EXCEPT !.status = "ready"]}
          PROVE  rec.failures <= cards[c].failures /\ rec.failures \in Nat
      <4>1. rec.failures \in {0, cards[c].failures}
        <5>1. /\ Requeued(cards[c]).failures = cards[c].failures
              /\ Reassigned(cards[c]).failures = 0
              /\ Unblocked(cards[c]).failures = cards[c].failures
              /\ [cards[c] EXCEPT !.status = "ready"].failures = cards[c].failures
          BY <3>1, RecordEffects
        <5> QED
          BY <5>1, Zenon
      <4> QED
        BY <3>1, <4>1
    <3>3. PICK rec \in {Requeued(cards[c]), Reassigned(cards[c]), Unblocked(cards[c]),
                        [cards[c] EXCEPT !.status = "ready"]} : \E turn : Copy(k, c, turn, rec)
      BY <2>5 DEF Promote, ReassignQueued, RequeueBlocked, RequeueRepair, Unblock
    <3> QED
      BY <2>4, <3>2, <3>3
  <2>6. CASE Write(k)
    <3>1. PICK c \in Card, rec \in CardRecord :
             /\ c = ctl[k].pending.card /\ rec = ctl[k].pending.rec
             /\ ctl'[k].pending = NoWrite
             /\ cards' = [cards EXCEPT ![c] = rec] /\ UNCHANGED <<att, job, expired>>
      BY <2>6, WriteMade
    <3>2. rec.claim = None /\ rec.failures <= Cardinality(Failed(c))
      BY <1>2, <2>6, <3>1 DEF Write, PassesAreCurrent, CopyFits
    <3>3. cards'[c] = rec
      BY <3>1 DEF TypeOK
    <3>4. Failed(c)' = Failed(c) /\ None \notin Failed(c)
      BY <3>1, NoneDiffers DEF Failed
    <3>5. Failed(c)' \ {cards'[c].claim} = Failed(c)
      BY <3>2, <3>3, <3>4
    <3>6. Fits(c)'
      BY <3>2, <3>3, <3>5 DEF Fits
    <3>7. ASSUME NEW d \in Card, d # c PROVE Fits(d)'
      BY <1>4, <3>1, <3>7 DEF TypeOK
    <3> QED
      BY <1>6, <2>1, <3>1, <3>6, <3>7
  <2>7. ASSUME NEW c \in Card, Recover(k, c)
        PROVE  (\A d \in Card : Fits(d)') /\ \A j \in Controller : CopyFits(j)'
    <3>1. /\ cards[c] \in CardRecord /\ MaxRetries[c] \in Nat
          /\ cards[c].claim \in expired /\ cards[c].claim \in Attempt
      BY <2>7, BoundsAreSane DEF Recover, StillLapsed, ChargeInv, ClaimsRanOut, TypeOK
    <3>2. cards[c].claim \in Failed(c)' /\ UNCHANGED <<att, job, expired>>
      BY <2>7, <3>1, NoneDiffers DEF Recover, Failed, ClaimsAreLive
    <3>3. cards'[c] = Expired(cards[c], MaxRetries[c])
      BY <2>7 DEF Recover, TypeOK
    <3>4. cards'[c].claim = None /\ cards'[c].failures <= cards[c].failures + 1
      BY <3>1, <3>3, Effects, RecordEffects DEF CardRecord
    <3>5. cards[c].failures <= Cardinality(Failed(c) \ {cards[c].claim})
      BY <1>1 DEF Fits
    <3>6. Fits(c)'
      BY <1>1, <3>2, <3>4, <3>5, ChargeAdded DEF Fits
    <3>7. ASSUME NEW d \in Card, d # c PROVE Fits(d)'
      BY <1>4, <2>7, <3>7 DEF Recover, TypeOK
    <3>8. ctl'[k].pending = ctl[k].pending
      BY <2>7, TurnTaken DEF Recover
    <3> QED
      BY <1>6, <2>1, <3>6, <3>7, <3>8
  <2>8. ASSUME NEW c \in Card, CreateRepair(k, c)
        PROVE  (\A d \in Card : Fits(d)') /\ \A j \in Controller : CopyFits(j)'
    <3>1. ctl'[k].pending = ctl[k].pending
      BY <2>8, TurnTaken DEF CreateRepair
    <3>2. /\ Created("ready").claim \in {None, cards[c].claim}
          /\ Created("ready").failures <= cards[c].failures
      BY DEF Created, TypeOK, CardRecord
    <3>3. CASE cards' = cards
      BY <1>4, <1>6, <2>1, <3>1, <3>3
    <3>4. CASE cards' = [cards EXCEPT ![c] = Created("ready")]
      BY <1>5, <1>6, <2>1, <3>1, <3>2, <3>4
    <3> QED
      BY <2>8, <3>3, <3>4 DEF CreateRepair
  <2> QED
    BY <1>10, <2>3, <2>5, <2>6, <2>7, <2>8 DEF ControllerStep
<1> QED
  BY <1>7, <1>8, <1>9, <1>10 DEF Next

(* The budget part of the invariant.                                       *)
LEMMA ChargesAlways ==
  ASSUME \A j, k \in Controller : j = k
  PROVE  Spec => []ChargeInv
<1>1. Init => ChargeInv
  <2> SUFFICES ASSUME Init PROVE ChargeInv
    OBVIOUS
  <2>1. ASSUME NEW c \in Card
        PROVE  cards[c].failures <= Cardinality(Failed(c) \ {cards[c].claim})
    <3>1. Failed(c) \ {cards[c].claim} \in SUBSET Attempt
      BY DEF Failed
    <3>2. Cardinality(Failed(c) \ {cards[c].claim}) \in Nat
      BY <3>1, FailedIsFinite
    <3> QED
      BY <3>2 DEF Init, Created
  <2> QED
    BY <2>1 DEF Init, Created, Idle, ChargeInv, ClaimsRanOut, ChargesFit
<1>2. HeldInv /\ HeldInv' /\ ChargeInv /\ [Next]_vars => ChargeInv'
  <2> SUFFICES ASSUME HeldInv, HeldInv', ChargeInv, [Next]_vars PROVE ChargeInv'
    OBVIOUS
  <2>1. CASE Next
    BY <2>1, RanOutStep, ChargesStep DEF ChargeInv
  <2>2. CASE UNCHANGED vars
    BY <2>2 DEF vars, ChargeInv, ClaimsRanOut, ChargesFit, Failed
  <2> QED
    BY <2>1, <2>2
<1>3. Spec => []HeldInv
  BY HeldAlways
<1> QED
  BY <1>1, <1>2, <1>3, PTL DEF Spec

(* Under a held repository lease a card's budget is never charged with     *)
(* more failures than its attempts had: no expiry is counted twice, not by *)
(* a recovery that races with heartbeats, cancellations and completions,   *)
(* and not by a pass that writes an old copy of the card.                  *)
THEOREM FailuresAreCounted ==
  ASSUME \A j, k \in Controller : j = k
  PROVE  Spec => []FailuresCounted
<1>1. HeldInv /\ ChargeInv => FailuresCounted
  <2> SUFFICES ASSUME HeldInv, ChargeInv, NEW c \in Card
               PROVE  cards[c].failures <= Cardinality(Failed(c))
    BY DEF FailuresCounted
  <2>1. cards[c].failures <= Cardinality(Failed(c) \ {cards[c].claim}) /\ cards[c].failures \in Nat
    BY DEF ChargeInv, ChargesFit, HeldInv, TypeOK, CardRecord
  <2>2. /\ Failed(c) \ {cards[c].claim} \in SUBSET Failed(c) /\ Failed(c) \in SUBSET Attempt
        /\ Failed(c) \ {cards[c].claim} \in SUBSET Attempt
    BY DEF Failed
  <2>3. /\ Cardinality(Failed(c) \ {cards[c].claim}) <= Cardinality(Failed(c))
        /\ Cardinality(Failed(c) \ {cards[c].claim}) \in Nat /\ Cardinality(Failed(c)) \in Nat
    BY <2>2, FailedIsFinite
  <2> QED
    BY <2>1, <2>3
<1> QED
  BY <1>1, HeldAlways, ChargesAlways, PTL

----------------------------------------------------------------------------
(* Ordinary cards.  A pass may store an older copy of a repair card, and   *)
(* take over a card without retries; it does neither with the other cards. *)

ParentsAreDone(c) == \A p \in Parents[c] \cap Ordinary : cards[p].status = "done"

(* What a pass may write over: nobody but a pass changes such a card.      *)
Waiting == {"todo", "technical", "owner"}

(* A card listed as DONE is, a blocked card whose turn is to come is       *)
(* blocked as it was listed, and a pending copy will be written over a     *)
(* card that still waits; a copy that makes it READY, after its parents.   *)
PassesFit ==
    \A k \in Controller :
        /\ \A c \in Ordinary : ctl[k].list[c] = "done" => cards[c].status = "done"
        /\ \A c \in ctl[k].turns \cap Ordinary :
              /\ ctl[k].phase = "reconcile" /\ ctl[k].list[c] = "technical"
                    => View(cards[c]) = "technical"
              /\ ctl[k].phase = "unblock" /\ ctl[k].list[c] = "owner"
                    => View(cards[c]) = "owner"
        /\ ctl[k].pending # NoWrite /\ ctl[k].pending.card \in Ordinary =>
              /\ ctl[k].pending.card \notin ctl[k].turns
              /\ View(cards[ctl[k].pending.card]) \in Waiting
              /\ ctl[k].pending.rec.status \in {"todo", "ready"}
              /\ ctl[k].pending.rec.status = "ready" => ParentsAreDone(ctl[k].pending.card)

(* A worker at work holds its card, or its claim was revoked.              *)
WorkersHold ==
    \A a \in Attempt : att[a] = "working" =>
        /\ job[a] # None
        /\ job[a] \in Ordinary => cards[job[a]].claim = a \/ a \in cancelled \cup expired

(* The properties of the runs, for the attempts at ordinary cards and for  *)
(* ordinary cards that depend on ordinary cards.                           *)
OrdinaryWorkerKeepsItsCard ==
    \A a \in Attempt : att[a] = "rejected" =>
        /\ job[a] # None
        /\ job[a] \in Ordinary => a \in cancelled \cup expired
OrdinaryCompletionSurvives ==
    \A a \in Attempt : att[a] = "accepted" =>
        /\ job[a] # None
        /\ job[a] \in Ordinary => cards[job[a]].status = "done" /\ cards[job[a]].proof = a
OrdinaryCancellationSticks ==
    \A a \in cancelled :
        /\ job[a] # None
        /\ job[a] \in Ordinary => View(cards[job[a]]) = "cancelled"
OrdinaryDependencyOrder ==
    \A c \in Ordinary : cards[c].status \notin {"absent", "todo"} => ParentsAreDone(c)

OrdinaryInv == /\ PassesFit /\ WorkersHold
               /\ OrdinaryWorkerKeepsItsCard /\ OrdinaryCompletionSurvives
               /\ OrdinaryCancellationSticks /\ OrdinaryDependencyOrder

(* What a step can do to an ordinary card: nothing that shows, a claim,    *)
(* the end of its claim, or a write by a pass.                             *)
Kept(c) == /\ View(cards'[c]) = View(cards[c]) /\ cards'[c].status = cards[c].status
           /\ cards'[c].proof = cards[c].proof /\ cards'[c].claim = cards[c].claim
Taken(c) == \E a \in Attempt : /\ Claim(a, c)
                               /\ cards'[c].claim = a /\ cards'[c].status = "running"
Ended(c) == /\ cards[c].claim \in Attempt /\ cards[c].status = "running"
            /\ \/ att'[cards[c].claim] \in {"accepted", "blocked"}
               \/ cards[c].claim \in cancelled' \cup expired'
Stored(c) == \E k \in Controller : Write(k) /\ ctl[k].pending.card = c

(* What one step may do to an ordinary card.                               *)
LEMMA OrdinaryMoves ==
  ASSUME HeldInv, ChargeInv, Next, NEW c \in Ordinary
  PROVE  Kept(c) \/ Taken(c) \/ Ended(c) \/ Stored(c)
<1> USE DEF HeldInv, revoked
<1>1. c \in Card /\ c \notin Repair /\ cards[c] \in CardRecord
  BY DEF Ordinary, TypeOK
<1>2. cards'[c] = cards[c] => Kept(c)
  BY DEF Kept
<1>3. CASE Tick
  <2>1. cards'[c] = Older(cards[c])
    BY <1>1, <1>3 DEF Tick
  <2> QED
    BY <1>1, <2>1, Effects, RecordEffects DEF Kept
<1>4. ASSUME NEW a \in Attempt, WorkerStep(a)
      PROVE  Kept(c) \/ Taken(c) \/ Ended(c) \/ Stored(c)
  <2>1. ASSUME NEW d \in Card, Claim(a, d) PROVE Kept(c) \/ Taken(c)
    <3>1. CASE d = c
      <4>1. cards'[c] = Claimed(cards[c], a)
        BY <1>1, <2>1, <3>1 DEF Claim, TypeOK
      <4>2. cards'[c].claim = a /\ cards'[c].status = "running"
        BY <1>1, <4>1, Effects
      <4> QED
        BY <2>1, <3>1, <4>2 DEF Taken
    <3>2. CASE d # c
      BY <1>1, <1>2, <2>1, <3>2 DEF Claim, TypeOK
    <3> QED
      BY <3>1, <3>2
  <2>2. CASE Credited(a)
    <3>1. job[a] \in Card /\ cards[job[a]].claim = a /\ cards[job[a]].status = "running"
      BY <2>2, NoneDiffers DEF Credited, TypeOK, ClaimsAreLive
    <3>2. CASE Heartbeat(a)
      <4>1. CASE job[a] = c
        BY <1>1, <3>1, <3>2, <4>1, Effects, RecordEffects DEF Heartbeat, Kept, TypeOK
      <4>2. CASE job[a] # c
        BY <1>1, <1>2, <3>1, <3>2, <4>2 DEF Heartbeat, TypeOK
      <4> QED
        BY <4>1, <4>2
    <3>3. CASE Complete(a) \/ \E why \in Reasons : Block(a, why)
      <4>1. CASE job[a] = c
        BY <1>1, <3>1, <3>3, <4>1 DEF Complete, Block, Ended, TypeOK
      <4>2. CASE job[a] # c
        BY <1>1, <1>2, <3>1, <3>3, <4>2 DEF Complete, Block, TypeOK
      <4> QED
        BY <4>1, <4>2
    <3> QED
      BY <1>2, <1>4, <2>1, <3>2, <3>3 DEF WorkerStep, Rejected, WorkerCrash
  <2> QED
    BY <1>2, <1>4, <2>1, <2>2
       DEF WorkerStep, Heartbeat, Complete, Block, Rejected, WorkerCrash
<1>5. ASSUME NEW d \in Card, Cancel(d) PROVE Kept(c) \/ Ended(c)
  <2>1. CASE d = c
    BY <1>1, <1>5, <2>1 DEF Cancel, Ended, ClaimsAreLive, CardRecord
  <2>2. CASE d # c
    BY <1>1, <1>2, <1>5, <2>2 DEF Cancel, TypeOK
  <2> QED
    BY <2>1, <2>2
<1>6. ASSUME NEW k \in Controller, ControllerStep(k)
      PROVE  Kept(c) \/ Ended(c) \/ Stored(c)
  <2>1. CASE Write(k)
    <3>1. CASE ctl[k].pending.card = c
      BY <2>1, <3>1 DEF Stored
    <3>2. CASE ctl[k].pending.card # c
      BY <1>1, <1>2, <2>1, <3>2, WriteMade DEF TypeOK
    <3> QED
      BY <3>1, <3>2
  <2>2. ASSUME NEW d \in Card, Recover(k, d) PROVE Kept(c) \/ Ended(c)
    <3>1. CASE d = c
      <4>1. cards[c].claim \in expired /\ cards[c].claim \in Attempt /\ expired' = expired
        BY <2>2, <3>1 DEF Recover, StillLapsed, ChargeInv, ClaimsRanOut, TypeOK
      <4> QED
        BY <1>1, <4>1, NoneDiffers DEF Ended, ClaimsAreLive
    <3>2. CASE d # c
      BY <1>1, <1>2, <2>2, <3>2 DEF Recover, TypeOK
    <3> QED
      BY <3>1, <3>2
  <2>3. ASSUME NEW d \in Card, CreateRepair(k, d) PROVE Kept(c)
    BY <1>1, <1>2, <2>3 DEF CreateRepair, TypeOK
  <2> QED
    BY <1>2, <1>6, <2>1, <2>2, <2>3
       DEF ControllerStep, BeginReconcile, BeginDispatch, BeginPromote, BeginUnblock, EndPass,
           Promote, RequeueBlocked, RequeueRepair, Unblock, ReassignQueued, Copy
<1> QED
  BY <1>3, <1>4, <1>5, <1>6 DEF Next

(* What a step does to the attempts.                                       *)
LEMMA AttemptMoves ==
  ASSUME HeldInv, Next, NEW a \in Attempt
  PROVE  /\ cancelled \subseteq cancelled' /\ expired \subseteq expired'
         /\ a \in cancelled' \ cancelled => \E c \in Card : Cancel(c) /\ cards[c].claim = a
         /\ att[a] # "unused" => job'[a] = job[a]
         /\ \/ att'[a] = att[a] /\ job'[a] = job[a]
            \/ \E c \in Card : Claim(a, c)
            \/ Complete(a)
            \/ Rejected(a)
            \/ att'[a] \in {"blocked", "crashed"}
<1> USE DEF HeldInv, revoked
<1>1. CASE Tick
  BY <1>1 DEF Tick
<1>2. ASSUME NEW b \in Attempt, WorkerStep(b), b # a
      PROVE  att'[a] = att[a] /\ job'[a] = job[a] /\ UNCHANGED <<cancelled, expired>>
  BY <1>2 DEF WorkerStep, Claim, Heartbeat, Complete, Block, Rejected, WorkerCrash, TypeOK
<1>3. CASE WorkerStep(a)
  <2>1. UNCHANGED <<cancelled, expired>>
    BY <1>3 DEF WorkerStep, Claim, Heartbeat, Complete, Block, Rejected, WorkerCrash
  <2>2. CASE Heartbeat(a)
    BY <2>1, <2>2 DEF Heartbeat
  <2>3. ASSUME NEW c \in Card, Claim(a, c) PROVE att[a] = "unused"
    BY <2>3 DEF Claim
  <2>4. CASE Complete(a) \/ Rejected(a)
    BY <2>1, <2>4 DEF Complete, Rejected
  <2>5. CASE WorkerCrash(a) \/ \E why \in Reasons : Block(a, why)
    BY <2>1, <2>5 DEF WorkerCrash, Block, TypeOK
  <2> QED
    BY <1>3, <2>1, <2>2, <2>3, <2>4, <2>5 DEF WorkerStep
<1>4. ASSUME NEW c \in Card, Cancel(c)
      PROVE  /\ cancelled' = cancelled \cup {cards[c].claim} /\ Cancel(c)
             /\ UNCHANGED <<att, job, expired>>
  BY <1>4 DEF Cancel
<1>5. ASSUME NEW k \in Controller, ControllerStep(k)
      PROVE  UNCHANGED <<att, job, cancelled, expired>>
  BY <1>5 DEF ControllerStep, BeginReconcile, BeginDispatch, BeginPromote, BeginUnblock,
              Write, EndPass, Recover, Promote, RequeueBlocked, CreateRepair,
              RequeueRepair, Unblock, ReassignQueued, Copy
<1> QED
  BY <1>1, <1>2, <1>3, <1>4, <1>5 DEF Next

(* A card that is DONE or whose claim was cancelled is written by nobody.  *)
LEMMA FinalCards ==
  ASSUME HeldInv, ChargeInv, PassesFit, Next, NEW c \in Ordinary,
         View(cards[c]) \in {"done", "cancelled"}
  PROVE  Kept(c)
<1>1. c \in Card /\ cards[c] \in CardRecord
  BY DEF Ordinary, HeldInv, TypeOK
<1>2. cards[c].status \in {"done", "blocked"}
  BY <1>1 DEF View, CardRecord, Statuses
<1>3. ~Taken(c) /\ ~Ended(c)
  BY <1>2 DEF Taken, Claim, Ended
<1>4. ~Stored(c)
  BY DEF Stored, Write, PassesFit, Waiting
<1> QED
  BY <1>3, <1>4, OrdinaryMoves

(* A blocked or TODO card changes only by a pending write over it.         *)
LEMMA WaitingCards ==
  ASSUME HeldInv, ChargeInv, Next, NEW c \in Ordinary, View(cards[c]) \in Waiting
  PROVE  Kept(c) \/ Stored(c)
<1>1. c \in Card /\ cards[c] \in CardRecord
  BY DEF Ordinary, HeldInv, TypeOK
<1>2. cards[c].status \in {"todo", "blocked"}
  BY <1>1 DEF View, Waiting, CardRecord, Statuses
<1>3. ~Taken(c) /\ ~Ended(c)
  BY <1>2 DEF Taken, Claim, Ended
<1> QED
  BY <1>3, OrdinaryMoves

(* Parents that are DONE stay DONE.                                        *)
LEMMA ParentsStay ==
  ASSUME HeldInv, ChargeInv, PassesFit, Next, NEW c \in Card, ParentsAreDone(c)
  PROVE  ParentsAreDone(c)'
<1> SUFFICES ASSUME NEW p \in Parents[c] \cap Ordinary PROVE cards'[p].status = "done"
  BY DEF ParentsAreDone, Ordinary, Repair
<1>1. cards[p].status = "done" /\ p \in Ordinary
  BY DEF ParentsAreDone
<1>2. View(cards[p]) = "done"
  BY <1>1 DEF View
<1> QED
  BY <1>1, <1>2, FinalCards DEF Kept

(* A worker keeps its card in every step.                                  *)
LEMMA WorkersStep ==
  ASSUME HeldInv, ChargeInv, OrdinaryInv, Next
  PROVE  WorkersHold' /\ OrdinaryWorkerKeepsItsCard'
<1> USE DEF HeldInv
<1>1. ASSUME NEW a \in Attempt, att'[a] = "working"
      PROVE  /\ job'[a] # None
             /\ job'[a] \in Ordinary => cards'[job'[a]].claim = a \/ a \in cancelled' \cup expired'
  <2>1. ASSUME NEW c \in Card, Claim(a, c)
        PROVE  job'[a] = c /\ cards'[c].claim = a
    <3>1. cards'[c] = Claimed(cards[c], a)
      BY <2>1 DEF Claim, TypeOK
    <3> QED
      BY <2>1, <3>1, Effects DEF Claim, TypeOK
  <2>2. CASE att[a] = "working" /\ job'[a] = job[a]
    <3>1. job[a] # None
      BY <2>2 DEF OrdinaryInv, WorkersHold
    <3>2. CASE job[a] \in Ordinary /\ cards[job[a]].claim = a /\ a \notin cancelled \cup expired
      <4>1. PICK c \in Ordinary : c = job[a] /\ cards[c].claim = a
        BY <3>2
      <4>2. Kept(c) \/ Taken(c) \/ Ended(c) \/ Stored(c)
        BY OrdinaryMoves
      <4>3. ~Taken(c)
        BY <4>1, NoneDiffers DEF Taken, Claim
      <4>4. ~Stored(c)
        <5>1. cards[c].status = "running"
          BY <4>1, NoneDiffers DEF ClaimsAreLive, Ordinary
        <5> QED
          BY <5>1 DEF Stored, Write, OrdinaryInv, PassesFit, View, Waiting
      <4> QED
        BY <1>1, <2>2, <3>1, <4>1, <4>2, <4>3, <4>4 DEF Kept, Ended
    <3> QED
      BY <2>2, <3>1, <3>2, AttemptMoves DEF OrdinaryInv, WorkersHold
  <2>3. (\E c \in Card : Claim(a, c)) \/ (att[a] = "working" /\ job'[a] = job[a])
    BY <1>1, AttemptMoves DEF Complete, Rejected, TypeOK
  <2> QED
    BY <2>1, <2>2, <2>3, NoneDiffers
<1>2. ASSUME NEW a \in Attempt, att'[a] = "rejected"
      PROVE  /\ job'[a] # None
             /\ job'[a] \in Ordinary => a \in cancelled' \cup expired'
  <2>1. ASSUME NEW c \in Card, Claim(a, c) PROVE FALSE
    BY <1>2, <2>1 DEF Claim, TypeOK
  <2>2. ~Complete(a)
    BY <1>2 DEF Complete, TypeOK
  <2>3. CASE Rejected(a)
    <3>1. job'[a] = job[a] /\ job[a] # None /\ ~Credited(a)
      BY <1>2, <2>3 DEF Rejected, OrdinaryInv, WorkersHold
    <3>2. job[a] \in Ordinary => cards[job[a]].claim = a \/ a \in cancelled \cup expired
      BY <2>3, <3>1 DEF Rejected, OrdinaryInv, WorkersHold
    <3>3. CASE job[a] \in Ordinary /\ cards[job[a]].claim = a
      <4>1. job[a] \in Card /\ cards[job[a]] \in CardRecord
        BY <3>1 DEF Ordinary, TypeOK
      <4>2. cards[job[a]].left = 0
        BY <3>1, <3>3, <4>1 DEF Credited, CardRecord
      <4> QED
        BY <3>1, <3>3, <4>1, <4>2, NoneDiffers, AttemptMoves DEF ChargeInv, ClaimsRanOut
    <3> QED
      BY <3>1, <3>2, <3>3, AttemptMoves
  <2>4. CASE att[a] = "rejected" /\ job'[a] = job[a]
    BY <1>2, <2>4, AttemptMoves DEF OrdinaryInv, OrdinaryWorkerKeepsItsCard
  <2> QED
    BY <1>2, <2>1, <2>2, <2>3, <2>4, AttemptMoves
<1> QED
  BY <1>1, <1>2 DEF WorkersHold, OrdinaryWorkerKeepsItsCard, Ordinary, Repair

(* Results stay in every step.                                             *)
LEMMA ResultsStep ==
  ASSUME HeldInv, HeldInv', ChargeInv, OrdinaryInv, Next
  PROVE  OrdinaryCompletionSurvives' /\ OrdinaryCancellationSticks' /\ OrdinaryDependencyOrder'
<1> USE DEF HeldInv
<1>1. ASSUME NEW a \in Attempt, att'[a] = "accepted"
      PROVE  /\ job'[a] # None
             /\ job'[a] \in Ordinary => cards'[job'[a]].status = "done" /\ cards'[job'[a]].proof = a
  <2>1. ASSUME NEW c \in Card, Claim(a, c) PROVE FALSE
    BY <1>1, <2>1 DEF Claim, TypeOK
  <2>2. ~Rejected(a)
    BY <1>1 DEF Rejected, TypeOK
  <2>3. CASE Complete(a)
    <3>1. job[a] \in Card /\ job[a] # None /\ job'[a] = job[a]
      BY <2>3, NoneDiffers DEF Complete, Credited, TypeOK
    <3>2. cards'[job[a]] = Completed(cards[job[a]], a)
      BY <2>3, <3>1 DEF Complete, TypeOK
    <3> QED
      BY <3>1, <3>2, RecordEffects DEF TypeOK
  <2>4. CASE att[a] = "accepted" /\ job'[a] = job[a]
    <3>1. job[a] # None
      BY <2>4 DEF OrdinaryInv, OrdinaryCompletionSurvives
    <3>2. ASSUME NEW c \in Ordinary, c = job[a]
          PROVE  cards'[c].status = "done" /\ cards'[c].proof = a
      <4>1. cards[c].status = "done" /\ cards[c].proof = a
        BY <2>4, <3>2 DEF OrdinaryInv, OrdinaryCompletionSurvives
      <4>2. View(cards[c]) = "done"
        BY <4>1 DEF View
      <4> QED
        BY <4>1, <4>2, FinalCards DEF OrdinaryInv, Kept
    <3> QED
      BY <2>4, <3>1, <3>2
  <2> QED
    BY <1>1, <2>1, <2>2, <2>3, <2>4, AttemptMoves
<1>2. ASSUME NEW a \in cancelled'
      PROVE  /\ job'[a] # None
             /\ job'[a] \in Ordinary => View(cards'[job'[a]]) = "cancelled"
  <2>1. CASE a \in cancelled
    <3>1. a \in Attempt /\ job[a] # None /\ job'[a] = job[a]
      BY <2>1, AttemptMoves DEF OrdinaryInv, OrdinaryCancellationSticks, RevokedWereUsed, TypeOK
    <3>2. ASSUME NEW c \in Ordinary, c = job[a] PROVE View(cards'[c]) = "cancelled"
      BY <2>1, <3>2, FinalCards DEF OrdinaryInv, OrdinaryCancellationSticks, Kept
    <3> QED
      BY <3>1, <3>2
  <2>2. ASSUME NEW c \in Card, Cancel(c), cards[c].claim = a
        PROVE  /\ job'[a] # None /\ View(cards'[job'[a]]) = "cancelled"
    <3>1. job[a] = c /\ c # None /\ job' = job
      BY <2>2, NoneDiffers DEF Cancel, ClaimsAreLive
    <3>2. cards'[c] = Cancelled(cards[c]) /\ cards[c] \in CardRecord
      BY <2>2 DEF Cancel, TypeOK
    <3> QED
      BY <3>1, <3>2, RecordEffects
  <2>3. a \notin cancelled => \E c \in Card : Cancel(c) /\ cards[c].claim = a
    <3>1. a \in Attempt
      BY <1>2 DEF TypeOK
    <3> QED
      BY <1>2, <3>1, AttemptMoves
  <2> QED
    BY <2>1, <2>2, <2>3
<1>3. ASSUME NEW c \in Ordinary, cards'[c].status \notin {"absent", "todo"}
      PROVE  ParentsAreDone(c)'
  <2>1. c \in Card
    BY DEF Ordinary
  <2>2. CASE cards[c].status \notin {"absent", "todo"}
    BY <2>1, <2>2, ParentsStay DEF OrdinaryInv, OrdinaryDependencyOrder
  <2>3. CASE cards[c].status \in {"absent", "todo"}
    <3>1. ~Kept(c) /\ ~Taken(c) /\ ~Ended(c)
      BY <1>3, <2>3 DEF Kept, Taken, Claim, Ended
    <3>2. PICK k \in Controller : Write(k) /\ ctl[k].pending.card = c
      BY <3>1, OrdinaryMoves DEF Stored
    <3>3. cards'[c] = ctl[k].pending.rec /\ ctl[k].pending # NoWrite
      BY <3>2, WriteMade DEF TypeOK, Write
    <3>4. ParentsAreDone(c)
      BY <1>3, <3>2, <3>3 DEF OrdinaryInv, PassesFit
    <3> QED
      BY <2>1, <3>4, ParentsStay DEF OrdinaryInv
  <2> QED
    BY <2>2, <2>3
<1>4. OrdinaryCompletionSurvives'
  BY <1>1 DEF OrdinaryCompletionSurvives, Ordinary, Repair
<1>5. OrdinaryCancellationSticks'
  BY <1>2 DEF OrdinaryCancellationSticks, Ordinary, Repair
<1>6. OrdinaryDependencyOrder'
  BY <1>3 DEF OrdinaryDependencyOrder, Ordinary, Repair
<1> QED
  BY <1>4, <1>5, <1>6

(* A pass keeps what it relies on.                                         *)
LEMMA PassesStep ==
  ASSUME HeldInv, ChargeInv, OrdinaryInv, Next, \A j, k \in Controller : j = k
  PROVE  PassesFit'
<1> USE DEF HeldInv, revoked
<1> DEFINE ListFits(k) == \A c \in Ordinary : ctl[k].list[c] = "done" => cards[c].status = "done"
           TurnFits(k, c) ==
              /\ ctl[k].phase = "reconcile" /\ ctl[k].list[c] = "technical"
                    => View(cards[c]) = "technical"
              /\ ctl[k].phase = "unblock" /\ ctl[k].list[c] = "owner"
                    => View(cards[c]) = "owner"
           CopyFits(k, c) ==
              /\ c \notin ctl[k].turns
              /\ View(cards[c]) \in Waiting
              /\ ctl[k].pending.rec.status \in {"todo", "ready"}
              /\ ctl[k].pending.rec.status = "ready" => ParentsAreDone(c)
           Fits(k) ==
              /\ ListFits(k)
              /\ \A c \in ctl[k].turns \cap Ordinary : TurnFits(k, c)
              /\ \A c \in Ordinary : ctl[k].pending # NoWrite /\ ctl[k].pending.card = c
                    => CopyFits(k, c)
<1>1. \A k \in Controller : Fits(k)
  BY DEF OrdinaryInv, PassesFit
<1>2. ASSUME NEW k \in Controller, Fits(k)' PROVE PassesFit'
  BY <1>2 DEF PassesFit, Ordinary, Repair
<1>3. ASSUME NEW c \in Ordinary PROVE c \in Card /\ cards[c] \in CardRecord
  BY DEF Ordinary, TypeOK
<1>4. ASSUME NEW c \in Ordinary, cards[c].status = "done" PROVE cards'[c].status = "done"
  <2>1. View(cards[c]) = "done"
    BY <1>4 DEF View
  <2> QED
    BY <1>4, <2>1, FinalCards DEF OrdinaryInv, Kept
<1>5. ASSUME NEW k \in Controller, ctl'[k].list = ctl[k].list PROVE ListFits(k)'
  BY <1>1, <1>4, <1>5 DEF Ordinary, Repair
<1>6. ASSUME NEW k \in Controller, NEW c \in Ordinary,
             ctl'[k].list = ctl[k].list, ctl'[k].phase = ctl[k].phase,
             c \in ctl[k].turns
      PROVE  TurnFits(k, c)'
  <2>1. CASE View(cards'[c]) = View(cards[c])
    BY <1>1, <1>6, <2>1
  <2>2. CASE View(cards'[c]) # View(cards[c]) /\ View(cards[c]) \in Waiting
    <3>1. PICK j \in Controller : Write(j) /\ ctl[j].pending.card = c
      BY <2>2, WaitingCards DEF Kept, Stored
    <3>2. c \notin ctl[k].turns
      BY <1>1, <3>1 DEF Write
    <3> QED
      BY <1>6, <3>2
  <2>3. CASE View(cards[c]) \notin Waiting
    BY <1>1, <1>6, <2>3 DEF Waiting
  <2> QED
    BY <2>1, <2>2, <2>3
<1>7. ASSUME NEW k \in Controller, NEW c \in Ordinary, ~Write(k), ctl[k].pending # NoWrite,
             ctl[k].pending.card = c, ctl'[k].turns \subseteq ctl[k].turns,
             ctl'[k].pending.rec.status = ctl[k].pending.rec.status
      PROVE  CopyFits(k, c)'
  <2>1. CopyFits(k, c)
    BY <1>1, <1>7
  <2>2. ~Stored(c)
    BY <1>7 DEF Stored
  <2>3. View(cards'[c]) = View(cards[c])
    BY <2>1, <2>2, WaitingCards DEF Kept
  <2>4. ParentsAreDone(c) => ParentsAreDone(c)'
    BY <1>3, ParentsStay DEF OrdinaryInv
  <2> QED
    BY <1>7, <2>1, <2>3, <2>4
<1> HIDE DEF TurnFits, CopyFits, ListFits
<1>8. ASSUME NEW k \in Controller, ~Write(k),
             ctl'[k].list = ctl[k].list, ctl'[k].phase = ctl[k].phase,
             ctl'[k].turns \subseteq ctl[k].turns,
             \/ ctl'[k].pending = ctl[k].pending
             \/ /\ ctl'[k].pending.card = ctl[k].pending.card
                /\ ctl'[k].pending.rec.status = ctl[k].pending.rec.status
                /\ ctl[k].pending # NoWrite
      PROVE  Fits(k)'
  <2>1. \A c \in (ctl[k].turns)' \cap Ordinary' : TurnFits(k, c)'
    BY <1>6, <1>8 DEF Ordinary, Repair
  <2>2. \A c \in Ordinary' : ctl'[k].pending # NoWrite /\ ctl'[k].pending.card = c
                    => CopyFits(k, c)'
    BY <1>7, <1>8 DEF Ordinary, Repair
  <2> QED
    BY <1>5, <1>8, <2>1, <2>2 DEF Ordinary, Repair
<1>9. ASSUME NEW k \in Controller, Write(k) PROVE Fits(k)'
  <2>1. /\ ctl'[k].list = ctl[k].list /\ ctl'[k].phase = ctl[k].phase
        /\ ctl'[k].turns = ctl[k].turns /\ ctl'[k].pending = NoWrite
    BY <1>9, WriteMade
  <2>2. \A c \in (ctl[k].turns)' \cap Ordinary' : TurnFits(k, c)'
    BY <1>6, <2>1 DEF Ordinary, Repair
  <2> QED
    BY <1>5, <2>1, <2>2
<1>10. ASSUME NEW k \in Controller, ~Write(k), Tick PROVE Fits(k)'
  <2>1. ctl[k] \in Passes
    BY DEF TypeOK
  <2>2. CASE ctl[k].pending = NoWrite
    BY <1>8, <1>10, <2>2 DEF Tick
  <2>3. CASE ctl[k].pending # NoWrite
    <3>1. ctl[k].pending \in [card : Card, rec : CardRecord]
      BY <2>1, <2>3 DEF Passes, Writes
    <3>2. Older(ctl[k].pending.rec).status = ctl[k].pending.rec.status
      BY <3>1, Effects
    <3>3. ctl'[k] = [ctl[k] EXCEPT !.pending = [card |-> ctl[k].pending.card,
                                                rec |-> Older(ctl[k].pending.rec)]]
      BY <1>10, <2>3 DEF Tick
    <3> QED
      BY <1>8, <1>10, <2>1, <2>3, <3>2, <3>3 DEF Passes
  <2> QED
    BY <2>2, <2>3
<1>11. ASSUME NEW k \in Controller, NEW phase, NEW lapsed, Enter(k, phase, lapsed), cards' = cards
       PROVE  Fits(k)'
  <2>1. ctl'[k] = [phase |-> phase, list |-> Listing, turns |-> Card,
                   lapsed |-> lapsed, pending |-> NoWrite]
    BY <1>11 DEF Enter, TypeOK
  <2>2. \A c \in Card : Listing[c] = View(cards[c])
    BY DEF Listing
  <2>3. ListFits(k)'
    <3> SUFFICES ASSUME NEW c \in Ordinary, ctl'[k].list[c] = "done"
                 PROVE  cards'[c].status = "done"
      BY DEF ListFits, Ordinary, Repair
    <3>1. View(cards[c]) = "done"
      BY <1>3, <2>1, <2>2
    <3> QED
      BY <1>11, <3>1 DEF View
  <2>4. \A c \in (ctl[k].turns)' \cap Ordinary' : TurnFits(k, c)'
    BY <1>3, <1>11, <2>1, <2>2 DEF TurnFits, Ordinary, Repair
  <2> QED
    BY <2>1, <2>3, <2>4
<1>12. ASSUME NEW k \in Controller, EndPass(k) PROVE Fits(k)'
  <2>1. ctl'[k] = Idle
    BY <1>12 DEF EndPass, TypeOK
  <2>2. Idle.turns = {} /\ Idle.pending = NoWrite /\ \A c \in Card : Idle.list[c] = "absent"
    BY DEF Idle
  <2> QED
    BY <1>3, <2>1, <2>2 DEF ListFits, Ordinary, Repair
<1>13. ASSUME NEW k \in Controller, ~Write(k), NEW c \in Card, Recover(k, c) \/ CreateRepair(k, c)
       PROVE  Fits(k)'
  <2>1. CASE Recover(k, c)
    BY <1>8, <1>13, <2>1, TurnTaken DEF Recover
  <2>2. CASE CreateRepair(k, c)
    BY <1>8, <1>13, <2>2, TurnTaken DEF CreateRepair
  <2> QED
    BY <1>13, <2>1, <2>2
<1>14. ASSUME NEW k \in Controller, NEW c \in Card, NEW turn, NEW rec, Copy(k, c, turn, rec),
              c \in Ordinary =>
                 /\ turn = c /\ View(cards[c]) \in Waiting
                 /\ rec.status \in {"todo", "ready"}
                 /\ rec.status = "ready" => ParentsAreDone(c)
       PROVE  Fits(k)'
  <2>1. /\ cards' = cards /\ ctl'[k].phase = ctl[k].phase /\ ctl'[k].list = ctl[k].list
        /\ ctl'[k].turns = ctl[k].turns \ {turn}
        /\ ctl'[k].pending = [card |-> c, rec |-> rec]
    BY <1>14, WritePrepared
  <2>2. \A d \in (ctl[k].turns)' \cap Ordinary' : TurnFits(k, d)'
    BY <1>6, <2>1 DEF Ordinary, Repair
  <2>3. ASSUME c \in Ordinary PROVE CopyFits(k, c)'
    <3>1. ParentsAreDone(c) => ParentsAreDone(c)'
      BY <1>3, <2>3, ParentsStay DEF OrdinaryInv
    <3> QED
      BY <1>14, <2>1, <2>3, <3>1 DEF CopyFits
  <2>4. \A d \in Ordinary' : ctl'[k].pending # NoWrite /\ ctl'[k].pending.card = d
                    => CopyFits(k, d)'
    BY <2>1, <2>3 DEF Ordinary, Repair
  <2> QED
    BY <1>5, <2>1, <2>2, <2>4
<1>15. ASSUME NEW k \in Controller, NEW c \in Card,
              \/ Promote(k, c) \/ ReassignQueued(k, c) \/ RequeueBlocked(k, c)
              \/ RequeueRepair(k, c) \/ Unblock(k, c)
       PROVE  Fits(k)'
  <2>1. /\ cards[c] \in CardRecord /\ Requeued(cards[c]).status = "ready"
        /\ Unblocked(cards[c]).status = "todo"
        /\ [cards[c] EXCEPT !.status = "ready"].status = "ready"
    BY RecordEffects DEF TypeOK
  <2>2. CASE Promote(k, c)
    <3>1. cards[c].status = "todo"
      BY <2>2 DEF Promote, Copy, PassesAreCurrent
    <3>2. View(cards[c]) \in Waiting
      BY <3>1 DEF View, Waiting
    <3>3. ParentsAreDone(c)
      BY <1>1, <2>2 DEF Promote, ParentsDone, ListFits, ParentsAreDone
    <3> QED
      BY <1>14, <2>1, <2>2, <3>2, <3>3 DEF Promote
  <2>3. CASE ReassignQueued(k, c)
    <3>1. c \notin Ordinary
      BY <2>3, BoundsAreSane DEF ReassignQueued, Retryable, SeenFailures, Ordinary
    <3> QED
      BY <1>14, <2>3, <3>1 DEF ReassignQueued
  <2>4. CASE RequeueBlocked(k, c)
    <3>1. c \in Ordinary => View(cards[c]) = "technical"
      BY <1>1, <2>4 DEF RequeueBlocked, Copy, TechnicalBlocker, TurnFits
    <3>2. c \in Ordinary => ParentsAreDone(c)
      BY <2>1, <3>1 DEF OrdinaryInv, OrdinaryDependencyOrder, View, CardRecord, Statuses
    <3> QED
      BY <1>14, <2>1, <2>4, <3>1, <3>2 DEF RequeueBlocked, Waiting
  <2>5. CASE RequeueRepair(k, c)
    <3>1. c \notin Ordinary
      BY <2>5 DEF RequeueRepair, Ordinary
    <3> QED
      BY <1>14, <2>5, <3>1 DEF RequeueRepair
  <2>6. CASE Unblock(k, c)
    <3>1. c \in Ordinary => View(cards[c]) = "owner"
      BY <1>1, <2>6 DEF Unblock, Copy, TurnFits
    <3> QED
      BY <1>14, <2>1, <2>6, <3>1 DEF Unblock, Waiting
  <2> QED
    BY <1>15, <2>2, <2>3, <2>4, <2>5, <2>6
<1>16. ASSUME NEW k \in Controller, ~Write(k) PROVE Fits(k)'
  <2>1. ASSUME ctl' = ctl PROVE Fits(k)'
    BY <1>8, <1>16, <2>1
  <2>2. ASSUME NEW j \in Controller, ControllerStep(j) PROVE Fits(k)'
    <3>1. ControllerStep(k)
      BY <2>2
    <3>2. CASE BeginReconcile(k) \/ BeginDispatch(k) \/ BeginPromote(k) \/ BeginUnblock(k)
      BY <1>11, <3>2 DEF BeginReconcile, BeginDispatch, BeginPromote, BeginUnblock
    <3> QED
      BY <1>12, <1>13, <1>15, <1>16, <3>1, <3>2 DEF ControllerStep
  <2>3. ASSUME NEW a \in Attempt, WorkerStep(a) PROVE ctl' = ctl
    BY <2>3 DEF WorkerStep, Claim, Heartbeat, Complete, Block, Rejected, WorkerCrash
  <2>4. ASSUME NEW c \in Card, Cancel(c) PROVE ctl' = ctl
    BY <2>4 DEF Cancel
  <2> QED
    BY <1>10, <1>16, <2>1, <2>2, <2>3, <2>4 DEF Next
<1>17. CASE Controller = {}
  BY <1>17 DEF PassesFit
<1> QED
  BY <1>2, <1>9, <1>16, <1>17

(* The invariant about ordinary cards.                                     *)
LEMMA OrdinaryAlways ==
  ASSUME \A j, k \in Controller : j = k
  PROVE  Spec => [](HeldInv /\ OrdinaryInv)
<1>1. Init => OrdinaryInv
  BY DEF Init, Idle, Created, OrdinaryInv, PassesFit, WorkersHold, OrdinaryWorkerKeepsItsCard,
         OrdinaryCompletionSurvives, OrdinaryCancellationSticks, OrdinaryDependencyOrder, Ordinary
<1>2. HeldInv /\ HeldInv' /\ ChargeInv /\ OrdinaryInv /\ [Next]_vars => OrdinaryInv'
  <2> SUFFICES ASSUME HeldInv, HeldInv', ChargeInv, OrdinaryInv, [Next]_vars
               PROVE  OrdinaryInv'
    OBVIOUS
  <2>1. CASE Next
    BY <2>1, PassesStep, WorkersStep, ResultsStep DEF OrdinaryInv
  <2>2. CASE UNCHANGED vars
    BY <2>2 DEF vars, OrdinaryInv, PassesFit, WorkersHold, OrdinaryWorkerKeepsItsCard,
                OrdinaryCompletionSurvives, OrdinaryCancellationSticks,
                OrdinaryDependencyOrder, ParentsAreDone, Ordinary, Repair, View
  <2> QED
    BY <2>1, <2>2
<1>3. Spec => []HeldInv
  BY HeldAlways
<1>4. Spec => []ChargeInv
  BY ChargesAlways
<1> QED
  BY <1>1, <1>2, <1>3, <1>4, PTL DEF Spec

(* Under a held repository lease the worker of an ordinary card is turned  *)
(* away only after its claim was cancelled or ran out: no pass takes the   *)
(* card from it, whatever else is on the board.                            *)
THEOREM WorkersKeepTheirCards ==
  ASSUME \A j, k \in Controller : j = k
  PROVE  Spec => []WorkerKeepsItsCard
<1>1. HeldInv /\ OrdinaryInv => WorkerKeepsItsCard
  BY DEF OrdinaryInv, OrdinaryWorkerKeepsItsCard, WorkerKeepsItsCard
<1> QED
  BY <1>1, OrdinaryAlways, PTL

(* What a worker was told is accepted stays the result of its card: no     *)
(* pass writes an old copy over it.                                        *)
THEOREM CompletionsSurvive ==
  ASSUME \A j, k \in Controller : j = k
  PROVE  Spec => []CompletionSurvives
<1>1. HeldInv /\ OrdinaryInv => CompletionSurvives
  BY DEF OrdinaryInv, OrdinaryCompletionSurvives, CompletionSurvives
<1> QED
  BY <1>1, OrdinaryAlways, PTL

(* An operator's cancellation is the last word on an ordinary card: no     *)
(* pass that listed the card earlier makes it a retry.                     *)
THEOREM CancellationsStick ==
  ASSUME \A j, k \in Controller : j = k
  PROVE  Spec => []CancellationSticks
<1>1. HeldInv /\ OrdinaryInv => CancellationSticks
  BY DEF OrdinaryInv, OrdinaryCancellationSticks, CancellationSticks
<1> QED
  BY <1>1, OrdinaryAlways, PTL

(* An ordinary card is worked on, or done, only when its parents are done, *)
(* and none of them is undone later.                                       *)
THEOREM DependenciesAreOrdered ==
  ASSUME \A j, k \in Controller : j = k
  PROVE  Spec => []DependencyOrder
<1>1. HeldInv /\ OrdinaryInv => DependencyOrder
  BY DEF OrdinaryInv, OrdinaryDependencyOrder, ParentsAreDone, DependencyOrder
<1> QED
  BY <1>1, OrdinaryAlways, PTL
=============================================================================
