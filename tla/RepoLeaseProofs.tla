-------------------------- MODULE RepoLeaseProofs --------------------------
(* Proofs about RepoLease, for every set of sessions and every choice of   *)
(* the times.                                                              *)
EXTENDS RepoLease, TLAPS

LEMMA ConstantFacts == /\ Floor \in Int /\ Floor <= 0 /\ 0 \in Floor .. TTL /\ TTL > 0
                       /\ \A n \in Floor .. TTL : /\ Down(n) \in Floor .. TTL
                                                  /\ Down(n) > 0 => n > 0
                                                  /\ Down(n) <= n
BY TimesAreSane DEF Floor, Down

(* TypeOK holds in every reachable state.                                  *)
THEOREM TypeCorrect == Spec => []TypeOK
<1>1. Init => TypeOK
  BY ConstantFacts, TimesAreSane DEF Init, TypeOK, Free, Phases
<1>2. TypeOK /\ [Next]_vars => TypeOK'
  <2> SUFFICES ASSUME TypeOK, [Next]_vars PROVE TypeOK'
    OBVIOUS
  <2>1. CASE Tick
    BY <2>1, ConstantFacts, TimesAreSane DEF TypeOK, Tick, Phases
  <2>2. ASSUME NEW s \in Session, ReadClock(s) PROVE TypeOK'
    BY <2>2, TimesAreSane DEF TypeOK, ReadClock, Phases
  <2>3. ASSUME NEW s \in Session, Acquire(s) PROVE TypeOK'
    <3>1. TermGranted(s) \in Floor .. TTL
      BY TimesAreSane DEF TypeOK, TermGranted, Floor
    <3> QED
      BY <2>3, <3>1, TimesAreSane DEF TypeOK, Acquire, Phases
  <2>4. ASSUME NEW s \in Session, Busy(s) \/ GiveUp(s) PROVE TypeOK'
    BY <2>4, TimesAreSane DEF TypeOK, Busy, GiveUp, Phases
  <2>5. ASSUME NEW s \in Session, Leave(s) PROVE TypeOK'
    BY <2>5, ConstantFacts DEF TypeOK, Leave, AfterRelease, Free, Phases
  <2>6. ASSUME NEW s \in Session, Crash(s) \/ Replace(s) PROVE TypeOK'
    BY <2>6, ConstantFacts DEF TypeOK, Crash, Replace, Phases
  <2>7. CASE UNCHANGED vars
    BY <2>7 DEF TypeOK, vars
  <2> QED
    BY <2>1, <2>2, <2>3, <2>4, <2>5, <2>6, <2>7 DEF Next, Step
<1> QED
  BY <1>1, <1>2, PTL DEF Spec

----------------------------------------------------------------------------

(* The row is the term of whoever is inside an unexpired term.  TermExclusive *)
(* is not inductive by itself: only the row connects two sessions.            *)
RowIsTerm == \A s \in Session :
                InTerm(s) => row.owner = s /\ row.left = left[s]

(* A session that obtains the lease finds nobody inside an unexpired term. *)
LEMMA ObtainedFromNobody ==
  ASSUME TypeOK, RowIsTerm, NEW s \in Session, Acquire(s),
         NEW t \in Session, InTerm(t)
  PROVE  FALSE
<1>1. phase[s] = "asking" /\ phase[t] = "inside" /\ left[t] > 0
  BY DEF Acquire, InTerm
<1>2. row.owner = t /\ row.left = left[t]
  BY DEF RowIsTerm
<1>3. PICK answer \in ProbeAnswers(row.owner) : Obtainable(s, answer)
  BY DEF Acquire
<1>4. answer # "gone"
  BY <1>1, <1>2, <1>3 DEF ProbeAnswers
<1>5. ~ExpiredFor(s)
  BY <1>1, <1>2, TimesAreSane, ConstantFacts DEF TypeOK, ExpiredFor
<1> QED
  BY <1>1, <1>2, <1>3, <1>4, <1>5, OwnersDiffer DEF Obtainable

LEMMA RowIsTermStep == TypeOK /\ RowIsTerm /\ [Next]_vars => RowIsTerm'
<1> SUFFICES ASSUME TypeOK, RowIsTerm, [Next]_vars,
                    NEW t \in Session, InTerm(t)'
             PROVE  (row.owner = t /\ row.left = left[t])'
  BY DEF RowIsTerm
<1>1. CASE Tick
  <2>1. phase[t] = "inside" /\ left'[t] = Down(left[t]) /\ InTerm(t)
    BY <1>1, ConstantFacts DEF Tick, InTerm, TypeOK
  <2>2. row.owner = t /\ row.left = left[t] /\ row.owner # NoOwner
    BY <2>1, OwnersDiffer DEF RowIsTerm
  <2> QED
    BY <1>1, <2>1, <2>2 DEF Tick, TypeOK
<1>2. ASSUME NEW s \in Session, ReadClock(s) \/ Busy(s) \/ GiveUp(s) \/ Replace(s)
      PROVE  (row.owner = t /\ row.left = left[t])'
  BY <1>2 DEF ReadClock, Busy, GiveUp, Replace, RowIsTerm, InTerm, TypeOK
<1>3. ASSUME NEW s \in Session, Acquire(s)
      PROVE  (row.owner = t /\ row.left = left[t])'
  <2>1. CASE t = s
    BY <1>3, <2>1 DEF Acquire, TypeOK
  <2>2. CASE t # s
    <3>1. InTerm(t)
      BY <1>3, <2>2 DEF Acquire, InTerm, TypeOK
    <3> QED
      BY <1>3, <3>1, ObtainedFromNobody
  <2> QED
    BY <2>1, <2>2
<1>4. ASSUME NEW s \in Session, Leave(s)
      PROVE  (row.owner = t /\ row.left = left[t])'
  <2>1. t # s /\ InTerm(t)
    BY <1>4 DEF Leave, InTerm, TypeOK
  <2>2. row.owner = t /\ row.left = left[t]
    BY <2>1 DEF RowIsTerm
  <2> QED
    BY <1>4, <2>1, <2>2 DEF Leave, AfterRelease, TypeOK
<1>5. ASSUME NEW s \in Session, Crash(s)
      PROVE  (row.owner = t /\ row.left = left[t])'
  BY <1>5 DEF Crash, RowIsTerm, InTerm, TypeOK
<1>6. CASE UNCHANGED vars
  BY <1>6 DEF RowIsTerm, InTerm, vars
<1> QED
  BY <1>1, <1>2, <1>3, <1>4, <1>5, <1>6 DEF Next, Step

THEOREM RowIsTermAlways == Spec => []RowIsTerm
<1>1. Init => RowIsTerm
  BY DEF Init, RowIsTerm, InTerm
<1> QED
  BY <1>1, RowIsTermStep, TypeCorrect, PTL DEF Spec

(* At most one running session is inside an unexpired term (state.py,      *)
(* StateStore.lease), for any number of sessions, any ttl, any wait.       *)
THEOREM Exclusion == Spec => []TermExclusive
<1>1. RowIsTerm => TermExclusive
  BY DEF RowIsTerm, TermExclusive
<1> QED
  BY <1>1, RowIsTermAlways, PTL

----------------------------------------------------------------------------

(* Sessions inside still have their margin of the term.                    *)
Punctual == \A s \in Session : phase[s] = "inside" => left[s] >= Margin[s]

LEMMA PunctualStep == TypeOK /\ Punctual /\ [Next]_vars => Punctual'
<1> SUFFICES ASSUME TypeOK, Punctual, [Next]_vars,
                    NEW t \in Session, (phase[t] = "inside")'
             PROVE  (left[t] >= Margin[t])'
  BY DEF Punctual
<1>1. CASE Tick
  BY <1>1 DEF Tick, TypeOK
<1>2. ASSUME NEW s \in Session, Acquire(s) PROVE (left[t] >= Margin[t])'
  <2>1. TermGranted(s) >= Margin[s]
    BY TimesAreSane DEF TermGranted, TypeOK
  <2> QED
    BY <1>2, <2>1 DEF Acquire, Punctual, TypeOK
<1>3. ASSUME NEW s \in Session,
             ReadClock(s) \/ Busy(s) \/ GiveUp(s) \/ Leave(s) \/ Crash(s) \/ Replace(s)
      PROVE  (left[t] >= Margin[t])'
  BY <1>3 DEF ReadClock, Busy, GiveUp, Leave, Crash, Replace, Punctual, TypeOK
<1>4. CASE UNCHANGED vars
  BY <1>4 DEF Punctual, vars
<1> QED
  BY <1>1, <1>2, <1>3, <1>4 DEF Next, Step

(* For the sessions that leave at least one tick before their term is over *)
(* the block is a critical section, even if others overrun theirs.         *)
THEOREM CriticalSection == Spec => []NoOverlap
<1>1. Init => Punctual
  BY DEF Init, Punctual
<1>2. Punctual /\ RowIsTerm /\ TypeOK => NoOverlap
  <2> SUFFICES ASSUME Punctual, RowIsTerm, TypeOK,
                      NEW s \in Prompt, NEW t \in Prompt,
                      phase[s] = "inside", phase[t] = "inside"
               PROVE  s = t
    BY DEF NoOverlap
  <2>1. InTerm(s) /\ InTerm(t)
    BY TimesAreSane DEF Prompt, Punctual, InTerm, TypeOK
  <2> QED
    BY <2>1 DEF RowIsTerm, Prompt
<1> QED
  BY <1>1, <1>2, PunctualStep, TypeCorrect, RowIsTermAlways, PTL DEF Spec

----------------------------------------------------------------------------

(* An unexpired row changes hands directly only when its owner is a CLI    *)
(* process found dead: unknown owners stay fail-closed.                    *)
THEOREM TakeoverOnlyJustified == Spec => TakeoverJustified
<1> DEFINE Justified == TakenOver => \/ row.left <= 0
                                     \/ row.owner \in Cli /\ phase[row.owner] = "dead"
<1>1. TypeOK /\ [Next]_vars => [Justified]_vars
  <2> SUFFICES ASSUME TypeOK, Next, TakenOver
               PROVE  row.left <= 0 \/ (row.owner \in Cli /\ phase[row.owner] = "dead")
    OBVIOUS
  <2>1. CASE Tick
    BY <2>1 DEF Tick, TakenOver, TypeOK
  <2>2. ASSUME NEW s \in Session, Acquire(s)
        PROVE  row.left <= 0 \/ (row.owner \in Cli /\ phase[row.owner] = "dead")
    <3>1. PICK answer \in ProbeAnswers(row.owner) : Obtainable(s, answer)
      BY <2>2 DEF Acquire
    <3>2. row.owner # NoOwner /\ row.owner # s
      BY <2>2 DEF Acquire, TakenOver
    <3>3. CASE ExpiredFor(s)
      BY <3>3, TimesAreSane, ConstantFacts DEF ExpiredFor, TypeOK
    <3>4. CASE answer = "gone"
      BY <3>1, <3>4 DEF ProbeAnswers
    <3> QED
      BY <3>1, <3>2, <3>3, <3>4 DEF Obtainable
  <2>3. ASSUME NEW s \in Session, ReadClock(s) \/ Busy(s) \/ GiveUp(s) \/ Crash(s) \/ Replace(s)
        PROVE  FALSE
    BY <2>3 DEF ReadClock, Busy, GiveUp, Crash, Replace, TakenOver
  <2>4. ASSUME NEW s \in Session, Leave(s) PROVE FALSE
    BY <2>4 DEF Leave, AfterRelease, Free, TakenOver
  <2> QED
    BY <2>1, <2>2, <2>3, <2>4 DEF Next, Step
<1> QED
  BY <1>1, TypeCorrect, PTL DEF Spec, TakeoverJustified

----------------------------------------------------------------------------

Entitled == {s \in Session : InTerm(s)}

(* Every step of the lease is a step of the single term it promises, or    *)
(* changes nothing there.                                                  *)
THEOREM Refinement == Spec => ImplementsSingleTerm
<1>1. Init => Term!Init
  BY DEF Init, Term!Init, InTerm
<1>2. TypeOK /\ RowIsTerm /\ [Next]_vars => [Term!Next]_Entitled
  <2> SUFFICES ASSUME TypeOK, RowIsTerm, [Next]_vars
               PROVE  Term!Next \/ Entitled' = Entitled
    BY DEF Entitled
  <2>1. \A s \in Entitled : Entitled = {s}
    BY DEF Entitled, RowIsTerm
  <2>2. ASSUME NEW s \in Session, Acquire(s) PROVE Term!Next
    <3>1. Entitled = {}
      BY <2>2, ObtainedFromNobody DEF Entitled
    <3>2. TermGranted(s) > 0
      BY TimesAreSane DEF TermGranted, TypeOK
    <3>3. Entitled' = {s}
      BY <2>2, <3>1, <3>2 DEF Entitled, Acquire, InTerm, TypeOK
    <3> QED
      BY <3>1, <3>3 DEF Term!Next, Term!Begin, Entitled
  <2>3. ASSUME ~(\E s \in Session : Acquire(s)) PROVE Entitled' \subseteq Entitled
    <3>1. CASE Tick
      BY <3>1, ConstantFacts DEF Tick, Entitled, InTerm, TypeOK
    <3>2. ASSUME NEW s \in Session,
                 ReadClock(s) \/ Busy(s) \/ GiveUp(s) \/ Leave(s) \/ Crash(s) \/ Replace(s)
          PROVE  Entitled' \subseteq Entitled
      BY <3>2 DEF ReadClock, Busy, GiveUp, Leave, Crash, Replace, Entitled, InTerm, TypeOK
    <3>3. CASE UNCHANGED vars
      BY <3>3 DEF Entitled, InTerm, vars
    <3> QED
      BY <2>3, <3>1, <3>2, <3>3 DEF Next, Step
  <2>4. ASSUME Entitled' \subseteq Entitled PROVE Term!Next \/ Entitled' = Entitled
    <3>1. CASE Entitled = {}
      BY <2>4, <3>1
    <3>2. ASSUME NEW s \in Entitled PROVE Term!Next \/ Entitled' = Entitled
      <4>1. Entitled = {s} /\ s \in Session
        BY <2>1 DEF Entitled
      <4>2. Entitled' = {s} \/ Entitled' = {}
        BY <2>4, <4>1
      <4> QED
        BY <4>1, <4>2 DEF Term!Next, Term!End, Entitled
    <3> QED
      BY <3>1, <3>2
  <2> QED
    BY <2>2, <2>3, <2>4
<1> QED
  BY <1>1, <1>2, TypeCorrect, RowIsTermAlways, PTL
     DEF Spec, ImplementsSingleTerm, Term!Spec, Entitled
=============================================================================
