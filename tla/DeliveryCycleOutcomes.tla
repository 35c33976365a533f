----------------------- MODULE DeliveryCycleOutcomes -----------------------
(* What follows a merge, a review and an opened pull request, proved about *)
(* DeliveryCycle.  With no crash and no failing call, the verification of  *)
(* a merge that the newest events still show is outstanding only where a   *)
(* pass is still finishing the merge or where the store says that it is    *)
(* awaited; a review that waits is not repeated on the same evidence; and  *)
(* a delivery that the log knows of is gone on with before anything else   *)
(* is planned.                                                             *)
EXTENDS DeliveryCycleProofs

(* A merge without a verdict, which the newest events still show.          *)
Pending(p) == merges[p] > 0 /\ verdict[p] = "none" /\ ~Forgotten(p)

(* The pass that merged it has still to say so.                            *)
Finishing(p) == /\ pass.pr = p /\ pass.ctx = "bare"
                /\ \E i \in 3 .. 8 : todo = MergeTail(i) /\ state = MergeState[i]

(* The events that end a look at the runs of the default branch.           *)
Conclusion(to, kind) ==
  \/ to = "POST_MERGE_VERIFICATION" /\ kind = "POST_MERGE_WAITING"
  \/ to = "READY" /\ kind = "POST_MERGE_VERIFIED"
  \/ to = "DEGRADED" /\ kind = "POST_MERGE_FAILED"

(* The log says that it was merged; a pass looks at its runs, or none does *)
(* anything.  DEGRADED hides the state after an undelivered notification.  *)
Looking(to, kind) ==
  /\ Conclusion(to, kind)
  /\ \/ /\ todo = Emit(to, kind, TRUE)
        /\ state \in {"POST_MERGE_VERIFICATION", "DEGRADED"}
     \/ /\ todo = <<Do("event", to, kind, TRUE), Call("notify")>>
        /\ state = to
Idle == todo = <<>> /\ state \in {"POST_MERGE_VERIFICATION", "DEGRADED"}
Telling == todo = <<Call("notify")>> /\ state = "POST_MERGE_VERIFICATION"
Awaiting(p) == /\ log.of = p
               /\ last.st = "POST_MERGE_VERIFICATION"
               /\ \/ Idle
                  \/ Telling /\ pass.ctx = "bare"
                  \/ (\E to \in RunStates, kind \in Kinds : Looking(to, kind)) /\ pass.ctx = "bare"

FollowedUp == NoMishap => \A p \in PR : Pending(p) => Finishing(p) \/ Awaiting(p)

OutcomeInv == SafeInv /\ FollowedUp

(* _emit, step by step.                                                    *)
LEMMA EmitParts ==
  ASSUME NEW to, NEW kind, NEW keyed
  PROVE  /\ Emit(to, kind, keyed) # <<>> /\ Emit(to, kind, keyed)[1] = Move(to)
         /\ Tail(Emit(to, kind, keyed)) = <<Do("event", to, kind, keyed), Call("notify")>>
         /\ <<Do("event", to, kind, keyed), Call("notify")>> # <<>>
         /\ <<Do("event", to, kind, keyed), Call("notify")>>[1] = Do("event", to, kind, keyed)
         /\ Tail(<<Do("event", to, kind, keyed), Call("notify")>>) = <<Call("notify")>>
         /\ <<Call("notify")>> # <<>> /\ <<Call("notify")>>[1] = Call("notify")
         /\ Tail(<<Call("notify")>>) = <<>>
BY DEF Emit

(* The last step of the merge script.                                      *)
LEMMA MergeTailNine == MergeTail(9) = <<Call("notify")>>
<1>1. MergeTail(9) \in Seq(Steps) /\ MergeTail(9)[1] = Call("notify") /\ MergeTail(9) # <<>>
      /\ Tail(MergeTail(9)) = <<>>
  <2>1. 9 \in 1 .. 9 /\ 9 + 1 = 10
    OBVIOUS
  <2> QED
    BY <2>1, MergeTails, MergeScriptIsTail, MergeStepsAre
<1>2. Len(MergeTail(9)) = 1
  <2>1. ASSUME NEW s \in Seq(Steps), s # <<>>, Tail(s) = <<>> PROVE Len(s) = 1
    <3>1. Len(Tail(s)) = Len(s) - 1
      BY <2>1, HeadTailProperties
    <3>2. Len(<<>>) = 0 /\ Len(s) \in Nat
      OBVIOUS
    <3>3. 0 = Len(s) - 1
      BY <2>1, <3>1, <3>2, Zenon
    <3> QED
      BY <3>2, <3>3
  <2> QED
    BY <1>1, <2>1
<1>3. <<Call("notify")>> \in Seq(Steps) /\ Len(<<Call("notify")>>) = 1
      /\ <<Call("notify")>>[1] = Call("notify")
  BY StepTypes DEF Plain
<1> QED
  BY <1>1, <1>2, <1>3, SeqEqual

(* What the pass is about to do while a verification is outstanding.       *)
LEMMA PendingStep ==
  ASSUME OutcomeInv, NoMishap, NEW p \in PR, Pending(p), todo # <<>>
  PROVE  /\ todo[1].do \in {"sha", "clear", "move", "event", "notify"}
         /\ pass # NoPass /\ pass.ctx = "bare"
<1>1. CASE Finishing(p)
  <2>1. PICK i \in 3 .. 8 : todo = MergeTail(i)
    BY <1>1 DEF Finishing
  <2>2. todo[1] = MergeSteps[i]
    <3>1. i \in 1 .. 9
      OBVIOUS
    <3> QED
      BY <2>1, <3>1, MergeTails
  <2>3. /\ MergeSteps[3].do = "sha" /\ MergeSteps[4].do = "clear" /\ MergeSteps[5].do = "move"
        /\ MergeSteps[6].do = "move" /\ MergeSteps[7].do = "move" /\ MergeSteps[8].do = "event"
    BY DEF MergeSteps, Move, Call, Do
  <2> QED
    BY <1>1, <2>1, <2>2, <2>3 DEF Finishing, NoPass
<1>2. CASE Awaiting(p)
  <2>1. CASE Telling /\ pass.ctx = "bare"
    BY <2>1, EmitParts, StepDo DEF Telling, NoPass
  <2>2. ASSUME NEW to \in RunStates, NEW kind \in Kinds, Looking(to, kind), pass.ctx = "bare"
        PROVE  todo[1].do \in {"move", "event"} /\ pass # NoPass
    <3>1. Move(to).do = "move" /\ Do("event", to, kind, TRUE).do = "event"
      BY DEF Move, Do
    <3>2. todo[1] \in {Move(to), Do("event", to, kind, TRUE)}
      BY <2>2, EmitParts DEF Looking
    <3>3. pass # NoPass
      BY <2>2 DEF NoPass
    <3> QED
      BY <2>2, <3>1, <3>2, <3>3
  <2> QED
    BY <1>2, <2>1, <2>2 DEF Awaiting, Idle
<1> QED
  BY <1>1, <1>2 DEF OutcomeInv, FollowedUp

(* What the steps after the merge do.                                      *)
LEMMA MergeDos ==
  /\ MergeSteps[3].do = "sha" /\ MergeSteps[4].do = "clear" /\ MergeSteps[5].do = "move"
  /\ MergeSteps[6].do = "move" /\ MergeSteps[7].do = "move" /\ MergeSteps[8].do = "event"
  /\ MergeSteps[5].arg = "COMPLETION_READY" /\ MergeSteps[6].arg = "MERGED"
  /\ MergeSteps[7].arg = "POST_MERGE_VERIFICATION"
  /\ MergeSteps[8].arg = "POST_MERGE_VERIFICATION" /\ MergeSteps[8].kind = "PR_MERGED"
BY DEF MergeSteps, Move, Call, Do

(* A merge that is being finished is at one of the steps 3 to 8.           *)
LEMMA FinishingStep ==
  ASSUME NEW p, Finishing(p)
  PROVE  \E i \in 3 .. 8 : /\ todo = MergeTail(i) /\ state = MergeState[i]
                           /\ todo # <<>> /\ todo[1] = MergeSteps[i]
                           /\ Tail(todo) = MergeTail(i + 1) /\ Tail(todo) # <<>>
<1>1. PICK i \in 3 .. 8 : todo = MergeTail(i) /\ state = MergeState[i]
  BY DEF Finishing
<1>2. i \in 1 .. 9 /\ i + 1 \in 1 .. 9
  OBVIOUS
<1>3. /\ todo # <<>> /\ todo[1] = MergeSteps[i] /\ Tail(todo) = MergeTail(i + 1)
      /\ MergeTail(i + 1) # <<>>
  BY <1>1, <1>2, MergeTails
<1> QED
  BY <1>1, <1>3

(* What follows a merge that was not verified yet: a transition goes on    *)
(* with the script,                                                        *)
LEMMA MoveFollows ==
  ASSUME OutcomeInv, NoMishap, NEW p \in PR, Pending(p), DoMove
  PROVE  Finishing(p)' \/ Awaiting(p)'
<1>1. /\ todo # <<>> /\ todo[1].do = "move" /\ state' = todo[1].arg
      /\ UNCHANGED <<last, log>>
      /\ todo' = Tail(todo) /\ (Tail(todo) # <<>> => pass' = pass)
  BY DEF DoMove, Doing, Done, Then
<1>2. pass.ctx = "bare"
  BY <1>1, PendingStep
<1>3. CASE Finishing(p)
  <2>1. PICK i \in 3 .. 8 : /\ todo[1] = MergeSteps[i] /\ Tail(todo) = MergeTail(i + 1)
                            /\ Tail(todo) # <<>>
    BY <1>3, FinishingStep
  <2>2. i \in {5, 6, 7}
    BY <1>1, <2>1, MergeDos
  <2>3. state' = MergeState[i + 1]
    BY <1>1, <2>1, <2>2, MergeDos, MergeStatesAre
  <2>4. i + 1 \in 3 .. 8 /\ todo' = MergeTail(i + 1) /\ pass' = pass
    BY <1>1, <2>1, <2>2
  <2>5. Finishing(p)'
    BY <1>3, <2>3, <2>4 DEF Finishing
  <2> QED
    BY <2>5
<1>4. CASE Awaiting(p)
  <2>1. ~Telling
    BY <1>1, EmitParts, StepDo DEF Telling
  <2>2. PICK to \in RunStates, kind \in Kinds : Looking(to, kind)
    BY <1>1, <1>4, <2>1 DEF Awaiting, Idle
  <2>3. Move(to).arg = to
    BY DEF Do, Move
  <2>4. todo = Emit(to, kind, TRUE)
    <3>1. Do("event", to, kind, TRUE).do = "event"
      BY DEF Do
    <3>2. <<Do("event", to, kind, TRUE), Call("notify")>>[1].do # "move"
      BY <3>1, EmitParts
    <3> QED
      BY <1>1, <2>2, <3>2 DEF Looking
  <2>5. todo' = <<Do("event", to, kind, TRUE), Call("notify")>> /\ state' = to /\ pass' = pass
    <3>1. /\ todo[1] = Move(to) /\ Tail(todo) # <<>>
          /\ Tail(todo) = <<Do("event", to, kind, TRUE), Call("notify")>>
      BY <2>4, EmitParts, Zenon
    <3> QED
      BY <1>1, <2>3, <3>1, Zenon
  <2>6. Looking(to, kind)'
    BY <2>2, <2>5 DEF Looking
  <2>7. Awaiting(p)'
    BY <1>1, <1>2, <1>4, <2>5, <2>6 DEF Awaiting
  <2> QED
    BY <2>7
<1> QED
  BY <1>3, <1>4 DEF OutcomeInv, FollowedUp

(* a refused one leaves its event to be verified,                          *)
LEMMA RefusalFollows ==
  ASSUME OutcomeInv, NoMishap, NEW p \in PR, Pending(p), MoveRefused
  PROVE  Awaiting(p)'
<1>1. /\ todo # <<>> /\ todo[1].do = "move" /\ ~CanMove(todo[1].arg) /\ Raise
      /\ UNCHANGED store
  BY DEF MoveRefused, Doing
<1>2. pass.ctx = "bare"
  BY <1>1, PendingStep
<1>3. ~Finishing(p)
  <2>1. SUFFICES ASSUME Finishing(p) PROVE FALSE
    OBVIOUS
  <2>2. PICK i \in 3 .. 8 : todo[1] = MergeSteps[i] /\ state = MergeState[i]
    BY <2>1, FinishingStep
  <2>3. i \in {5, 6, 7}
    BY <1>1, <2>2, MergeDos
  <2>4. /\ "COMPLETION_READY" \in Allowed["REVIEWING"]
        /\ "MERGED" \in Allowed["COMPLETION_READY"]
        /\ "POST_MERGE_VERIFICATION" \in Allowed["MERGED"]
    BY DEF Allowed
  <2>5. todo[1].arg \in Allowed[state]
    BY <2>2, <2>3, <2>4, MergeDos, MergeStatesAre
  <2> QED
    BY <1>1, <2>5 DEF CanMove
<1>4. Awaiting(p)
  BY <1>3 DEF OutcomeInv, FollowedUp
<1>5. ~Telling
  BY <1>1, EmitParts, StepDo DEF Telling
<1>6. PICK to \in RunStates, kind \in Kinds : Looking(to, kind)
  BY <1>1, <1>4, <1>5 DEF Awaiting, Idle
<1>7. Do("event", to, kind, TRUE).do = "event"
  BY DEF Do
<1>8. todo = Emit(to, kind, TRUE)
  BY <1>1, <1>6, <1>7, EmitParts DEF Looking
<1>9. state \in {"POST_MERGE_VERIFICATION", "DEGRADED"}
  <2>1. <<Do("event", to, kind, TRUE), Call("notify")>>[1].do # "move"
    BY <1>7, EmitParts
  <2> QED
    BY <1>1, <1>6, <2>1 DEF Looking
<1>10. todo' = <<>>
  BY <1>1, <1>2 DEF Raise, AfterRaise, Then
<1> QED
  BY <1>1, <1>4, <1>9, <1>10 DEF Awaiting, Idle, store

(* the event PR_MERGED makes it the next to verify,                        *)
LEMMA EventFollows ==
  ASSUME OutcomeInv, NoMishap, NEW p \in PR, Pending(p), RecordEvent, verdict'[p] = "none"
  PROVE  Finishing(p)' \/ Awaiting(p)'
<1>1. /\ todo # <<>> /\ todo[1].do = "event" /\ last'.st = todo[1].arg
      /\ log'.of = IF todo[1].kind = "PR_MERGED" THEN pass.pr ELSE log.of
      /\ state' = state
      /\ todo' = Tail(todo) /\ (Tail(todo) # <<>> => pass' = pass)
  BY DEF RecordEvent, Doing, Done, Then, Logged
<1>2. pass.ctx = "bare"
  BY <1>1, PendingStep
<1>3. CASE Finishing(p)
  <2>1. PICK i \in 3 .. 8 : /\ todo[1] = MergeSteps[i] /\ Tail(todo) = MergeTail(i + 1)
                            /\ Tail(todo) # <<>> /\ state = MergeState[i]
    BY <1>3, FinishingStep
  <2>2. i = 8
    BY <1>1, <2>1, MergeDos
  <2>3. todo' = <<Call("notify")>> /\ pass' = pass
    <3>1. i + 1 = 9
      BY <2>2
    <3> QED
      BY <1>1, <2>1, <3>1, MergeTailNine, Zenon
  <2>4. last'.st = "POST_MERGE_VERIFICATION" /\ log'.of = p
    BY <1>1, <1>3, <2>1, <2>2, MergeDos DEF Finishing
  <2>5. state' = "POST_MERGE_VERIFICATION"
    BY <1>1, <2>1, <2>2, MergeStatesAre
  <2>6. Awaiting(p)'
    BY <1>2, <2>3, <2>4, <2>5 DEF Awaiting, Telling
  <2> QED
    BY <2>6
<1>4. CASE Awaiting(p)
  <2>1. ~Telling
    BY <1>1, EmitParts, StepDo DEF Telling
  <2>2. PICK to \in RunStates, kind \in Kinds : Looking(to, kind)
    BY <1>1, <1>4, <2>1 DEF Awaiting, Idle
  <2>3. /\ Move(to).do = "move" /\ Do("event", to, kind, TRUE).arg = to
        /\ Do("event", to, kind, TRUE).kind = kind
    BY DEF Do, Move
  <2>4. todo = <<Do("event", to, kind, TRUE), Call("notify")>> /\ state = to
    <3>1. todo[1] # Move(to)
      BY <1>1, <2>3
    <3> QED
      BY <2>2, <3>1, EmitParts DEF Looking
  <2>5. todo[1].arg = to /\ todo[1].kind = kind
    <3>1. todo[1] = Do("event", to, kind, TRUE)
      BY <2>4, EmitParts, Zenon
    <3> QED
      BY <2>3, <3>1, Zenon
  <2>6. kind \notin {"POST_MERGE_VERIFIED", "POST_MERGE_FAILED"}
    <3>1. SUFFICES ASSUME kind \in {"POST_MERGE_VERIFIED", "POST_MERGE_FAILED"} PROVE FALSE
      OBVIOUS
    <3>2. Outcome(kind) \in {"verified", "failed"}
      BY <3>1 DEF Outcome
    <3>3. verdict' = [verdict EXCEPT ![p] = Outcome(kind)]
      BY <1>4, <2>5, <3>2 DEF RecordEvent, Awaiting
    <3>4. verdict'[p] = Outcome(kind)
      BY <3>3 DEF OutcomeInv, SafeInv, TypeOK
    <3> QED
      BY <3>2, <3>4
  <2>7. to = "POST_MERGE_VERIFICATION" /\ kind = "POST_MERGE_WAITING"
    BY <2>2, <2>6 DEF Looking, Conclusion
  <2>8. todo' = <<Call("notify")>> /\ pass' = pass
    <3>1. Tail(todo) = <<Call("notify")>> /\ Tail(todo) # <<>>
      BY <2>4, EmitParts, Zenon
    <3> QED
      BY <1>1, <3>1, Zenon
  <2>9. log'.of = p /\ last'.st = "POST_MERGE_VERIFICATION" /\ state' = "POST_MERGE_VERIFICATION"
    BY <1>1, <1>4, <2>4, <2>5, <2>7 DEF Awaiting
  <2>10. Awaiting(p)'
    BY <1>2, <2>8, <2>9 DEF Awaiting, Telling
  <2> QED
    BY <2>10
<1> QED
  BY <1>3, <1>4 DEF OutcomeInv, FollowedUp

(* a notification, sent or lost, changes nothing about it,                 *)
LEMMA NotificationFollows ==
  ASSUME OutcomeInv, NoMishap, NEW p \in PR, Pending(p), Sent \/ Unsent
  PROVE  Awaiting(p)'
<1>1. /\ todo # <<>> /\ todo[1].do = "notify" /\ last' = last /\ log'.of = log.of
  BY LoggedTypes DEF Sent, Unsent, Doing, store, OutcomeInv, SafeInv
<1>2. ~Finishing(p)
  <2>1. SUFFICES ASSUME Finishing(p) PROVE FALSE
    OBVIOUS
  <2>2. PICK i \in 3 .. 8 : todo[1] = MergeSteps[i]
    BY <2>1, FinishingStep
  <2> QED
    BY <1>1, <2>2, MergeDos
<1>3. Awaiting(p)
  BY <1>2 DEF OutcomeInv, FollowedUp
<1>4. Telling /\ pass.ctx = "bare"
  <2>1. ASSUME NEW to \in RunStates, NEW kind \in Kinds, Looking(to, kind) PROVE FALSE
    <3>1. Move(to).do = "move" /\ Do("event", to, kind, TRUE).do = "event"
      BY DEF Do, Move
    <3>2. todo[1] \in {Move(to), Do("event", to, kind, TRUE)}
      BY <2>1, EmitParts DEF Looking
    <3> QED
      BY <1>1, <3>1, <3>2
  <2> QED
    BY <1>1, <1>3, <2>1 DEF Awaiting, Idle
<1>5. todo' = <<>> /\ state' \in {state, "DEGRADED"}
  <2>1. Tail(todo) = <<>>
    BY <1>4, EmitParts DEF Telling
  <2>2. CASE Sent
    BY <2>1, <2>2 DEF Sent, Done, Then, store
  <2>3. CASE Unsent
    BY <1>4, <2>3 DEF Unsent, Raise, AfterRaise, Then
  <2> QED
    BY <2>2, <2>3
<1> QED
  BY <1>1, <1>3, <1>4, <1>5 DEF Awaiting, Idle, Telling

(* the writes between the merge and its event go on with the script,       *)
LEMMA FinishFollows ==
  ASSUME OutcomeInv, NoMishap, NEW p \in PR, Pending(p),
         WriteActive \/ ReadMainHead
  PROVE  Finishing(p)'
<1>1. /\ todo # <<>> /\ todo[1].do \in {"save", "mark", "clear", "sha"} /\ state' = state
      /\ todo' = Tail(todo)
      /\ Tail(todo) # <<>> => pass'.pr = pass.pr /\ pass'.ctx = pass.ctx
  <2>1. pass \in Passes
    BY PassTypes DEF OutcomeInv, SafeInv
  <2>2. /\ [pass EXCEPT !.sha = Len(main)].pr = pass.pr
        /\ [pass EXCEPT !.sha = Len(main)].ctx = pass.ctx
    BY <2>1 DEF Passes
  <2> QED
    BY <2>2 DEF WriteActive, ReadMainHead, Doing, Done, Then, store
<1>2. ~Awaiting(p)
  <2>1. ~Telling
    BY <1>1, EmitParts, StepDo DEF Telling
  <2>2. ASSUME NEW to \in RunStates, NEW kind \in Kinds, Looking(to, kind) PROVE FALSE
    <3>1. Move(to).do = "move" /\ Do("event", to, kind, TRUE).do = "event"
      BY DEF Do, Move
    <3>2. todo[1] \in {Move(to), Do("event", to, kind, TRUE)}
      BY <2>2, EmitParts DEF Looking
    <3> QED
      BY <1>1, <3>1, <3>2
  <2> QED
    BY <1>1, <2>1, <2>2 DEF Awaiting, Idle
<1>3. Finishing(p)
  BY <1>2 DEF OutcomeInv, FollowedUp
<1>4. PICK i \in 3 .. 8 : /\ todo[1] = MergeSteps[i] /\ Tail(todo) = MergeTail(i + 1)
                          /\ Tail(todo) # <<>> /\ state = MergeState[i]
  BY <1>3, FinishingStep
<1>5. i \in {3, 4}
  BY <1>1, <1>4, MergeDos
<1>6. MergeState[i + 1] = MergeState[i]
  BY <1>5, MergeStatesAre
<1>7. /\ i + 1 \in 3 .. 8 /\ todo' = MergeTail(i + 1) /\ state' = MergeState[i + 1]
      /\ pass'.pr = pass.pr /\ pass'.ctx = pass.ctx
  BY <1>1, <1>4, <1>5, <1>6
<1> QED
  BY <1>3, <1>7 DEF Finishing

(* a pass that begins leaves it to be verified,                            *)
LEMMA BeginFollows ==
  ASSUME OutcomeInv, NoMishap, NEW p \in PR, Pending(p), Cycle \/ Watch
  PROVE  Awaiting(p)'
<1>1. pass = NoPass /\ UNCHANGED <<store, github>>
  BY DEF Cycle, Watch, Begin
<1>2. todo = <<>>
  BY <1>1, PendingStep
<1>3. Awaiting(p) /\ Idle
  <2>1. ~Finishing(p)
    BY <1>2, FinishingStep
  <2>2. ~Telling
    BY <1>2, EmitParts DEF Telling
  <2>3. \A to \in RunStates, kind \in Kinds : ~Looking(to, kind)
    BY <1>2, EmitParts DEF Looking
  <2> QED
    BY <2>1, <2>2, <2>3 DEF OutcomeInv, FollowedUp, Awaiting
<1>4. Effective = "POST_MERGE_VERIFICATION"
  BY <1>3 DEF Effective, Idle, Awaiting
<1>5. PICK s \in CycleScripts \cup WatchScripts :
        /\ s # <<>> /\ todo' = s
        /\ pass' = [ctx |-> IF s[1] = Move("EXECUTING") THEN "execute" ELSE "bare",
                    pr |-> active.pr, head |-> 0, sha |-> 0, same |-> TRUE,
                    still |-> TRUE, retry |-> FALSE]
  BY DEF Cycle, Watch, Begin
<1>6. s = VerifyScript
  BY <1>3, <1>4, <1>5 DEF CycleScripts, WatchScripts, Idle, InDelivery
<1>7. PICK to \in RunStates, kind \in Kinds : /\ s = Emit(to, kind, TRUE) /\ Conclusion(to, kind)
                                              /\ to # "EXECUTING"
  <2>1. MergeSeen
    <3>1. log.of = p /\ log.of # 0
      BY <1>3 DEF Awaiting, PR
    <3>2. log.newer[p] \in 0 .. EventWindow /\ log.newer[p] # EventWindow
      BY DEF OutcomeInv, SafeInv, TypeOK, Events, Pending, Forgotten
    <3> QED
      BY <3>1, <3>2, BoundsAreSane DEF MergeSeen
  <2>2. \/ s = Emit("DEGRADED", "POST_MERGE_FAILED", TRUE)
        \/ s = Emit("READY", "POST_MERGE_VERIFIED", TRUE)
        \/ s = Emit("POST_MERGE_VERIFICATION", "POST_MERGE_WAITING", TRUE)
    BY <1>5, <1>6, <2>1 DEF VerifyScript
  <2>3. /\ {"DEGRADED", "READY", "POST_MERGE_VERIFICATION"} \subseteq RunStates
        /\ {"POST_MERGE_FAILED", "POST_MERGE_VERIFIED", "POST_MERGE_WAITING"} \subseteq Kinds
    BY DEF RunStates, Kinds
  <2> QED
    BY <2>2, <2>3 DEF Conclusion
<1>8. pass'.ctx = "bare"
  <2>1. Move(to).arg = to /\ Move("EXECUTING").arg = "EXECUTING"
    BY DEF Move, Do
  <2>2. s[1] = Move(to)
    BY <1>7, EmitParts, Zenon
  <2>3. s[1] # Move("EXECUTING")
    BY <1>7, <2>1, <2>2
  <2> QED
    BY <1>5, <2>3
<1>9. Looking(to, kind)'
  BY <1>1, <1>3, <1>5, <1>7 DEF Looking, Idle, store
<1> QED
  BY <1>1, <1>3, <1>8, <1>9 DEF Awaiting, store

(* and a step that leaves state, script and event alone leaves it pending; *)
LEMMA ElsewhereFollows ==
  ASSUME OutcomeInv, NoMishap, NEW p \in PR, Pending(p),
         UNCHANGED <<state, todo, log>>, last'.st = last.st,
         pass'.ctx = pass.ctx, pass'.pr = pass.pr
  PROVE  Finishing(p)' \/ Awaiting(p)'
<1>1. CASE Finishing(p)
  BY <1>1 DEF Finishing
<1>2. CASE Awaiting(p)
  <2>1. /\ Idle' <=> Idle
        /\ Telling' <=> Telling
        /\ \A to \in RunStates, kind \in Kinds : Looking(to, kind)' <=> Looking(to, kind)
    BY DEF Idle, Telling, Looking
  <2> QED
    BY <1>2, <2>1 DEF Awaiting
<1> QED
  BY <1>1, <1>2 DEF OutcomeInv, FollowedUp

(* so do all the others.                                                   *)
LEMMA WorldFollows ==
  ASSUME OutcomeInv, NoMishap, NEW p \in PR, Pending(p), Elsewhere
  PROVE  Finishing(p)' \/ Awaiting(p)'
<1>1. last \in LastEvents /\ pass \in Passes
  BY PassTypes DEF OutcomeInv, SafeInv
<1>2. last'.st = last.st /\ pass'.ctx = pass.ctx /\ pass'.pr = pass.pr
  BY <1>1 DEF Elsewhere, Stale, LastEvents, Passes
<1> QED
  BY <1>2, ElsewhereFollows DEF Elsewhere

(* The merge call itself: no other verification can be outstanding.        *)
LEMMA MergeFollows ==
  ASSUME OutcomeInv, NoMishap, NEW p \in PR, Pending(p)', Merge
  PROVE  Finishing(p)'
<1>1. todo # <<>> /\ todo[1].do = "merge" /\ verdict' = verdict /\ log' = log
      /\ merges' = [merges EXCEPT ![pass.pr] = @ + 1] /\ state' = state
  BY DEF Merge, Doing
<1>2. p = pass.pr
  <2>1. SUFFICES ASSUME p # pass.pr PROVE FALSE
    OBVIOUS
  <2>2. merges'[p] = merges[p]
    BY <1>1, <2>1 DEF OutcomeInv, SafeInv, TypeOK
  <2>3. Pending(p)
    BY <1>1, <2>2 DEF Pending, Forgotten
  <2> QED
    BY <1>1, <2>3, PendingStep
<1>3. PICK i \in 1 .. 9 : todo = MergeTail(i) /\ state = MergeState[i] /\ pass.ctx = "bare"
  BY <1>1, NextStep DEF Merging, OutcomeInv, SafeInv
<1>4. todo[1] = MergeSteps[i] /\ Tail(todo) = MergeTail(i + 1)
  BY <1>3, MergeTails
<1>5. i = 2
  <2>1. /\ MergeSteps[1].do # "merge" /\ MergeSteps[3].do # "merge" /\ MergeSteps[4].do # "merge"
        /\ MergeSteps[5].do # "merge" /\ MergeSteps[6].do # "merge" /\ MergeSteps[7].do # "merge"
        /\ MergeSteps[8].do # "merge" /\ MergeSteps[9].do # "merge"
    BY DEF MergeSteps, Move, Call, Do
  <2> QED
    BY <1>1, <1>4, <2>1
<1>6. /\ todo' = MergeTail(3) /\ Tail(todo) \in Seq(Steps) /\ MergeTail(3) # <<>>
      /\ todo' # <<>> => pass'.pr = pass.pr /\ pass'.ctx = pass.ctx
  <2>1. Tail(todo) = MergeTail(3)
    BY <1>4, <1>5
  <2>2. MergeTail(3) \in Seq(Steps) /\ MergeTail(3) # <<>>
    <3>1. 3 \in 1 .. 9
      OBVIOUS
    <3> QED
      BY <3>1, MergeTails
  <2>3. Fact(MergeTail(3), pass)
    BY <2>1 DEF Merge
  <2> QED
    BY <2>1, <2>2, <2>3, FactKeeps DEF OutcomeInv, SafeInv
<1>7. MergeState[3] = MergeState[i]
  BY <1>5, MergeStatesAre
<1>8. pass'.pr = p /\ pass'.ctx = "bare" /\ todo' = MergeTail(3) /\ state' = MergeState[3]
  BY <1>1, <1>2, <1>3, <1>6, <1>7
<1> QED
  BY <1>8 DEF Finishing

(* Mishaps are not forgotten.                                              *)
LEMMA MishapsStay ==
  ASSUME TypeOK, [Next]_vars, NoMishap'
  PROVE  NoMishap /\ ~CallFails /\ ~Crash
<1>1. trouble["mishaps"] \in Nat /\ trouble \in [{"others", "mishaps", "unsent"} -> 0 .. MaxTrouble]
  BY DEF TypeOK
<1>2. ~Disturb("mishaps")
  BY <1>1 DEF Disturb, NoMishap
<1>3. Disturb("others") \/ Disturb("unsent") \/ trouble' = trouble => trouble.mishaps = trouble'.mishaps
  BY <1>1 DEF Disturb
<1>4. ~CallFails /\ ~Crash
  BY <1>2 DEF CallFails, Crash
<1>5. CASE UNCHANGED vars
  BY <1>4, <1>5 DEF vars, NoMishap
<1>6. CASE Next
  <2>1. Disturb("others") \/ Disturb("unsent") \/ trouble' = trouble
    <3>1. CASE Cycle \/ Watch
      BY <3>1 DEF Cycle, Watch, Begin
    <3>2. CASE \/ OtherNews \/ OutsiderLands \/ \E p \in PR : World(p)
               \/ \E c \in Commit : MainReports(c)
      BY <3>2 DEF OtherNews, OutsiderLands, World, ChecksReport, HoldChanges, OutsiderPushes,
                  OwnerMerges, MainReports
    <3>3. CASE PassStep
      BY <1>4, <3>3
         DEF PassStep, DoMove, MoveRefused, RecordEvent, Sent, Unsent, WriteActive, CreatePR, Push,
             PushRejected, MarkReady, Comment, Merge, ReadPR, ReadMainHead, PlanEnds, PlanRepeats,
             PlanSelects, IssueChanges, CoderAnswers, RepairAnswers, ReviewAnswers, FinalAnswers,
             AskFails, Unmoved
    <3> QED
      BY <1>4, <1>6, <3>1, <3>2, <3>3 DEF Next
  <2> QED
    BY <1>3, <1>4, <2>1 DEF NoMishap
<1> QED
  BY <1>5, <1>6

(* A merge that the newest events no longer show is not shown again.       *)
LEMMA ForgottenStays ==
  ASSUME SafeInv, NEW p \in PR, Forgotten(p), RecordEvent \/ Unsent
  PROVE  Forgotten(p)'
<1>1. /\ log.newer[p] = EventWindow /\ log.sha[p] # 0
      /\ Older[p] = EventWindow
  <2>1. log.newer[p] = EventWindow /\ EventWindow # 0
    BY BoundsAreSane DEF Forgotten
  <2>2. log.sha[p] # 0
    BY <2>1 DEF SafeInv, MergesFit, MergeFits
  <2> QED
    BY <2>1, <2>2 DEF Older
<1>2. CASE log'.newer = Older
  BY <1>1, <1>2 DEF Forgotten
<1>3. CASE RecordEvent /\ todo[1].kind = "PR_MERGED"
  <2>1. todo # <<>> /\ todo[1] \in Report("PR_MERGED")
    <3>1. todo # <<>> /\ todo[1].do = "event"
      BY <1>3 DEF RecordEvent, Doing
    <3> QED
      BY <1>3, <3>1, TailElements DEF Report, SafeInv, TypeOK
  <2>2. Merging
    BY <2>1, NextStep DEF SafeInv
  <2>3. PICK i \in 1 .. 9 : /\ todo = MergeTail(i)
                            /\ i \in 3 .. 8 => MergeOnMain /\ pass.pr \in PR
    BY <2>2 DEF Merging
  <2>4. i = 8
    <3>1. todo[1] = MergeSteps[i] /\ todo[1].do = "event"
      BY <2>1, <2>3, MergeTails DEF Report
    <3>2. /\ MergeSteps[1].do # "event" /\ MergeSteps[2].do # "event"
          /\ MergeSteps[9].do # "event"
      BY DEF MergeSteps, Move, Call, Do
    <3> QED
      BY <3>1, <3>2, MergeDos
  <2>5. p # pass.pr
    BY <1>1, <2>3, <2>4 DEF MergeOnMain
  <2>6. log'.newer = [Older EXCEPT ![pass.pr] = 0]
    BY <1>3 DEF RecordEvent, Logged
  <2>7. log'.newer[p] = Older[p]
    BY <2>5, <2>6 DEF Older
  <2> QED
    BY <1>1, <2>7 DEF Forgotten
<1> QED
  BY <1>2, <1>3, LoggedTypes DEF RecordEvent, Unsent, SafeInv

(* Every step keeps FollowedUp.                                            *)
LEMMA StepFollows ==
  ASSUME OutcomeInv, [Next]_vars
  PROVE  FollowedUp'
<1>1. SUFFICES ASSUME NoMishap', NEW p \in PR, Pending(p)' PROVE Finishing(p)' \/ Awaiting(p)'
  BY DEF FollowedUp, Pending, Finishing, Awaiting, Looking, Idle, Telling
<1>2. NoMishap /\ ~CallFails /\ ~Crash
  BY <1>1, MishapsStay DEF OutcomeInv, SafeInv
<1>3. CASE Merge
  BY <1>1, <1>2, <1>3, MergeFollows
<1>4. CASE RecordEvent
  <2>1. merges' = merges /\ verdict'[p] = "none"
    BY <1>1, <1>4 DEF RecordEvent, Pending
  <2>2. verdict[p] = "none"
    BY <1>4, <2>1 DEF RecordEvent, Outcome, OutcomeInv, SafeInv, TypeOK
  <2>3. Pending(p)
    <3>1. ~Forgotten(p)
      BY <1>1, <1>4, ForgottenStays DEF OutcomeInv, Pending, Forgotten
    <3> QED
      BY <1>1, <2>1, <2>2, <3>1 DEF Pending
  <2> QED
    BY <1>2, <1>4, <2>1, <2>3, EventFollows
<1>5. CASE UNCHANGED vars
  <2>1. Pending(p)
    BY <1>1, <1>5 DEF vars, store, history, Pending, Forgotten
  <2> QED
    BY <1>2, <1>5, <2>1, ElsewhereFollows DEF vars, store
<1>6. ASSUME ~Merge, ~RecordEvent, Next PROVE Finishing(p)' \/ Awaiting(p)'
  <2>1. /\ merges' = merges /\ verdict' = verdict
        /\ log' = log \/ Unsent
    BY <1>2, <1>6
       DEF Next, Cycle, Watch, Begin, OtherNews, OutsiderLands, World, ChecksReport, HoldChanges,
           OutsiderPushes, OwnerMerges, MainReports, Elsewhere, PassStep, DoMove, MoveRefused, Sent, Unsent,
           WriteActive, CreatePR, Push, PushRejected, MarkReady, Comment, ReadPR, ReadMainHead,
           PlanEnds, PlanRepeats, PlanSelects, IssueChanges, CoderAnswers, RepairAnswers,
           ReviewAnswers, FinalAnswers, AskFails, Unmoved, store, history
  <2>2. Pending(p)
    <3>1. ~Forgotten(p)
      BY <1>1, <2>1, ForgottenStays DEF OutcomeInv, Pending, Forgotten
    <3> QED
      BY <1>1, <2>1, <3>1 DEF Pending
  <2>3. CASE DoMove
    BY <1>2, <2>2, <2>3, MoveFollows
  <2>4. CASE MoveRefused
    BY <1>2, <2>2, <2>4, RefusalFollows
  <2>5. CASE Sent \/ Unsent
    BY <1>2, <2>2, <2>5, NotificationFollows
  <2>6. CASE WriteActive \/ ReadMainHead
    BY <1>2, <2>2, <2>6, FinishFollows
  <2>7. CASE Cycle \/ Watch
    BY <1>2, <2>2, <2>7, BeginFollows
  <2>8. CASE \/ OtherNews \/ OutsiderLands \/ \E q \in PR : World(q)
             \/ \E c \in Commit : MainReports(c)
    <3>1. Elsewhere
      BY <2>8 DEF OtherNews, OutsiderLands, World, ChecksReport, HoldChanges, OutsiderPushes,
                  OwnerMerges, MainReports
    <3> QED
      BY <1>2, <2>2, <3>1, WorldFollows
  <2>9. CASE \/ CreatePR \/ Push \/ PushRejected \/ MarkReady \/ Comment \/ ReadPR \/ PlanEnds
             \/ PlanRepeats \/ PlanSelects \/ IssueChanges \/ CoderAnswers \/ RepairAnswers
             \/ ReviewAnswers \/ FinalAnswers \/ AskFails
    <3>1. todo # <<>> /\ todo[1].do \in {"create", "push", "ready", "comment", "read", "plan",
                                         "issue", "coder", "repair", "review", "final"}
      BY <2>9 DEF CreatePR, Push, PushRejected, MarkReady, Comment, ReadPR, PlanEnds, PlanRepeats,
                  PlanSelects, IssueChanges, CoderAnswers, RepairAnswers, ReviewAnswers,
                  FinalAnswers, AskFails, Answered, Doing, Asks
    <3> QED
      BY <1>2, <2>2, <3>1, PendingStep
  <2> QED
    BY <1>2, <1>6, <2>3, <2>4, <2>5, <2>6, <2>7, <2>8, <2>9, SMTT(30) DEF Next, PassStep
<1> QED
  BY <1>3, <1>4, <1>5, <1>6

(* Whenever a verification is outstanding, some pass is finishing that     *)
(* merge, or the store says that it is awaited, or so many events have     *)
(* been recorded since that the merge is looked for in vain.               *)
THEOREM MergesAreFollowedUp == Spec => []OutcomeInv
<1>1. Init => OutcomeInv
  <2>1. Init => SafeInv
    BY InitSafe
  <2>2. Init => FollowedUp
    BY DEF Init, FollowedUp, Pending
  <2> QED
    BY <2>1, <2>2 DEF OutcomeInv
<1>2. OutcomeInv /\ [Next]_vars => OutcomeInv'
  BY StepSafe, StepFollows DEF OutcomeInv
<1> QED
  BY <1>1, <1>2, PTL DEF Spec

(* No pull request is opened while the verification of a merge is          *)
(* outstanding, unless the newest events no longer show that merge.        *)
THEOREM VerificationComesFirst == Spec => NoDependentWork
<1>1. ASSUME OutcomeInv, CreatePR, NoMishap
      PROVE  \A p \in PR : merges[p] > 0 => verdict[p] # "none" \/ Forgotten(p)
  <2>1. todo # <<>> /\ todo[1].do = "create"
    BY <1>1 DEF CreatePR, Doing
  <2> QED
    BY <1>1, <2>1, PendingStep DEF Pending
<1>2. OutcomeInv => [CreatePR /\ NoMishap =>
                       \A p \in PR : merges[p] > 0 => verdict[p] # "none" \/ Forgotten(p)]_vars
  BY <1>1
<1> QED
  BY <1>2, MergesAreFollowedUp, PTL DEF NoDependentWork
----------------------------------------------------------------------------
(* The order of the steps in a script: an event follows the transition to  *)
(* its state and comes before the notification, which is the last step.    *)
Tidy(s) ==
  \A i \in 1 .. Len(s) : s[i].do = "event" =>
      /\ i + 1 = Len(s) /\ s[i + 1] = Call("notify")
      /\ i > 1 => s[i - 1] = Move(s[i].arg)

(* A pass without an end has a context, and the event that comes next is   *)
(* about the state the repository is in.                                   *)
ScriptIsTidy ==
  /\ Tidy(todo)
  /\ todo # <<>> => pass.ctx # "none"
  /\ todo # <<>> /\ todo[1].do = "event" => state = todo[1].arg

(* A script that keeps a delivery going: no work is planned or begun, and  *)
(* a transition out of the delivery is the one of an event.                *)
Planning == {"plan", "issue", "coder", "create"}
Lasting == InDelivery \cup {"DEGRADED", "MERGED"}
Steady(s) ==
  \A i \in 1 .. Len(s) :
      /\ s[i].do \notin Planning
      /\ s[i].do = "move" => s[i].arg \in Lasting \/ (i < Len(s) /\ s[i + 1].do = "event")

(* The rest of a tidy script is tidy, that of a steady one steady.         *)
LEMMA RestIsTidy ==
  ASSUME NEW s \in Seq(Steps), s # <<>>, Tidy(s)
  PROVE  /\ Tidy(Tail(s))
         /\ Tail(s) # <<>> /\ Tail(s)[1].do = "event" => s[1] = Move(Tail(s)[1].arg)
         /\ s[1].do = "event" => Tail(s) = <<Call("notify")>>
<1> DEFINE t == Tail(s)
<1>1. /\ t \in Seq(Steps) /\ Len(s) \in Nat /\ Len(t) = Len(s) - 1 /\ Len(s) >= 1
      /\ \A i \in 1 .. Len(t) : t[i] = s[i + 1]
  BY HeadTailProperties
<1>2. Tidy(t)
  <2>1. SUFFICES ASSUME NEW i \in 1 .. Len(t), t[i].do = "event"
                 PROVE  /\ i + 1 = Len(t) /\ t[i + 1] = Call("notify")
                        /\ i > 1 => t[i - 1] = Move(t[i].arg)
    BY DEF Tidy
  <2>2. i + 1 \in 1 .. Len(s) /\ s[i + 1] = t[i]
    BY <1>1
  <2>3. /\ (i + 1) + 1 = Len(s) /\ s[(i + 1) + 1] = Call("notify") /\ s[(i + 1) - 1] = Move(t[i].arg)
    BY <2>1, <2>2 DEF Tidy
  <2>4. i + 1 = Len(t) /\ i + 1 \in 1 .. Len(t)
    <3> HIDE DEF t
    <3>1. i \in Nat /\ (i + 1) + 1 = Len(s)
      BY <1>1, <2>3
    <3> QED BY <1>1, <3>1
  <2>6. t[i + 1] = s[(i + 1) + 1]
    BY <1>1, <2>4
  <2>5. i > 1 => i - 1 \in 1 .. Len(t) /\ t[i - 1] = s[(i + 1) - 1]
    BY <1>1
  <2> QED BY <2>3, <2>4, <2>5, <2>6
<1>3. ASSUME t # <<>>, t[1].do = "event" PROVE s[1] = Move(t[1].arg)
  <2>1. 2 \in 1 .. Len(s) /\ s[2] = t[1]
    BY <1>1, <1>3
  <2> QED BY <1>3, <2>1 DEF Tidy
<1>4. ASSUME s[1].do = "event" PROVE t = <<Call("notify")>>
  <2>0. 1 \in 1 .. Len(s) /\ 1 + 1 = 2
    BY <1>1
  <2>1. 2 = Len(s) /\ s[2] = Call("notify")
    BY <1>4, <2>0 DEF Tidy
  <2>2. Len(t) = 1 /\ t[1] = Call("notify")
    <3> HIDE DEF t
    <3>0. Len(t) = Len(s) - 1 /\ 2 - 1 = 1
      BY <1>1
    <3>1. Len(t) = 1
      BY <2>1, <3>0, Zenon
    <3>2. 1 \in 1 .. Len(t)
      BY <3>1
    <3> QED BY <1>1, <2>0, <2>1, <3>1, <3>2
  <2>3. /\ <<Call("notify")>> \in Seq(Steps) /\ Len(<<Call("notify")>>) = 1
        /\ <<Call("notify")>>[1] = Call("notify")
    BY StepTypes DEF Plain
  <2> HIDE DEF t
  <2> QED BY <1>1, <2>2, <2>3, SeqEqual
<1> QED BY <1>2, <1>3, <1>4

(* The rest of a steady script is steady.                                  *)
LEMMA RestIsSteady ==
  ASSUME NEW s \in Seq(Steps), s # <<>>, Steady(s)
  PROVE  /\ Steady(Tail(s)) /\ s[1].do \notin Planning
         /\ s[1].do = "move" => \/ s[1].arg \in Lasting
                                \/ Tail(s) # <<>> /\ Tail(s)[1].do = "event"
<1> DEFINE t == Tail(s)
<1>1. /\ t \in Seq(Steps) /\ Len(s) \in Nat /\ Len(t) = Len(s) - 1 /\ Len(s) >= 1
      /\ \A i \in 1 .. Len(t) : t[i] = s[i + 1]
  BY HeadTailProperties
<1>2. Steady(t)
  <2>1. SUFFICES ASSUME NEW i \in 1 .. Len(t)
                 PROVE  /\ t[i].do \notin Planning
                        /\ t[i].do = "move" => \/ t[i].arg \in Lasting
                                               \/ i < Len(t) /\ t[i + 1].do = "event"
    BY DEF Steady
  <2>2. i + 1 \in 1 .. Len(s) /\ s[i + 1] = t[i]
    BY <1>1
  <2>3. i < Len(t) => t[i + 1] = s[(i + 1) + 1]
    BY <1>1
  <2>4. i + 1 < Len(s) => i < Len(t)
    BY <1>1
  <2> QED BY <2>2, <2>3, <2>4 DEF Steady
<1>3. 1 \in 1 .. Len(s) /\ (1 < Len(s) => t # <<>> /\ t[1] = s[1 + 1])
  BY <1>1
<1> QED BY <1>2, <1>3 DEF Steady

(* Steps without an event before a script keep its order.                  *)
LEMMA TidyConcat ==
  ASSUME NEW s \in Seq(Steps), \A e \in Elements(s) : e.do # "event",
         NEW t \in Seq(Steps), Tidy(t), t # <<>> => t[1].do # "event"
  PROVE  Tidy(s \o t)
<1>1. /\ s \o t \in Seq(Steps) /\ Len(s \o t) = Len(s) + Len(t)
      /\ Len(s) \in Nat /\ Len(t) \in Nat
      /\ \A i \in 1 .. Len(s) + Len(t) : (s \o t)[i] = IF i <= Len(s) THEN s[i] ELSE t[i - Len(s)]
  BY ConcatProperties
<1>2. SUFFICES ASSUME NEW i \in 1 .. Len(s \o t), (s \o t)[i].do = "event"
               PROVE  /\ i + 1 = Len(s \o t) /\ (s \o t)[i + 1] = Call("notify")
                      /\ i > 1 => (s \o t)[i - 1] = Move((s \o t)[i].arg)
  BY DEF Tidy
<1>3. ~(i <= Len(s))
  <2>1. SUFFICES ASSUME i <= Len(s) PROVE FALSE
    OBVIOUS
  <2>2. i \in 1 .. Len(s) /\ (s \o t)[i] = s[i]
    BY <1>1, <2>1
  <2>3. s[i] \in Elements(s)
    BY <2>2 DEF Elements
  <2> QED BY <1>2, <2>2, <2>3
<1> DEFINE j == i - Len(s)
<1>4. j \in 1 .. Len(t) /\ (s \o t)[i] = t[j]
  BY <1>1, <1>3
<1>5. j # 1
  <2>1. SUFFICES ASSUME j = 1 PROVE FALSE
    OBVIOUS
  <2>2. t # <<>> /\ t[1].do = "event"
    BY <1>2, <1>4, <2>1
  <2> QED BY <2>2
<1>6. j + 1 = Len(t) /\ t[j + 1] = Call("notify") /\ t[j - 1] = Move(t[j].arg)
  BY <1>2, <1>4, <1>5 DEF Tidy
<1>7. /\ i + 1 = Len(s \o t) /\ i + 1 \in 1 .. Len(s) + Len(t) /\ ~(i + 1 <= Len(s))
      /\ (i + 1) - Len(s) = j + 1
  BY <1>1, <1>3, <1>6
<1>8. i - 1 \in 1 .. Len(s) + Len(t) /\ ~(i - 1 <= Len(s)) /\ (i - 1) - Len(s) = j - 1
  BY <1>1, <1>3, <1>4, <1>5
<1>9. (s \o t)[i + 1] = t[j + 1]
  BY <1>1, <1>7
<1>10. (s \o t)[i - 1] = t[j - 1]
  BY <1>1, <1>8
<1> QED BY <1>4, <1>6, <1>7, <1>9, <1>10

(* Steps that plan nothing before a steady script leave it steady.         *)
LEMMA SteadyConcat ==
  ASSUME NEW s \in Seq(Steps),
         \A e \in Elements(s) : e.do \notin Planning /\ (e.do = "move" => e.arg \in Lasting),
         NEW t \in Seq(Steps), Steady(t)
  PROVE  Steady(s \o t)
<1>1. /\ s \o t \in Seq(Steps) /\ Len(s \o t) = Len(s) + Len(t)
      /\ Len(s) \in Nat /\ Len(t) \in Nat
      /\ \A i \in 1 .. Len(s) + Len(t) : (s \o t)[i] = IF i <= Len(s) THEN s[i] ELSE t[i - Len(s)]
  BY ConcatProperties
<1>2. SUFFICES ASSUME NEW i \in 1 .. Len(s \o t)
               PROVE  /\ (s \o t)[i].do \notin Planning
                      /\ (s \o t)[i].do = "move" => \/ (s \o t)[i].arg \in Lasting
                                                    \/ i < Len(s \o t) /\ (s \o t)[i + 1].do = "event"
  BY DEF Steady
<1>3. CASE i <= Len(s)
  <2>1. i \in 1 .. Len(s) /\ (s \o t)[i] = s[i]
    BY <1>1, <1>3
  <2>2. s[i] \in Elements(s)
    BY <2>1 DEF Elements
  <2> QED BY <2>1, <2>2
<1>4. CASE ~(i <= Len(s))
  <2> DEFINE j == i - Len(s)
  <2>1. j \in 1 .. Len(t) /\ (s \o t)[i] = t[j]
    BY <1>1, <1>4
  <2>2. j < Len(t) => i < Len(s \o t) /\ i + 1 \in 1 .. Len(s) + Len(t) /\ ~(i + 1 <= Len(s))
                      /\ (i + 1) - Len(s) = j + 1
    BY <1>1, <1>4
  <2>3. j < Len(t) => i < Len(s \o t) /\ (s \o t)[i + 1] = t[j + 1]
    BY <1>1, <2>2
  <2> QED BY <2>1, <2>3 DEF Steady
<1> QED BY <1>3, <1>4

(* Scripts without an event are tidy; without planning and transitions out *)
(* of the delivery, steady.                                                *)
LEMMA ShortScripts ==
  ASSUME NEW s \in Seq(Steps)
  PROVE  /\ (\A e \in Elements(s) : e.do # "event") => Tidy(s)
         /\ (\A e \in Elements(s) : e.do \notin Planning /\ (e.do = "move" => e.arg \in Lasting))
               => Steady(s)
<1>1. \A i \in 1 .. Len(s) : s[i] \in Elements(s)
  BY DEF Elements
<1> QED BY <1>1 DEF Tidy, Steady

(* The steps of every script but those that judge a pull request, open one *)
(* or merge it.                                                            *)
Common == {e \in Steps : /\ e.do \notin {"review", "final", "coder", "create", "save"}
                         /\ e.kind # "REVIEW_WAITING"
                         /\ e # Move("MERGED")}
CommonScript(s) == /\ s \in Seq(Steps) /\ Elements(s) \subseteq Common /\ Tidy(s)
                   /\ s # <<>> => s[1].do # "event"

(* _emit is such a script.                                                 *)
LEMMA EmitIsCommon ==
  ASSUME NEW to \in RunStates, NEW kind \in Kinds, NEW keyed \in BOOLEAN
  PROVE  /\ Emit(to, kind, keyed) \in Seq(Steps) /\ Emit(to, kind, keyed) # <<>>
         /\ Emit(to, kind, keyed)[1].do = "move"
         /\ Tidy(Emit(to, kind, keyed)) /\ Steady(Emit(to, kind, keyed))
         /\ to # "MERGED" /\ kind # "REVIEW_WAITING" => CommonScript(Emit(to, kind, keyed))
<1> DEFINE s == Emit(to, kind, keyed)
<1>1. /\ Len(s) = 3 /\ s[1] = Move(to) /\ s[2] = Do("event", to, kind, keyed)
      /\ s[3] = Call("notify") /\ s \in Seq(Steps) /\ s # <<>>
      /\ Elements(s) = {Move(to), Do("event", to, kind, keyed), Call("notify")}
  <2>1. /\ Len(s) = 3 /\ s[1] = Move(to) /\ s[2] = Do("event", to, kind, keyed)
        /\ s[3] = Call("notify")
    BY DEF Emit
  <2> QED BY <2>1, EmitSteps
<1>2. /\ s[1].do = "move" /\ s[2].do = "event" /\ s[2].arg = to /\ s[3].do = "notify"
      /\ s[1].kind = "" /\ s[2].kind = kind /\ s[3].kind = ""
  <2>1. Move(to).do = "move" /\ Move(to).kind = ""
    BY DEF Move, Do
  <2>2. Call("notify").do = "notify" /\ Call("notify").kind = ""
    BY DEF Call, Do
  <2>3. /\ Do("event", to, kind, keyed).do = "event" /\ Do("event", to, kind, keyed).arg = to
        /\ Do("event", to, kind, keyed).kind = kind
    BY DEF Do
  <2> QED BY <1>1, <2>1, <2>2, <2>3, Zenon
<1>3. Tidy(s)
  <2>1. SUFFICES ASSUME NEW i \in 1 .. 3, s[i].do = "event"
                 PROVE  /\ i + 1 = 3 /\ s[i + 1] = Call("notify")
                        /\ i > 1 => s[i - 1] = Move(s[i].arg)
    BY <1>1 DEF Tidy
  <2>2. i = 2
    <3>1. s[1].do # "event" /\ s[3].do # "event"
      BY <1>2
    <3>2. i \in {1, 2, 3}
      OBVIOUS
    <3> HIDE DEF s
    <3> QED BY <2>1, <3>1, <3>2
  <2>3. i + 1 = 3 /\ i - 1 = 1
    BY <2>2
  <2> QED BY <1>1, <1>2, <2>2, <2>3
<1>4. Steady(s)
  <2>1. SUFFICES ASSUME NEW i \in 1 .. 3
                 PROVE  /\ s[i].do \notin Planning
                        /\ s[i].do = "move" => s[i].arg \in Lasting \/ (i < 3 /\ s[i + 1].do = "event")
    BY <1>1 DEF Steady
  <2>2. CASE i = 1
    <3>1. i + 1 = 2 /\ i < 3
      BY <2>2
    <3> HIDE DEF s
    <3> QED BY <1>2, <2>2, <3>1 DEF Planning
  <2>3. CASE i = 2 \/ i = 3
    BY <1>2, <2>3 DEF Planning
  <2> QED BY <2>2, <2>3
<1>5. ASSUME to # "MERGED", kind # "REVIEW_WAITING" PROVE Elements(s) \subseteq Common
  <2>1. s[1] \in Steps /\ s[2] \in Steps /\ s[3] \in Steps
    <3> HIDE DEF s
    <3>1. \A i \in 1 .. Len(s) : s[i] \in Steps
      BY <1>1, SMTT(30)
    <3>2. 1 \in 1 .. Len(s) /\ 2 \in 1 .. Len(s) /\ 3 \in 1 .. Len(s)
      BY <1>1
    <3> QED BY <3>1, <3>2
  <2>2. s[1] # Move("MERGED") /\ s[2] # Move("MERGED") /\ s[3] # Move("MERGED")
    <3>1. Move("MERGED").do = "move" /\ Move("MERGED").arg = "MERGED" /\ s[1].arg = to
      BY <1>1, StepDo
    <3> QED BY <1>2, <1>5, <3>1
  <2>3. Elements(s) = {s[1], s[2], s[3]}
    BY <1>1
  <2> QED BY <1>2, <1>5, <2>1, <2>2, <2>3 DEF Common
<1> QED BY <1>1, <1>2, <1>3, <1>4, <1>5 DEF CommonScript


(* A script that keeps a delivery going, of common steps.                  *)
Usual(s) == CommonScript(s) /\ Steady(s)
Plodding == {e \in Common : /\ e.do \notin Planning \cup {"event"}
                            /\ e.do = "move" => e.arg \in Lasting}

(* Such steps on their own are,                                            *)
LEMMA UsualShort ==
  ASSUME NEW s \in Seq(Steps), Elements(s) \subseteq Plodding
  PROVE  Usual(s)
<1>1. \A e \in Elements(s) : e \in Common /\ e.do # "event" /\ e.do \notin Planning
                             /\ (e.do = "move" => e.arg \in Lasting)
  BY DEF Plodding
<1>2. s # <<>> => s[1] \in Elements(s)
  BY TailElements
<1> QED BY <1>1, <1>2, ShortScripts DEF Usual, CommonScript

(* before another such script,                                             *)
LEMMA UsualConcat ==
  ASSUME NEW s \in Seq(Steps), Elements(s) \subseteq Plodding, NEW t, Usual(t)
  PROVE  Usual(s \o t)
<1>1. t \in Seq(Steps) /\ Elements(t) \subseteq Common /\ Tidy(t) /\ Steady(t)
      /\ (t # <<>> => t[1].do # "event")
  BY DEF Usual, CommonScript
<1>2. s \o t \in Seq(Steps) /\ Elements(s \o t) = Elements(s) \cup Elements(t)
  BY <1>1, ConcatElements
<1>3. \A e \in Elements(s) : e \in Common /\ e.do # "event" /\ e.do \notin Planning
                             /\ (e.do = "move" => e.arg \in Lasting)
  BY DEF Plodding
<1>4. Tidy(s \o t) /\ Steady(s \o t)
  BY <1>1, <1>3, TidyConcat, SteadyConcat
<1>5. s \o t # <<>> => (s \o t)[1].do # "event"
  <2>1. CASE s = <<>>
    <3>1. s \o t = t
      BY <1>1, <2>1
    <3> QED BY <1>1, <3>1
  <2>2. CASE s # <<>>
    <3>1. s[1] \in Elements(s)
      BY <2>2, TailElements
    <3>2. (s \o t)[1] = s[1]
      BY <1>1, <2>2, ConcatProperties
    <3> QED BY <1>3, <3>1, <3>2
  <2> QED BY <2>1, <2>2
<1> QED BY <1>1, <1>2, <1>3, <1>4, <1>5 DEF Usual, CommonScript

(* and _emit.                                                              *)
LEMMA UsualEmit ==
  ASSUME NEW to \in RunStates \ {"MERGED"}, NEW kind \in Kinds \ {"REVIEW_WAITING"},
         NEW keyed \in BOOLEAN
  PROVE  Usual(Emit(to, kind, keyed))
BY EmitIsCommon DEF Usual

(* The steps that are so.                                                  *)
LEMMA PloddingSteps ==
  /\ \A to \in InDelivery \cup {"DEGRADED"} : Move(to) \in Plodding
  /\ \A status \in Statuses \ {"none"} : Mark(status) \in Plodding
  /\ \A what \in {"push", "comment", "merge", "sha", "clear", "read", "notify"} :
        Call(what) \in Plodding
  /\ Ask("repair") \in Plodding
<1>1. ASSUME NEW to \in InDelivery \cup {"DEGRADED"} PROVE Move(to) \in Plodding
  <2>1. /\ Move(to).do = "move" /\ Move(to).arg = to /\ Move(to).kind = ""
        /\ Move("MERGED").arg = "MERGED" /\ to # "MERGED" /\ to \in RunStates
    BY DEF Move, Do, InDelivery, RunStates
  <2>2. Move(to) \in Steps
    BY <2>1, StepTypes DEF Plain
  <2> QED BY <2>1, <2>2 DEF Plodding, Common, Planning, Lasting
<1>2. ASSUME NEW status \in Statuses \ {"none"} PROVE Mark(status) \in Plodding
  <2>1. /\ Mark(status).do = "mark" /\ Mark(status).kind = "" /\ Move("MERGED").do = "move"
    BY DEF Mark, Move, Do
  <2>2. Mark(status) \in Steps
    BY StepTypes DEF Plain
  <2> QED BY <2>1, <2>2 DEF Plodding, Common, Planning
<1>3. ASSUME NEW what \in {"push", "comment", "merge", "sha", "clear", "read", "notify"}
      PROVE  Call(what) \in Plodding
  <2>1. /\ Call(what).do = what /\ Call(what).kind = "" /\ Move("MERGED").do = "move"
    BY DEF Call, Move, Do
  <2>2. Call(what) \in Steps
    BY StepTypes DEF Plain
  <2> QED BY <2>1, <2>2 DEF Plodding, Common, Planning
<1>4. Ask("repair") \in Plodding
  <2>1. /\ Ask("repair").do = "repair" /\ Ask("repair").kind = "" /\ Move("MERGED").do = "move"
    BY DEF Ask, Move, Do
  <2>2. Ask("repair") \in Steps
    BY StepTypes
  <2> QED BY <2>1, <2>2 DEF Plodding, Common, Planning
<1> QED BY <1>1, <1>2, <1>3, <1>4

(* Scripts that stop,                                                      *)
LEMMA StopsAreUsual ==
  /\ Usual(<<>>) /\ Usual(ModelSuppressed) /\ Usual(WorkerStops) /\ Usual(OwnerStops)
  /\ Usual(Emit("DEGRADED", FailureKind, TRUE)) /\ Usual(Emit("DEGRADED", "STALLED", TRUE))
  /\ Usual(IssueReply.changed)
<1>1. (pass.ctx = "execute") \in BOOLEAN /\ FailureKind \in {"ISSUE_FAILED", "EXECUTION_FAILED"}
  BY DEF FailureKind
<1>2. IssueReply.changed = Emit("READY", "ISSUE_UPDATED", FALSE)
  BY DEF IssueReply
<1>3. Usual(<<>>)
  <2>1. <<>> \in Seq(Steps) /\ Elements(<<>>) \subseteq Plodding
    BY NoElements
  <2> QED BY <2>1, UsualShort
<1>4. Usual(ModelSuppressed) /\ Usual(WorkerStops) /\ Usual(OwnerStops)
  BY <1>1, UsualEmit DEF RunStates, Kinds, ModelSuppressed, WorkerStops, OwnerStops
<1>5. Usual(Emit("DEGRADED", FailureKind, TRUE))
  BY <1>1, UsualEmit DEF RunStates, Kinds
<1>6. Usual(Emit("DEGRADED", "STALLED", TRUE)) /\ Usual(Emit("READY", "ISSUE_UPDATED", FALSE))
  BY UsualEmit DEF RunStates, Kinds
<1> QED BY <1>2, <1>3, <1>4, <1>5, <1>6

(* verify a merge,                                                         *)
LEMMA VerifyIsUsual == Usual(VerifyScript)
<1>1. /\ Usual(Emit("DEGRADED", "POST_MERGE_EVIDENCE_MISSING", FALSE))
      /\ Usual(Emit("POST_MERGE_VERIFICATION", "POST_MERGE_WAITING", TRUE))
      /\ Usual(Emit("READY", "POST_MERGE_VERIFIED", TRUE))
      /\ Usual(Emit("DEGRADED", "POST_MERGE_FAILED", TRUE))
  BY UsualEmit DEF RunStates, Kinds
<1> QED BY <1>1, StopsAreUsual DEF VerifyScript

(* go on with active work: a review is asked for when the checks are green *)
(* and no review can be reused,                                            *)
LEMMA ActiveIsUsual ==
  \/ Usual(ActiveScript)
  \/ ActiveScript = ReadThen("REVIEWING", "review") /\ ChecksGreen(active.pr) /\ ~ReviewReused
<1>1. Mark("pr_open") \in Plodding /\ Mark("pr_open") \in Steps
  BY PloddingSteps, StepTypes DEF Statuses, Plain
<1>2. <<Mark("pr_open")>> \in Seq(Steps) /\ Elements(<<Mark("pr_open")>>) \subseteq Plodding
  BY <1>1 DEF Elements
<1>3. Usual(<<Mark("pr_open")>> \o <<>>)
  BY <1>2, StopsAreUsual, UsualConcat
<1>4. Usual(<<Mark("pr_open")>> \o Emit("PR_OPEN", "PR_CHECKS_WAITING", TRUE))
  <2>1. Usual(Emit("PR_OPEN", "PR_CHECKS_WAITING", TRUE))
    BY UsualEmit DEF RunStates, Kinds
  <2> QED BY <1>2, <2>1, UsualConcat
<1>5. Usual(ReadThen("REPAIRING", "repair"))
  <2>1. /\ Move("REPAIRING") \in Plodding /\ Call("read") \in Plodding /\ Ask("repair") \in Plodding
    BY PloddingSteps DEF InDelivery
  <2>2. /\ ReadThen("REPAIRING", "repair") \in Seq(Steps)
        /\ Elements(ReadThen("REPAIRING", "repair")) \subseteq Plodding
    BY <2>1, ReadThenSteps
  <2> QED BY <2>2, UsualShort
<1>6. CASE active.status = "repair_requested" \/ state = "REPAIRING"
  BY <1>5, <1>6 DEF ActiveScript, ReadThen
<1>7. CASE ~(active.status = "repair_requested" \/ state = "REPAIRING") /\ ~ChecksGreen(active.pr)
  BY <1>3, <1>4, <1>7 DEF ActiveScript
<1>8. CASE ~(active.status = "repair_requested" \/ state = "REPAIRING") /\ ChecksGreen(active.pr)
  BY <1>8, StopsAreUsual DEF ActiveScript, ReadThen
<1> QED BY <1>6, <1>7, <1>8

(* plan, or tell the owner.                                                *)
LEMMA PlansAreCommon ==
  /\ CommonScript(PlanScript) /\ CommonScript(NoContext)
  /\ last \in LastEvents => CommonScript(Emit("BLOCKED", "ATTENTION_REQUIRED", last.same))
<1>1. CommonScript(<<Move("PLANNING"), Ask("plan")>>) /\ CommonScript(<<Move("EXECUTING"), Ask("issue")>>)
  <2>1. ASSUME NEW to \in {"PLANNING", "EXECUTING"}, NEW whom \in {"plan", "issue"}
        PROVE  CommonScript(<<Move(to), Ask(whom)>>)
    <3>1. /\ Move(to).do = "move" /\ Move(to).arg = to /\ Move(to).kind = ""
          /\ Move("MERGED").arg = "MERGED" /\ Move("MERGED").do = "move"
          /\ Ask(whom).do = whom /\ Ask(whom).kind = "" /\ Move(to) # Move("MERGED")
      BY DEF Move, Ask, Do
    <3>2. Move(to) \in Steps /\ Ask(whom) \in Steps
      BY StepTypes DEF Plain, RunStates
    <3>3. Move(to) \in Common /\ Ask(whom) \in Common
      BY <3>1, <3>2 DEF Common
    <3>4. /\ <<Move(to), Ask(whom)>> \in Seq(Steps)
          /\ Elements(<<Move(to), Ask(whom)>>) = {Move(to), Ask(whom)}
          /\ <<Move(to), Ask(whom)>>[1] = Move(to)
      BY <3>2 DEF Elements
    <3>5. \A e \in Elements(<<Move(to), Ask(whom)>>) : e.do # "event"
      BY <3>1, <3>4
    <3>6. Tidy(<<Move(to), Ask(whom)>>)
      BY <3>4, <3>5, ShortScripts
    <3> QED BY <3>1, <3>3, <3>4, <3>6 DEF CommonScript
  <2> QED BY <2>1
<1>2. Usual(NoContext)
  BY UsualEmit DEF RunStates, Kinds, NoContext
<1>3. last \in LastEvents => Usual(Emit("BLOCKED", "ATTENTION_REQUIRED", last.same))
  BY UsualEmit DEF RunStates, Kinds, LastEvents
<1>4. PlanScript \in {<<>>, <<Move("PLANNING"), Ask("plan")>>, <<Move("EXECUTING"), Ask("issue")>>,
                      Emit("DEGRADED", "STALLED", TRUE)}
  BY DEF PlanScript
<1> QED BY <1>1, <1>2, <1>3, <1>4, StopsAreUsual DEF Usual

(* What a pass does with the planner's answers.                            *)
LEMMA PlanAnswersAreCommon ==
  /\ \A a \in DOMAIN PlanReply : CommonScript(PlanReply[a])
  /\ \A a \in DOMAIN Selected : \/ CommonScript(Selected[a])
                                \/ Selected[a] = <<Move("EXECUTING"), Ask("coder")>>
<1>1. ASSUME NEW a \in DOMAIN PlanReply PROVE CommonScript(PlanReply[a])
  <2>1. PlanReply[a] \in {PlanReply.suppressed, PlanReply.planFails, PlanReply.needsOwner,
                          PlanReply.denied}
    BY <1>1 DEF PlanReply
  <2>2. /\ PlanReply.suppressed = ModelSuppressed
        /\ PlanReply.planFails = Emit("DEGRADED", "PLANNING_FAILED", TRUE)
        /\ PlanReply.needsOwner = Emit("BLOCKED", "APPROVAL_REQUIRED", TRUE)
        /\ PlanReply.denied = Emit("DEGRADED", "ACTION_BLOCKED", TRUE)
    BY DEF PlanReply
  <2>3. /\ Usual(Emit("DEGRADED", "PLANNING_FAILED", TRUE))
        /\ Usual(Emit("BLOCKED", "APPROVAL_REQUIRED", TRUE))
        /\ Usual(Emit("DEGRADED", "ACTION_BLOCKED", TRUE))
    BY UsualEmit DEF RunStates, Kinds
  <2> QED BY <2>1, <2>2, <2>3, StopsAreUsual DEF Usual
<1>2. ASSUME NEW a \in DOMAIN Selected
      PROVE  CommonScript(Selected[a]) \/ Selected[a] = <<Move("EXECUTING"), Ask("coder")>>
  <2>1. Selected[a] \in {Selected.report, Selected.issue, Selected.implement, Selected.reviewPR}
    BY <1>2 DEF Selected
  <2>2. /\ Selected.report = Emit("READY", "STATUS_REPORTED", TRUE)
        /\ Selected.issue = <<Ask("issue")>>
        /\ Selected.implement = <<Move("EXECUTING"), Ask("coder")>>
        /\ Selected.reviewPR = <<Move("REVIEWING")>>
    BY DEF Selected
  <2>3. Usual(Emit("READY", "STATUS_REPORTED", TRUE))
    BY UsualEmit DEF RunStates, Kinds
  <2>4. ASSUME NEW e \in {Ask("issue"), Move("REVIEWING")} PROVE CommonScript(<<e>>)
    <3>1. /\ Ask("issue").do = "issue" /\ Ask("issue").kind = ""
          /\ Move("REVIEWING").do = "move" /\ Move("REVIEWING").kind = ""
          /\ Move("REVIEWING").arg = "REVIEWING" /\ Move("MERGED").arg = "MERGED"
          /\ Move("MERGED").do = "move"
      BY DEF Move, Ask, Do
    <3>2. Ask("issue") \in Steps /\ Move("REVIEWING") \in Steps
      BY StepTypes DEF Plain, RunStates
    <3>3. e \in Common /\ e.do # "event" /\ e \in Steps
      BY <3>1, <3>2 DEF Common
    <3>4. <<e>> \in Seq(Steps) /\ Elements(<<e>>) = {e} /\ <<e>>[1] = e
      BY <3>3 DEF Elements
    <3>5. Tidy(<<e>>)
      BY <3>3, <3>4, ShortScripts
    <3> QED BY <3>3, <3>4, <3>5 DEF CommonScript
  <2> QED BY <2>1, <2>2, <2>3, <2>4 DEF Usual
<1> QED BY <1>1, <1>2

(* The coder's work becomes a pull request in three writes: its answers    *)
OpenedScript == Emit("PR_OPEN", "PR_OPENED", FALSE)
SaveScript == <<Call("save")>> \o OpenedScript
CreateScript == <<Call("create"), Call("save")>> \o OpenedScript

(* end its script or lead to these.                                        *)
LEMMA CoderAnswersAreUsual ==
  \A a \in DOMAIN CoderReply : Usual(CoderReply[a]) \/ CoderReply[a] = CreateScript
<1> SUFFICES ASSUME NEW a \in DOMAIN CoderReply
             PROVE  Usual(CoderReply[a]) \/ CoderReply[a] = CreateScript
  OBVIOUS
<1>1. CoderReply[a] \in {CoderReply.suppressed, CoderReply.workerBlocked,
                         CoderReply.ownerBlocked, CoderReply.finished}
  BY DEF CoderReply
<1>2. /\ CoderReply.suppressed = ModelSuppressed /\ CoderReply.workerBlocked = WorkerStops
      /\ CoderReply.ownerBlocked = OwnerStops /\ CoderReply.finished = CreateScript
  BY DEF CoderReply, CreateScript, OpenedScript
<1> QED BY <1>1, <1>2, StopsAreUsual

(* The scripts that open a pull request are rests of one another.          *)
LEMMA CreateSteps ==
  /\ CreateScript \in Seq(Steps) /\ CreateScript # <<>> /\ CreateScript[1] = Call("create")
  /\ Tail(CreateScript) = SaveScript
  /\ SaveScript \in Seq(Steps) /\ SaveScript # <<>> /\ SaveScript[1] = Call("save")
  /\ Tail(SaveScript) = OpenedScript
  /\ OpenedScript \in Seq(Steps) /\ OpenedScript # <<>> /\ OpenedScript[1] = Move("PR_OPEN")
  /\ Elements(OpenedScript) \subseteq Common /\ Tidy(CreateScript)
  /\ Elements(SaveScript) = {Call("save")} \cup Elements(OpenedScript)
  /\ Elements(CreateScript) = {Call("create")} \cup Elements(SaveScript)
<1>1. /\ Usual(OpenedScript) /\ OpenedScript \in Seq(Steps) /\ OpenedScript # <<>>
      /\ OpenedScript[1] = Move("PR_OPEN")
  <2>1. "PR_OPEN" \in RunStates \ {"MERGED"} /\ "PR_OPENED" \in Kinds \ {"REVIEW_WAITING"}
    BY DEF RunStates, Kinds
  <2>2. Usual(OpenedScript)
    BY <2>1, UsualEmit DEF OpenedScript
  <2>3. OpenedScript # <<>> /\ OpenedScript[1] = Move("PR_OPEN")
    BY EmitParts DEF OpenedScript
  <2> QED BY <2>2, <2>3 DEF Usual, CommonScript
<1>2. /\ <<Call("save")>> \in Seq(Steps) /\ <<Call("create"), Call("save")>> \in Seq(Steps)
      /\ Call("save") \in Steps /\ Call("create") \in Steps
  BY StepTypes
<1>3. ASSUME NEW t \in Seq(Steps), NEW x \in Steps, NEW y \in Steps
      PROVE  /\ <<x>> \o t \in Seq(Steps) /\ <<x>> \o t # <<>> /\ (<<x>> \o t)[1] = x
             /\ Tail(<<x>> \o t) = t
             /\ <<y, x>> \o t \in Seq(Steps) /\ <<y, x>> \o t # <<>> /\ (<<y, x>> \o t)[1] = y
             /\ Tail(<<y, x>> \o t) = <<x>> \o t
  <2>0. <<x>> \in Seq(Steps) /\ <<y, x>> \in Seq(Steps) /\ Len(t) \in Nat
        /\ Len(<<x>>) = 1 /\ Len(<<y, x>>) = 2
        /\ <<x>>[1] = x /\ <<y, x>>[1] = y /\ <<y, x>>[2] = x
    OBVIOUS
  <2> DEFINE u == <<x>> \o t
             v == <<y, x>> \o t
  <2>1. /\ u \in Seq(Steps) /\ Len(u) = 1 + Len(t)
        /\ \A i \in 1 .. 1 + Len(t) : u[i] = IF i <= 1 THEN <<x>>[i] ELSE t[i - 1]
    BY <2>0, ConcatProperties
  <2>2. /\ v \in Seq(Steps) /\ Len(v) = 2 + Len(t)
        /\ \A i \in 1 .. 2 + Len(t) : v[i] = IF i <= 2 THEN <<y, x>>[i] ELSE t[i - 2]
    BY <2>0, ConcatProperties
  <2> HIDE DEF u, v
  <2>3. u # <<>> /\ v # <<>> /\ u[1] = x /\ v[1] = y
    BY <2>0, <2>1, <2>2
  <2>4. /\ Tail(u) \in Seq(Steps) /\ Len(Tail(u)) = Len(t)
        /\ \A i \in 1 .. Len(Tail(u)) : Tail(u)[i] = u[i + 1]
    BY <2>0, <2>1, <2>3, HeadTailProperties
  <2>5. /\ Tail(v) \in Seq(Steps) /\ Len(Tail(v)) = Len(u)
        /\ \A i \in 1 .. Len(Tail(v)) : Tail(v)[i] = v[i + 1]
    BY <2>0, <2>1, <2>2, <2>3, HeadTailProperties
  <2>6. \A i \in 1 .. Len(Tail(u)) : Tail(u)[i] = t[i]
    <3>1. SUFFICES ASSUME NEW i \in 1 .. Len(t) PROVE Tail(u)[i] = t[i]
      BY <2>4
    <3>2. i + 1 \in 1 .. 1 + Len(t) /\ ~(i + 1 <= 1) /\ (i + 1) - 1 = i
      BY <2>0
    <3> QED BY <2>1, <2>4, <3>2
  <2>7. \A i \in 1 .. Len(Tail(v)) : Tail(v)[i] = u[i]
    <3>1. SUFFICES ASSUME NEW i \in 1 .. 1 + Len(t) PROVE v[i + 1] = u[i]
      BY <2>1, <2>5
    <3>2. CASE i = 1
      <4>1. i + 1 = 2 /\ 2 \in 1 .. 2 + Len(t)
        BY <2>0, <3>2
      <4> QED BY <2>0, <2>1, <2>2, <3>2, <4>1
    <3>3. CASE i # 1
      <4>1. i + 1 \in 1 .. 2 + Len(t) /\ ~(i + 1 <= 2) /\ (i + 1) - 2 = i - 1 /\ ~(i <= 1)
        BY <2>0, <3>3
      <4> QED BY <2>1, <2>2, <4>1
    <3> QED BY <3>2, <3>3
  <2>8. Tail(u) = t
    BY <2>4, <2>6, SeqEqual
  <2>9. Tail(v) = u
    BY <2>1, <2>5, <2>7, SeqEqual
  <2> QED BY <2>1, <2>2, <2>3, <2>8, <2>9 DEF u, v
<1>4. /\ CreateScript \in Seq(Steps) /\ CreateScript # <<>> /\ CreateScript[1] = Call("create")
      /\ Tail(CreateScript) = SaveScript
      /\ SaveScript \in Seq(Steps) /\ SaveScript # <<>> /\ SaveScript[1] = Call("save")
      /\ Tail(SaveScript) = OpenedScript
  BY <1>1, <1>2, <1>3 DEF CreateScript, SaveScript
<1>5. /\ Elements(SaveScript) = {Call("save")} \cup Elements(OpenedScript)
      /\ Elements(CreateScript) = {Call("create")} \cup Elements(SaveScript)
  <2>1. Elements(SaveScript) = {SaveScript[1]} \cup Elements(Tail(SaveScript))
    BY <1>4, TailElements
  <2>2. Elements(CreateScript) = {CreateScript[1]} \cup Elements(Tail(CreateScript))
    BY <1>4, TailElements
  <2> QED BY <1>4, <2>1, <2>2
<1>6. Tidy(CreateScript)
  <2>1. Elements(<<Call("create"), Call("save")>>) = {Call("create"), Call("save")}
    BY DEF Elements
  <2>2. \A e \in Elements(<<Call("create"), Call("save")>>) : e.do # "event"
    BY <2>1, StepDo
  <2>3. Tidy(OpenedScript) /\ OpenedScript[1].do # "event"
    BY <1>1 DEF Usual, CommonScript
  <2> QED BY <1>1, <1>2, <2>2, <2>3, TidyConcat DEF CreateScript
<1> QED BY <1>1, <1>4, <1>5, <1>6 DEF Usual, CommonScript

(* The repairer's answers keep the delivery going.                         *)
LEMMA RepairAnswersAreUsual == \A a \in DOMAIN RepairReply : Usual(RepairReply[a])
<1> SUFFICES ASSUME NEW a \in DOMAIN RepairReply PROVE Usual(RepairReply[a])
  OBVIOUS
<1>1. RepairReply[a] \in {RepairReply.suppressed, RepairReply.workerBlocked,
                          RepairReply.ownerBlocked, RepairReply.finished}
  BY DEF RepairReply
<1>2. /\ RepairReply.suppressed = ModelSuppressed /\ RepairReply.workerBlocked = WorkerStops
      /\ RepairReply.ownerBlocked = OwnerStops
      /\ RepairReply.finished = <<Call("push"), Mark("pr_open")>>
                                \o Emit("PR_OPEN", "PR_REPAIRED", FALSE)
  BY DEF RepairReply
<1>3. Call("push") \in Plodding /\ Mark("pr_open") \in Plodding
  BY PloddingSteps DEF Statuses
<1>4. /\ <<Call("push"), Mark("pr_open")>> \in Seq(Steps)
      /\ Elements(<<Call("push"), Mark("pr_open")>>) \subseteq Plodding
  BY <1>3 DEF Elements, Plodding, Common
<1>5. Usual(Emit("PR_OPEN", "PR_REPAIRED", FALSE))
  BY UsualEmit DEF RunStates, Kinds
<1>6. Usual(<<Call("push"), Mark("pr_open")>> \o Emit("PR_OPEN", "PR_REPAIRED", FALSE))
  BY <1>4, <1>5, UsualConcat
<1> QED BY <1>1, <1>2, <1>6, StopsAreUsual

(* The steps of a review that waits, and of one that goes on.              *)
WaitEvent == Do("event", "PR_OPEN", "REVIEW_WAITING", TRUE)
WaitSteps == {Move("PR_OPEN"), Mark("pr_open"), WaitEvent, Call("notify")}
JudgeSteps == {Move("REVIEWING"), Call("read"), Ask("review"), Call("ready"), Ask("final")}

(* The scripts of a review plan nothing and record no event,               *)
LEMMA JudgingIsSteady ==
  ASSUME NEW s \in Seq(Steps), Elements(s) \subseteq JudgeSteps
  PROVE  Tidy(s) /\ Steady(s)
<1>1. \A e \in JudgeSteps : /\ e.do \notin Planning \cup {"event"}
                            /\ e.do = "move" => e.arg \in Lasting
  BY StepDo DEF JudgeSteps, Planning, Lasting, InDelivery
<1> QED BY <1>1, ShortScripts

(* the one that waits ends with the event of its state,                    *)
LEMMA WaitScriptIsSteady ==
  /\ WaitScript \in Seq(Steps) /\ WaitScript # <<>> /\ Elements(WaitScript) = WaitSteps
  /\ Tidy(WaitScript) /\ Steady(WaitScript) /\ WaitScript[1].do # "event"
<1> DEFINE s == <<Move("PR_OPEN"), Mark("pr_open")>>
           t == Emit("PR_OPEN", "REVIEW_WAITING", TRUE)
<1>1. Move("PR_OPEN") \in Plodding /\ Mark("pr_open") \in Plodding
  BY PloddingSteps DEF Statuses, InDelivery
<1>2. /\ s \in Seq(Steps) /\ Elements(s) = {Move("PR_OPEN"), Mark("pr_open")}
      /\ Len(s) = 2 /\ s[1] = Move("PR_OPEN")
  BY <1>1 DEF Elements, Plodding, Common
<1>3. /\ t \in Seq(Steps) /\ t # <<>> /\ t[1].do = "move" /\ Tidy(t) /\ Steady(t)
      /\ Elements(t) = {Move("PR_OPEN"), WaitEvent, Call("notify")}
  BY EmitIsCommon, EmitSteps DEF RunStates, Kinds, WaitEvent
<1>4. \A e \in Elements(s) : /\ e.do # "event" /\ e.do \notin Planning
                             /\ (e.do = "move" => e.arg \in Lasting)
  BY <1>1, <1>2 DEF Plodding
<1> HIDE DEF s, t
<1>5. Tidy(s \o t) /\ Steady(s \o t)
  BY <1>2, <1>3, <1>4, TidyConcat, SteadyConcat
<1>6. s \o t \in Seq(Steps) /\ Elements(s \o t) = WaitSteps
  BY <1>2, <1>3, ConcatElements DEF WaitSteps
<1>7. s \o t # <<>> /\ (s \o t)[1] = Move("PR_OPEN")
  <2>1. ASSUME NEW a \in Seq(Steps), NEW b \in Seq(Steps), a # <<>>
        PROVE  a \o b # <<>> /\ (a \o b)[1] = a[1]
    BY <2>1, ConcatProperties
  <2>2. s # <<>>
    BY <1>2
  <2> QED BY <1>2, <1>3, <2>1, <2>2
<1>8. WaitScript = s \o t
  BY DEF WaitScript, s, t
<1> QED BY <1>5, <1>6, <1>7, <1>8, StepDo

(* and so does the one that merges, in which nobody is asked.              *)
LEMMA MergeScriptIsSteady ==
  /\ Tidy(MergeScript) /\ Steady(MergeScript) /\ MergeScript[1].do # "event"
  /\ \A e \in Elements(MergeScript) :
        e.do \notin {"review", "final", "coder", "create", "save"} /\ e.kind # "REVIEW_WAITING"
<1> DEFINE s == <<Call("comment"), Call("merge"), Call("sha"), Call("clear"),
                  Move("COMPLETION_READY"), Move("MERGED")>>
           t == Emit("POST_MERGE_VERIFICATION", "PR_MERGED", FALSE)
           S == {Call("comment"), Call("merge"), Call("sha"), Call("clear"),
                 Move("COMPLETION_READY"), Move("MERGED")}
<1>1. S \subseteq Steps
  <2>1. /\ Call("comment") \in Steps /\ Call("merge") \in Steps /\ Call("sha") \in Steps
        /\ Call("clear") \in Steps /\ Move("COMPLETION_READY") \in Steps /\ Move("MERGED") \in Steps
    BY StepTypes DEF Plain, RunStates
  <2> QED BY <2>1
<1>2. s \in Seq(Steps) /\ Elements(s) = S /\ Len(s) = 6 /\ s[1] = Call("comment")
  BY <1>1 DEF Elements
<1>3. /\ t \in Seq(Steps) /\ t # <<>> /\ t[1].do = "move" /\ Tidy(t) /\ Steady(t) /\ CommonScript(t)
  BY EmitIsCommon DEF RunStates, Kinds
<1>4. \A e \in S : /\ e.do \notin {"event", "review", "final", "coder", "create", "save"}
                   /\ e.do \notin Planning /\ e.kind = ""
                   /\ (e.do = "move" => e.arg \in Lasting)
  <2>1. /\ \A what : Call(what).do = what /\ Call(what).kind = ""
        /\ \A to : Move(to).do = "move" /\ Move(to).arg = to /\ Move(to).kind = ""
    BY DEF Call, Move, Do
  <2>2. SUFFICES ASSUME NEW e \in S
                 PROVE  /\ e.do \notin {"event", "review", "final", "coder", "create", "save"}
                        /\ e.do \notin Planning /\ e.kind = ""
                        /\ (e.do = "move" => e.arg \in Lasting)
    OBVIOUS
  <2>3. \/ \E what \in {"comment", "merge", "sha", "clear"} : e = Call(what)
        \/ \E to \in {"COMPLETION_READY", "MERGED"} : e = Move(to)
    OBVIOUS
  <2>4. ASSUME NEW what \in {"comment", "merge", "sha", "clear"}, e = Call(what)
        PROVE  e.do = what /\ e.kind = ""
    BY <2>1, <2>4, Zenon
  <2>5. ASSUME NEW to \in {"COMPLETION_READY", "MERGED"}, e = Move(to)
        PROVE  e.do = "move" /\ e.arg = to /\ e.kind = ""
    BY <2>1, <2>5, Zenon
  <2> HIDE DEF S
  <2> QED BY <2>3, <2>4, <2>5 DEF Planning, Lasting, InDelivery
<1> HIDE DEF s, t, S
<1>5. Tidy(s \o t) /\ Steady(s \o t)
  BY <1>2, <1>3, <1>4, TidyConcat, SteadyConcat
<1>6. s \o t \in Seq(Steps) /\ Elements(s \o t) = S \cup Elements(t)
  BY <1>2, <1>3, ConcatElements
<1>7. (s \o t)[1] = Call("comment")
  BY <1>2, <1>3, ConcatProperties
<1>8. MergeScript = s \o t
  BY DEF MergeScript, s, t
<1>9. \A e \in Elements(t) :
        e.do \notin {"review", "final", "coder", "create", "save"} /\ e.kind # "REVIEW_WAITING"
  BY <1>3 DEF CommonScript, Common
<1>10. MergeScript[1].do = "comment"
  <2>1. Call("comment").do = "comment"
    BY StepDo
  <2> QED BY <1>7, <1>8, <2>1, Zenon
<1>11. \A e \in Elements(MergeScript) :
        e.do \notin {"review", "final", "coder", "create", "save"} /\ e.kind # "REVIEW_WAITING"
  <2>1. Elements(MergeScript) = S \cup Elements(t)
    BY <1>6, <1>8, Zenon
  <2> QED BY <1>4, <1>9, <2>1
<1>12. Tidy(MergeScript) /\ Steady(MergeScript)
  BY <1>5, <1>8, Zenon
<1> QED BY <1>10, <1>11, <1>12

(* What a pass does with the reviews.                                      *)
LEMMA ReviewAnswersAre ==
  /\ \A a \in DOMAIN ReviewReply :
        \/ Usual(ReviewReply[a])
        \/ ReviewReply[a] \in {<<Call("ready"), Ask("final")>>, <<Ask("final")>>}
  /\ \A a \in DOMAIN FinalReply : \/ Usual(FinalReply[a])
                                  \/ FinalReply[a] = WaitScript
                                  \/ FinalReply[a] = MergeScript
<1>1. /\ Usual(Emit("REPAIRING", "REVIEW_BLOCKED", FALSE))
      /\ Usual(Emit("BLOCKED", "COMMENT_DECISION", FALSE))
      /\ Usual(Emit("BLOCKED", "ATTENTION_REQUIRED", FALSE))
      /\ Usual(Emit("COMPLETION_READY", "COMPLETION_READY", TRUE))
  BY UsualEmit DEF RunStates, Kinds
<1>2. ASSUME NEW status \in Statuses \ {"none"}, NEW t, Usual(t)
      PROVE  Usual(<<Call("comment"), Mark(status)>> \o t)
  <2>1. Call("comment") \in Plodding /\ Mark(status) \in Plodding
    BY PloddingSteps
  <2>2. /\ <<Call("comment"), Mark(status)>> \in Seq(Steps)
        /\ Elements(<<Call("comment"), Mark(status)>>) \subseteq Plodding
    BY <2>1 DEF Elements, Plodding, Common
  <2> QED BY <1>2, <2>2, UsualConcat
<1>3. /\ Usual(ChangesRequested) /\ Usual(OwnerScript)
      /\ Usual(<<Call("comment"), Mark("owner_blocked")>> \o Emit("BLOCKED", "COMMENT_DECISION", FALSE))
      /\ Usual(<<Call("comment"), Mark("owner_blocked")>> \o Emit("BLOCKED", "ATTENTION_REQUIRED", FALSE))
  BY <1>1, <1>2 DEF ChangesRequested, OwnerScript, Statuses
<1>4. ASSUME NEW a \in DOMAIN ReviewReply
      PROVE  \/ Usual(ReviewReply[a])
             \/ ReviewReply[a] \in {<<Call("ready"), Ask("final")>>, <<Ask("final")>>}
  <2>1. ReviewReply[a] \in {ReviewReply.suppressed, ReviewReply.changes,
                            ReviewReply.commentDecision, ReviewReply.approve}
    BY <1>4 DEF ReviewReply
  <2>2. /\ ReviewReply.suppressed = ModelSuppressed /\ ReviewReply.changes = ChangesRequested
        /\ ReviewReply.commentDecision = <<Call("comment"), Mark("owner_blocked")>>
                                         \o Emit("BLOCKED", "COMMENT_DECISION", FALSE)
        /\ ReviewReply.approve \in {<<Call("ready"), Ask("final")>>, <<Ask("final")>>}
    BY DEF ReviewReply
  <2> QED BY <1>3, <2>1, <2>2, StopsAreUsual
<1>5. ASSUME NEW a \in DOMAIN FinalReply
      PROVE  Usual(FinalReply[a]) \/ FinalReply[a] = WaitScript \/ FinalReply[a] = MergeScript
  <2>1. FinalReply[a] \in {FinalReply.suppressed, FinalReply.changes, FinalReply.decline,
                           FinalReply.ownerBlocked, FinalReply.approve}
    BY <1>5 DEF FinalReply
  <2>2. /\ FinalReply.suppressed = ModelSuppressed /\ FinalReply.changes = ChangesRequested
        /\ FinalReply.decline = WaitScript
        /\ FinalReply.ownerBlocked = <<Call("comment"), Mark("owner_blocked")>>
                                     \o Emit("BLOCKED", "ATTENTION_REQUIRED", FALSE)
        /\ FinalReply.approve \in {WaitScript, MergeScript, OwnerScript}
    BY DEF FinalReply
  <2> QED BY <1>3, <2>1, <2>2, StopsAreUsual
<1> QED BY <1>4, <1>5

----------------------------------------------------------------------------
(* The steps of a pass, by what they do to its script: go on with it,      *)
Onward == \/ DoMove \/ RecordEvent \/ Sent \/ WriteActive \/ CreatePR \/ Push
          \/ MarkReady \/ Comment \/ Merge \/ ReadPR \/ ReadMainHead

(* replace it by common steps,                                             *)
Anew == CommonScript(todo') /\ (todo' # <<>> => pass'.ctx # "none")

(* or leave it.                                                            *)
Staying == /\ UNCHANGED <<todo, state, active>> /\ pass'.ctx = pass.ctx /\ last'.st = last.st
           /\ (pass' = pass /\ last' = last /\ waited' = waited /\ pr' = pr)
                 \/ (pass'.still = FALSE /\ waited' = "none")
           /\ \A p \in PR : Open(p)' => Open(p)

(* Going on with a script leaves its rest.                                 *)
LEMMA OnwardIs ==
  ASSUME SafeInv, Onward
  PROVE  /\ todo \in Seq(Steps) /\ todo # <<>> /\ todo[1] \in Steps
         /\ todo' = Tail(todo) /\ todo' \in Seq(Steps)
         /\ Elements(todo) = {todo[1]} \cup Elements(todo')
         /\ todo' # <<>> => pass'.ctx = pass.ctx
<1>1. todo # <<>>
  BY DEF Onward, DoMove, RecordEvent, Sent, WriteActive, CreatePR, Push, MarkReady, Comment,
         Merge, ReadPR, ReadMainHead, Doing
<1>2. TypeOK /\ todo \in Seq(Steps) /\ pass \in Passes
  BY PassTypes DEF SafeInv, TypeOK
<1>3. /\ todo[1] \in Steps /\ Tail(todo) \in Seq(Steps)
      /\ Elements(todo) = {todo[1]} \cup Elements(Tail(todo))
  BY <1>1, <1>2, TailElements
<1>4. todo' = Tail(todo) /\ (todo' # <<>> => pass'.ctx = pass.ctx)
  <2>1. CASE DoMove \/ RecordEvent \/ Sent \/ WriteActive
    <3>1. Done
      BY <2>1 DEF DoMove, RecordEvent, Sent, WriteActive
    <3> QED BY <1>1, <1>2, <3>1, DoneKeeps
  <2>2. CASE Push \/ MarkReady \/ Merge \/ Comment
    <3>1. Fact(Tail(todo), pass) \/ (Then(Tail(todo), Stale(pass)) /\ last' = Stale(last))
      BY <2>2 DEF Push, MarkReady, Merge, Comment
    <3> QED BY <1>2, <1>3, <3>1, FactKeeps
  <2>3. CASE CreatePR
    <3>1. PICK p \in PR : Fact(Tail(todo), [pass EXCEPT !.pr = p])
      BY <2>3 DEF CreatePR, Unused
    <3> QED BY <1>2, <3>1 DEF Fact, Then, Stale, Passes
  <2>4. CASE ReadPR \/ ReadMainHead
    BY <1>2, <2>4 DEF ReadPR, ReadMainHead, Then, Passes
  <2> QED BY <2>1, <2>2, <2>3, <2>4 DEF Onward
<1> QED BY <1>1, <1>2, <1>3, <1>4

(* An exception leaves a script that stops, or none.                       *)
LEMMA RaiseIs ==
  ASSUME SafeInv, Raise
  PROVE  /\ Anew /\ Steady(todo')
         /\ pass.ctx # "execute" => todo' = <<>>
<1>1. \/ todo' = Emit("DEGRADED", FailureKind, TRUE) /\ pass.ctx = "execute"
         /\ (todo' # <<>> => pass' = [pass EXCEPT !.ctx = "bare"])
      \/ todo' = <<>>
  BY DEF Raise, AfterRaise, Then
<1>2. pass \in Passes
  BY PassTypes DEF SafeInv
<1>3. todo' # <<>> => pass'.ctx # "none"
  BY <1>1, <1>2 DEF Passes
<1> QED BY <1>1, <1>3, StopsAreUsual DEF Usual, Anew

(* A step with such an action has nothing else to say.                     *)
LEMMA StepWithDo ==
  ASSUME NEW e \in Steps, NEW what \in Calls \cup Asks \cup {"save", "clear", "notify", "read"},
         e.do = what
  PROVE  e = Call(what) /\ e = Ask(what)
BY DEF Steps, Call, Ask, Do, Calls, Asks

(* The answer to a question replaces the script.                           *)
LEMMA AnswerIs ==
  ASSUME SafeInv, ScriptIsTidy, NEW whom, NEW reply, Answered(whom, reply)
  PROVE  /\ todo # <<>> /\ todo[1].do = whom /\ todo[1] \in Elements(todo)
         /\ \E a \in DOMAIN reply : todo' = reply[a]
         /\ todo' # <<>> => /\ pass'.ctx # "none" /\ pass'.ctx \in {pass.ctx, "bare"}
                            /\ pass'.same = pass.same /\ pass'.still = pass.still
<1>1. todo # <<>> /\ todo[1].do = whom /\ pass.ctx # "none"
  BY DEF Answered, Doing, ScriptIsTidy
<1>2. todo \in Seq(Steps) /\ pass \in Passes
  BY PassTypes DEF SafeInv, TypeOK
<1>3. todo[1] \in Elements(todo)
  BY <1>1, <1>2, TailElements
<1>4. PICK a \in Answers \cap DOMAIN reply :
         Then(reply[a], IF a = "finished" THEN pass ELSE [pass EXCEPT !.ctx = "bare"])
  BY DEF Answered
<1>5. todo' = reply[a] /\ (todo' # <<>> => pass' \in {pass, [pass EXCEPT !.ctx = "bare"]})
  BY <1>4 DEF Then
<1>6. /\ [pass EXCEPT !.ctx = "bare"].ctx = "bare"
      /\ [pass EXCEPT !.ctx = "bare"].same = pass.same
      /\ [pass EXCEPT !.ctx = "bare"].still = pass.still
  BY <1>2 DEF Passes
<1>7. todo' # <<>> => /\ pass'.ctx # "none" /\ pass'.ctx \in {pass.ctx, "bare"}
                      /\ pass'.same = pass.same /\ pass'.still = pass.still
  <2>1. ASSUME todo' # <<>>, pass' = pass
        PROVE  /\ pass'.ctx # "none" /\ pass'.ctx \in {pass.ctx, "bare"}
               /\ pass'.same = pass.same /\ pass'.still = pass.still
    BY <1>1, <2>1
  <2>2. ASSUME todo' # <<>>, pass' = [pass EXCEPT !.ctx = "bare"]
        PROVE  /\ pass'.ctx # "none" /\ pass'.ctx \in {pass.ctx, "bare"}
               /\ pass'.same = pass.same /\ pass'.still = pass.still
    BY <1>6, <2>2
  <2> QED BY <1>5, <2>1, <2>2
<1> QED BY <1>1, <1>3, <1>4, <1>5, <1>7

(* What the planner begins.                                                *)
LEMMA PlanIs ==
  ASSUME SafeInv, ScriptIsTidy, PlanEnds \/ PlanRepeats \/ PlanSelects
  PROVE  /\ todo # <<>> /\ todo[1].do = "plan" /\ Unmoved
         /\ \/ Anew
            \/ todo' = <<Move("EXECUTING"), Ask("coder")>> /\ pass'.ctx = "execute"
<1>1. todo # <<>> /\ todo[1].do = "plan" /\ Unmoved /\ pass.ctx # "none" /\ pass \in Passes
  BY PassTypes DEF PlanEnds, PlanRepeats, PlanSelects, Answered, Doing, ScriptIsTidy, SafeInv
<1>2. CASE PlanEnds
  <2>1. Answered("plan", PlanReply)
    BY <1>2 DEF PlanEnds
  <2> QED BY <1>1, <2>1, AnswerIs, PlanAnswersAreCommon DEF Anew
<1>3. CASE PlanRepeats
  <2>1. Then(Emit("DEGRADED", "STALLED", TRUE), pass)
    BY <1>3 DEF PlanRepeats
  <2>2. todo' = Emit("DEGRADED", "STALLED", TRUE) /\ (todo' # <<>> => pass' = pass)
    BY <2>1 DEF Then
  <2> QED BY <1>1, <2>2, StopsAreUsual DEF Anew, Usual
<1>4. CASE PlanSelects
  <2>1. PICK a \in Answers \cap DOMAIN Selected :
           Then(Selected[a], [pass EXCEPT !.ctx = "execute", !.retry = a = "issue"])
    BY <1>4 DEF PlanSelects
  <2>2. todo' = Selected[a] /\ (todo' # <<>> => pass'.ctx = "execute")
    BY <1>1, <2>1 DEF Then, Passes
  <2>3. CASE CommonScript(Selected[a])
    BY <1>1, <2>2, <2>3 DEF Anew
  <2>4. CASE Selected[a] = <<Move("EXECUTING"), Ask("coder")>>
    BY <1>1, <2>2, <2>4
  <2> QED BY <2>1, <2>3, <2>4, PlanAnswersAreCommon
<1> QED BY <1>1, <1>2, <1>3, <1>4

(* What a pass begins with.                                                *)
LEMMA BeginIs ==
  ASSUME SafeInv, ScriptIsTidy, Cycle \/ Watch
  PROVE  /\ UNCHANGED <<store, github, policy, trouble, history>> /\ todo = <<>>
         /\ todo' \in CycleScripts \cup WatchScripts /\ todo' # <<>>
         /\ Cycle => todo' \in CycleScripts
         /\ Watch => todo' \in WatchScripts
         /\ \/ Anew
            \/ /\ todo' = ReadThen("REVIEWING", "review") /\ todo' = ActiveScript
               /\ ChecksGreen(active.pr) /\ ~ReviewReused
               /\ pass'.ctx = "bare" /\ pass'.same /\ pass'.still
<1>1. /\ pass = NoPass /\ UNCHANGED <<store, github, policy, trouble, history>>
      /\ todo' \in CycleScripts \cup WatchScripts /\ todo' # <<>>
      /\ Cycle => todo' \in CycleScripts
      /\ Watch => todo' \in WatchScripts
      /\ pass'.same /\ pass'.still /\ pass'.ctx \in {"bare", "execute"}
      /\ todo'[1] # Move("EXECUTING") => pass'.ctx = "bare"
  BY DEF Cycle, Watch, Begin
<1>2. todo = <<>>
  BY <1>1 DEF ScriptIsTidy, NoPass
<1>3. last \in LastEvents
  BY PassTypes DEF SafeInv
<1>4. todo' \in {VerifyScript, ActiveScript, PlanScript, NoContext,
                 Emit("BLOCKED", "ATTENTION_REQUIRED", last.same)}
  BY <1>1 DEF CycleScripts, WatchScripts
<1>5. CASE CommonScript(todo')
  BY <1>1, <1>2, <1>5 DEF Anew
<1>6. CASE /\ todo' = ActiveScript /\ ActiveScript = ReadThen("REVIEWING", "review")
           /\ ChecksGreen(active.pr) /\ ~ReviewReused
  <2>1. /\ ReadThen("REVIEWING", "review")[1] = Move("REVIEWING")
        /\ Move("REVIEWING").arg = "REVIEWING" /\ Move("EXECUTING").arg = "EXECUTING"
    BY DEF ReadThen, Move, Do
  <2>2. todo'[1].arg = "REVIEWING"
    BY <1>6, <2>1, Zenon
  <2>3. todo'[1] # Move("EXECUTING")
    BY <2>1, <2>2
  <2> QED BY <1>1, <1>2, <1>6, <2>3
<1> QED BY <1>1, <1>3, <1>4, <1>5, <1>6, VerifyIsUsual, ActiveIsUsual, PlansAreCommon DEF Usual

(* What other people and the checks do.                                    *)
Outside == \/ OtherNews \/ OutsiderLands \/ \E p \in PR : World(p)
           \/ \E c \in Commit : MainReports(c)

(* It leaves the script, and puts what was read out of date.               *)
LEMMA StayingIs ==
  ASSUME SafeInv, UNCHANGED vars \/ Outside
  PROVE  Staying
<1>1. CASE UNCHANGED vars
  BY <1>1 DEF vars, store, github, history, Staying, Open
<1>2. CASE Outside
  <2>1. Elsewhere
    BY <1>2 DEF Outside, OtherNews, OutsiderLands, World, ChecksReport, HoldChanges,
                OutsiderPushes, OwnerMerges, MainReports
  <2>2. last \in LastEvents /\ pass \in Passes /\ pr \in [PR -> Pull]
    BY PassTypes DEF SafeInv, TypeOK, Pull
  <2>3. /\ UNCHANGED <<todo, state, active>> /\ last'.st = last.st /\ pass'.ctx = pass.ctx
        /\ pass'.still = FALSE /\ waited' = "none"
    BY <2>1, <2>2 DEF Elsewhere, Stale, LastEvents, Passes
  <2>4. ASSUME NEW q \in PR, Open(q)' PROVE Open(q)
    <3>1. CASE UNCHANGED pr
      BY <2>4, <3>1 DEF Open
    <3>2. ASSUME NEW p \in PR, NEW r, pr' = [pr EXCEPT ![p] = r],
                 r.st \in {"draft", "ready"} => Open(p)
          PROVE  Open(q)
      BY <2>2, <2>4, <3>2 DEF Open
    <3>3. ASSUME NEW p \in PR, ChecksReport(p) PROVE Open(q)
      <4>1. PICK g \in {"held", "clean"} : pr' = [pr EXCEPT ![p] = [pr[p] EXCEPT !.gate = g]]
        BY <3>3 DEF ChecksReport, Becomes
      <4> QED BY <3>2, <3>3, <4>1 DEF ChecksReport, Tracked
    <3>4. ASSUME NEW p \in PR, HoldChanges(p) \/ OutsiderPushes(p) PROVE Open(q)
      <4>1. Open(p) /\ \E r : pr' = [pr EXCEPT ![p] = r]
        BY <3>4 DEF HoldChanges, OutsiderPushes, Becomes, Tracked
      <4> QED BY <3>2, <4>1
    <3>5. ASSUME NEW p \in PR, OwnerMerges(p) PROVE Open(q)
      <4>1. Open(p) /\ \E r : pr' = [pr EXCEPT ![p] = r]
        BY <3>5 DEF OwnerMerges, Becomes, Open
      <4> QED BY <3>2, <4>1
    <3>6. CASE OtherNews \/ OutsiderLands \/ \E c \in Commit : MainReports(c)
      BY <3>1, <3>6 DEF OtherNews, OutsiderLands, MainReports, github
    <3> QED BY <1>2, <3>3, <3>4, <3>5, <3>6 DEF World, Outside
  <2> QED BY <2>3, <2>4 DEF Staying
<1> QED BY <1>1, <1>2

(* The steps that raise, and those that answer a worker or a reviewer.     *)
Raising == Raise /\ (MoveRefused \/ PushRejected \/ CallFails \/ AskFails \/ Unsent)
Answering == CoderAnswers \/ RepairAnswers \/ ReviewAnswers \/ FinalAnswers

(* Scripts of planned work and of an approving review.                     *)
CoderScript == <<Move("EXECUTING"), Ask("coder")>>
ApprovedScripts == {<<Call("ready"), Ask("final")>>, <<Ask("final")>>}

(* A step goes on with the script, puts another in its place or leaves it. *)
LEMMA StepsAre ==
  ASSUME [Next]_vars
  PROVE  \/ Onward \/ Raising \/ Crash \/ IssueChanges \/ Answering \/ Cycle \/ Watch
         \/ PlanEnds \/ PlanRepeats \/ PlanSelects
         \/ UNCHANGED vars \/ Outside
BY DEF Next, PassStep, Onward, Raising, Answering, MoveRefused, PushRejected, CallFails, AskFails,
       Unsent, Outside

(* A script that ends is a common one.                                     *)
LEMMA EndIsAnew ==
  ASSUME todo' = <<>>
  PROVE  Anew
BY StopsAreUsual DEF Anew, Usual

(* The answers of coder, repairer and reviewers.                           *)
LEMMA AnsweringIs ==
  ASSUME SafeInv, ScriptIsTidy, Answering
  PROVE  /\ todo # <<>> /\ todo[1] \in Elements(todo) /\ Unmoved
         /\ CoderAnswers => todo[1].do = "coder"
         /\ RepairAnswers => todo[1].do = "repair"
         /\ ReviewAnswers => todo[1].do = "review"
         /\ FinalAnswers => todo[1].do = "final"
         /\ todo' # <<>> => /\ pass'.ctx # "none" /\ pass'.ctx \in {pass.ctx, "bare"}
                            /\ pass'.same = pass.same /\ pass'.still = pass.still
         /\ \/ Anew /\ Steady(todo')
            \/ CoderAnswers /\ todo' = CreateScript
            \/ ReviewAnswers /\ todo' \in ApprovedScripts
            \/ FinalAnswers /\ todo' \in {WaitScript, MergeScript}
<1>1. CASE CoderAnswers
  <2>1. Answered("coder", CoderReply) /\ Unmoved
    BY <1>1 DEF CoderAnswers
  <2>2. /\ todo # <<>> /\ todo[1].do = "coder" /\ todo[1] \in Elements(todo)
        /\ \E a \in DOMAIN CoderReply : todo' = CoderReply[a]
        /\ todo' # <<>> => /\ pass'.ctx # "none" /\ pass'.ctx \in {pass.ctx, "bare"}
                           /\ pass'.same = pass.same /\ pass'.still = pass.still
    BY <2>1, AnswerIs
  <2>3. ~RepairAnswers /\ ~ReviewAnswers /\ ~FinalAnswers
    BY <2>2 DEF RepairAnswers, ReviewAnswers, FinalAnswers, Answered, Doing
  <2> QED BY <1>1, <2>1, <2>2, <2>3, CoderAnswersAreUsual DEF Usual, Anew
<1>2. CASE RepairAnswers
  <2>1. Answered("repair", RepairReply) /\ Unmoved
    BY <1>2 DEF RepairAnswers
  <2>2. /\ todo # <<>> /\ todo[1].do = "repair" /\ todo[1] \in Elements(todo)
        /\ \E a \in DOMAIN RepairReply : todo' = RepairReply[a]
        /\ todo' # <<>> => /\ pass'.ctx # "none" /\ pass'.ctx \in {pass.ctx, "bare"}
                           /\ pass'.same = pass.same /\ pass'.still = pass.still
    BY <2>1, AnswerIs
  <2>3. ~CoderAnswers /\ ~ReviewAnswers /\ ~FinalAnswers
    BY <2>2 DEF CoderAnswers, ReviewAnswers, FinalAnswers, Answered, Doing
  <2> QED BY <1>2, <2>1, <2>2, <2>3, RepairAnswersAreUsual DEF Usual, Anew
<1>3. CASE ReviewAnswers
  <2>1. Answered("review", ReviewReply) /\ Unmoved
    BY <1>3 DEF ReviewAnswers
  <2>2. /\ todo # <<>> /\ todo[1].do = "review" /\ todo[1] \in Elements(todo)
        /\ \E a \in DOMAIN ReviewReply : todo' = ReviewReply[a]
        /\ todo' # <<>> => /\ pass'.ctx # "none" /\ pass'.ctx \in {pass.ctx, "bare"}
                           /\ pass'.same = pass.same /\ pass'.still = pass.still
    BY <2>1, AnswerIs
  <2>3. ~CoderAnswers /\ ~RepairAnswers /\ ~FinalAnswers
    BY <2>2 DEF CoderAnswers, RepairAnswers, FinalAnswers, Answered, Doing
  <2> QED BY <1>3, <2>1, <2>2, <2>3, ReviewAnswersAre DEF Usual, Anew, ApprovedScripts
<1>4. CASE FinalAnswers
  <2>1. Answered("final", FinalReply) /\ Unmoved
    BY <1>4 DEF FinalAnswers
  <2>2. /\ todo # <<>> /\ todo[1].do = "final" /\ todo[1] \in Elements(todo)
        /\ \E a \in DOMAIN FinalReply : todo' = FinalReply[a]
        /\ todo' # <<>> => /\ pass'.ctx # "none" /\ pass'.ctx \in {pass.ctx, "bare"}
                           /\ pass'.same = pass.same /\ pass'.still = pass.still
    BY <2>1, AnswerIs
  <2>3. ~CoderAnswers /\ ~RepairAnswers /\ ~ReviewAnswers
    BY <2>2 DEF CoderAnswers, RepairAnswers, ReviewAnswers, Answered, Doing
  <2> QED BY <1>4, <2>1, <2>2, <2>3, ReviewAnswersAre DEF Usual, Anew
<1> QED BY <1>1, <1>2, <1>3, <1>4 DEF Answering

(* What a step that does not go on with the script makes of it.            *)
LEMMA ElseIs ==
  ASSUME SafeInv, ScriptIsTidy, [Next]_vars, ~Onward
  PROVE  \/ Staying
         \/ Anew
         \/ todo' = CoderScript /\ pass'.ctx = "execute"
         \/ /\ Answering /\ (todo' # <<>> => pass'.ctx # "none")
            /\ \/ CoderAnswers /\ todo' = CreateScript
               \/ ReviewAnswers /\ todo' \in ApprovedScripts
               \/ FinalAnswers /\ todo' \in {WaitScript, MergeScript}
         \/ /\ Cycle \/ Watch
            /\ todo' = ReadThen("REVIEWING", "review") /\ todo' = ActiveScript
            /\ ChecksGreen(active.pr) /\ ~ReviewReused
            /\ pass'.ctx = "bare" /\ pass'.same /\ pass'.still
<1>1. CASE Raising
  BY <1>1, RaiseIs DEF Raising
<1>2. CASE Crash
  BY <1>2, EndIsAnew DEF Crash, Then
<1>3. CASE IssueChanges
  <2>1. todo # <<>> /\ Fact(IssueReply.changed, pass) /\ pass \in Passes /\ pass.ctx # "none"
    BY <1>3, PassTypes DEF IssueChanges, Doing, SafeInv, ScriptIsTidy
  <2>2. IssueReply.changed \in Seq(Steps) /\ CommonScript(IssueReply.changed)
    BY StopsAreUsual DEF Usual, CommonScript
  <2>3. todo' = IssueReply.changed /\ (todo' # <<>> => pass'.ctx = pass.ctx)
    BY <2>1, <2>2, FactKeeps DEF SafeInv
  <2> QED BY <2>1, <2>2, <2>3 DEF Anew
<1>4. CASE Answering
  BY <1>4, AnsweringIs
<1>5. CASE Cycle \/ Watch
  BY <1>5, BeginIs
<1>6. CASE PlanEnds \/ PlanRepeats \/ PlanSelects
  BY <1>6, PlanIs DEF CoderScript
<1>7. CASE UNCHANGED vars \/ Outside
  BY <1>7, StayingIs
<1> QED BY <1>1, <1>2, <1>3, <1>4, <1>5, <1>6, <1>7, StepsAre

(* The special scripts are tidy.                                           *)
LEMMA SpecialScripts ==
  /\ CoderScript \in Seq(Steps) /\ CoderScript # <<>> /\ CoderScript[1] = Move("EXECUTING")
  /\ Tail(CoderScript) = <<Ask("coder")>> /\ Elements(CoderScript) = {Move("EXECUTING"), Ask("coder")}
  /\ Tidy(CoderScript)
  /\ \A s \in ApprovedScripts \cup {ReadThen("REVIEWING", "review")} :
        /\ s \in Seq(Steps) /\ s # <<>> /\ Elements(s) \subseteq JudgeSteps
        /\ Tidy(s) /\ Steady(s) /\ s[1].do # "event"
<1>1. /\ CoderScript \in Seq(Steps) /\ CoderScript # <<>> /\ CoderScript[1] = Move("EXECUTING")
      /\ Tail(CoderScript) = <<Ask("coder")>> /\ Elements(CoderScript) = {Move("EXECUTING"), Ask("coder")}
  <2>1. Move("EXECUTING") \in Steps /\ Ask("coder") \in Steps
    BY StepTypes DEF Plain, RunStates
  <2> QED BY <2>1 DEF CoderScript, Elements
<1>2. Tidy(CoderScript)
  <2>1. \A e \in Elements(CoderScript) : e.do # "event"
    BY <1>1, StepDo
  <2> QED BY <1>1, <2>1, ShortScripts
<1>3. ASSUME NEW s \in ApprovedScripts \cup {ReadThen("REVIEWING", "review")}
      PROVE  /\ s \in Seq(Steps) /\ s # <<>> /\ Elements(s) \subseteq JudgeSteps
             /\ Tidy(s) /\ Steady(s) /\ s[1].do # "event"
  <2>1. CASE s = ReadThen("REVIEWING", "review")
    <3>1. s \in Seq(Steps) /\ s # <<>> /\ Elements(s) \subseteq JudgeSteps
      BY <2>1, ReadThenSteps DEF JudgeSteps
    <3>2. s[1] = Move("REVIEWING")
      BY <2>1 DEF ReadThen
    <3>3. s[1].do # "event"
      BY <3>2, StepDo
    <3> QED BY <3>1, <3>3, JudgingIsSteady
  <2>2. CASE s \in ApprovedScripts
    <3>0. s = <<Call("ready"), Ask("final")>> \/ s = <<Ask("final")>>
      BY <2>2 DEF ApprovedScripts
    <3>1. s \in Seq(Steps) /\ s # <<>> /\ Elements(s) \subseteq JudgeSteps
      <4>1. ASSUME s = <<Call("ready"), Ask("final")>>
            PROVE  s \in Seq(Steps) /\ s # <<>> /\ Elements(s) = {Call("ready"), Ask("final")}
        BY <4>1, JudgeScripts
      <4>2. ASSUME s = <<Ask("final")>>
            PROVE  s \in Seq(Steps) /\ s # <<>> /\ Elements(s) = {Ask("final")}
        BY <4>2, JudgeScripts
      <4> QED BY <3>0, <4>1, <4>2 DEF JudgeSteps
    <3>2. s[1] = Call("ready") \/ s[1] = Ask("final")
      BY <2>2 DEF ApprovedScripts
    <3>3. s[1].do # "event"
      BY <3>2, StepDo
    <3> QED BY <3>1, <3>3, JudgingIsSteady
  <2> QED BY <2>1, <2>2
<1> QED BY <1>1, <1>2, <1>3

(* Every step keeps the scripts tidy.                                      *)
LEMMA StepIsTidy ==
  ASSUME SafeInv, ScriptIsTidy, [Next]_vars
  PROVE  ScriptIsTidy'
<1>1. CASE Onward
  <2>1. /\ todo \in Seq(Steps) /\ todo # <<>> /\ todo' = Tail(todo) /\ Tidy(todo)
        /\ pass.ctx # "none" /\ (todo' # <<>> => pass'.ctx = pass.ctx)
    BY <1>1, OnwardIs DEF ScriptIsTidy
  <2>2. /\ Tidy(Tail(todo))
        /\ Tail(todo) # <<>> /\ Tail(todo)[1].do = "event" => todo[1] = Move(Tail(todo)[1].arg)
    BY <2>1, RestIsTidy
  <2>3. ASSUME todo' # <<>>, todo'[1].do = "event" PROVE state' = todo'[1].arg
    <3>1. todo[1] = Move(todo'[1].arg)
      BY <2>1, <2>2, <2>3
    <3>2. todo[1].do = "move" /\ todo[1].arg = todo'[1].arg
      BY <3>1, StepDo
    <3>3. DoMove
      BY <1>1, <3>2 DEF Onward, RecordEvent, Sent, WriteActive, CreatePR, Push, MarkReady, Comment,
                        Merge, ReadPR, ReadMainHead, Doing
    <3> QED BY <3>2, <3>3 DEF DoMove
  <2>4. Tidy(todo)'
    BY <2>1, <2>2 DEF Tidy
  <2> QED BY <2>1, <2>3, <2>4 DEF ScriptIsTidy
<1>2. CASE Staying
  <2>1. Tidy(todo)'
    BY <1>2 DEF Staying, ScriptIsTidy, Tidy
  <2> QED BY <1>2, <2>1 DEF Staying, ScriptIsTidy
<1>3. ASSUME Tidy(todo'), todo' # <<>> => pass'.ctx # "none" /\ todo'[1].do # "event"
      PROVE  ScriptIsTidy'
  <2>1. Tidy(todo)'
    BY <1>3 DEF Tidy
  <2> QED BY <1>3, <2>1 DEF ScriptIsTidy
<1>4. CASE Anew
  BY <1>3, <1>4 DEF Anew, CommonScript
<1>5. CASE todo' = CoderScript /\ pass'.ctx = "execute"
  <2>1. CoderScript[1].do # "event"
    BY SpecialScripts, StepDo
  <2> QED BY <1>3, <1>5, <2>1, SpecialScripts
<1>6. CASE todo' = CreateScript /\ (todo' # <<>> => pass'.ctx # "none")
  <2>1. CreateScript[1].do # "event"
    BY CreateSteps, StepDo
  <2> QED BY <1>3, <1>6, <2>1, CreateSteps
<1>7. CASE todo' \in ApprovedScripts \cup {ReadThen("REVIEWING", "review")} /\ pass'.ctx # "none"
  BY <1>3, <1>7, SpecialScripts
<1>8. CASE todo' \in {WaitScript, MergeScript} /\ (todo' # <<>> => pass'.ctx # "none")
  BY <1>3, <1>8, WaitScriptIsSteady, MergeScriptIsSteady
<1> QED BY <1>1, <1>2, <1>4, <1>5, <1>6, <1>7, <1>8, ElseIs, SpecialScripts

----------------------------------------------------------------------------
(* A reviewer is asked, and what the review waits for noted, in passes of  *)
(* their own: what such a pass read is as it was unless something happened.*)
Asked(s) == \E e \in Elements(s) : e.do \in {"review", "final"}
Waits(s) == \E e \in Elements(s) : e.kind = "REVIEW_WAITING"
AsRead == /\ pass.ctx = "bare" /\ active # NoWork
          /\ pass.still => pass.same /\ ChecksGreen(active.pr)
ReviewFits ==
  /\ Asked(todo) => Elements(todo) \subseteq JudgeSteps /\ AsRead
  /\ Waits(todo) => /\ Elements(todo) \subseteq WaitSteps /\ AsRead
                    /\ Mark("pr_open") \in Elements(todo) \/ active.status = "pr_open"

(* Once a review waits and nothing has happened since, the store says that *)
(* it can be reused.                                                       *)
WaitFits ==
  waited = "REVIEW_WAITING" =>
     /\ Elements(todo) \subseteq {Call("notify")}
     /\ todo # <<>> => pass.ctx = "bare"
     /\ last.kind = "REVIEW_WAITING" /\ last.st = "PR_OPEN" /\ last.same
     /\ active.status = "pr_open" /\ ChecksGreen(active.pr)
     /\ state \in {"PR_OPEN", "DEGRADED"}

ReuseInv == SafeInv /\ ScriptIsTidy /\ ReviewFits /\ WaitFits

(* Scripts in which no reviewer is asked and no review waits.              *)
LEMMA CommonAsksNobody ==
  /\ \A s : Elements(s) \subseteq Common => ~Asked(s) /\ ~Waits(s)
  /\ \A s : Elements(s) \subseteq JudgeSteps => ~Waits(s)
  /\ \A s : Elements(s) \subseteq WaitSteps => ~Asked(s)
  /\ ~Asked(CoderScript) /\ ~Waits(CoderScript)
  /\ ~Asked(CreateScript) /\ ~Waits(CreateScript)
  /\ ~Asked(MergeScript) /\ ~Waits(MergeScript)
<1>1. /\ \A what : Call(what).do = what /\ Call(what).kind = ""
      /\ \A whom : Ask(whom).do = whom /\ Ask(whom).kind = ""
      /\ \A to : Move(to).do = "move" /\ Move(to).kind = ""
      /\ \A status : Mark(status).do = "mark"
      /\ WaitEvent.do = "event"
  BY DEF Call, Ask, Move, Mark, Do, WaitEvent
<1>2. \A e \in Common : e.do \notin {"review", "final"} /\ e.kind # "REVIEW_WAITING"
  BY DEF Common
<1>3. \A e \in JudgeSteps : e.kind # "REVIEW_WAITING"
  BY <1>1 DEF JudgeSteps
<1>4. \A e \in WaitSteps : e.do \notin {"review", "final"}
  BY <1>1 DEF WaitSteps
<1>5. \A e \in Elements(CoderScript) : e.do \notin {"review", "final"} /\ e.kind # "REVIEW_WAITING"
  <2>1. Elements(CoderScript) = {Move("EXECUTING"), Ask("coder")}
    BY SpecialScripts
  <2>2. /\ Move("EXECUTING").do = "move" /\ Move("EXECUTING").kind = ""
        /\ Ask("coder").do = "coder" /\ Ask("coder").kind = ""
    BY <1>1
  <2> QED BY <2>1, <2>2
<1>6. \A e \in Elements(CreateScript) : e.do \notin {"review", "final"} /\ e.kind # "REVIEW_WAITING"
  <2>1. Elements(CreateScript) = {Call("create"), Call("save")} \cup Elements(OpenedScript)
    BY CreateSteps
  <2>2. Elements(OpenedScript) \subseteq Common
    BY CreateSteps
  <2>3. /\ Call("create").do = "create" /\ Call("create").kind = ""
        /\ Call("save").do = "save" /\ Call("save").kind = ""
    BY <1>1
  <2>4. \A e \in Elements(OpenedScript) :
           e.do \notin {"review", "final"} /\ e.kind # "REVIEW_WAITING"
    BY <1>2, <2>2
  <2>5. ASSUME NEW e \in Elements(CreateScript)
        PROVE  e.do \notin {"review", "final"} /\ e.kind # "REVIEW_WAITING"
    <3>1. e = Call("create") \/ e = Call("save") \/ e \in Elements(OpenedScript)
      BY <2>1
    <3> QED BY <2>3, <2>4, <3>1
  <2> QED BY <2>5
<1> QED BY <1>2, <1>3, <1>4, <1>5, <1>6, MergeScriptIsSteady DEF Asked, Waits

(* Going on with a script in which a reviewer is asked,                    *)
LEMMA OnwardKeepsAsked ==
  ASSUME ReuseInv, Onward, Asked(todo')
  PROVE  Elements(todo') \subseteq JudgeSteps /\ AsRead'
<1>1. /\ todo # <<>> /\ todo' = Tail(todo) /\ Elements(todo) = {todo[1]} \cup Elements(todo')
      /\ todo' # <<>> /\ pass'.ctx = pass.ctx /\ pass \in Passes
  <2>1. todo' # <<>>
    BY NoElements DEF Asked
  <2> QED BY <2>1, OnwardIs, PassTypes DEF ReuseInv, SafeInv
<1>2. Elements(todo) \subseteq JudgeSteps /\ AsRead
  BY <1>1 DEF Asked, ReuseInv, ReviewFits
<1>3. todo[1].do \in {"move", "read", "review", "ready", "final"}
  <2>1. /\ Move("REVIEWING").do = "move" /\ Call("read").do = "read" /\ Ask("review").do = "review"
        /\ Call("ready").do = "ready" /\ Ask("final").do = "final"
    BY StepDo
  <2>2. todo[1] \in JudgeSteps
    BY <1>1, <1>2
  <2> QED BY <2>1, <2>2 DEF JudgeSteps
<1>4. DoMove \/ ReadPR \/ MarkReady
  BY <1>3 DEF Onward, RecordEvent, Sent, WriteActive, CreatePR, Push, Comment, Merge, ReadMainHead,
              Doing
<1>5. /\ active' = active
      /\ pass'.still => pass'.same = pass.same /\ pass.still /\ pr' = pr
  <2>1. CASE DoMove
    BY <1>1, <2>1 DEF DoMove, Done, Then, github
  <2>2. CASE ReadPR
    BY <1>1, <2>2 DEF ReadPR, Then, Passes, store, github
  <2>3. CASE MarkReady
    BY <1>1, <2>3 DEF MarkReady, Fact, Then, Stale, Passes
  <2> QED BY <1>4, <2>1, <2>2, <2>3
<1> QED BY <1>1, <1>2, <1>5 DEF AsRead, ChecksGreen

(* and with one in which a review waits.                                   *)
LEMMA OnwardKeepsWaits ==
  ASSUME ReuseInv, Onward, Waits(todo')
  PROVE  /\ Elements(todo') \subseteq WaitSteps /\ AsRead'
         /\ Mark("pr_open") \in Elements(todo') \/ active'.status = "pr_open"
<1>1. /\ todo # <<>> /\ todo' = Tail(todo) /\ Elements(todo) = {todo[1]} \cup Elements(todo')
      /\ todo' # <<>> /\ pass'.ctx = pass.ctx /\ pass \in Passes /\ todo \in Seq(Steps)
  <2>1. todo' # <<>>
    BY NoElements DEF Waits
  <2> QED BY <2>1, OnwardIs, PassTypes DEF ReuseInv, SafeInv
<1>2. /\ Elements(todo) \subseteq WaitSteps /\ AsRead
      /\ Mark("pr_open") \in Elements(todo) \/ active.status = "pr_open"
  BY <1>1 DEF Waits, ReuseInv, ReviewFits
<1>3. /\ todo[1] \in {Move("PR_OPEN"), Mark("pr_open"), Call("notify")}
      /\ todo[1] # Mark("pr_open") => todo[1].do \in {"move", "notify"}
      /\ todo[1] = Mark("pr_open") => todo[1].do = "mark" /\ todo[1].arg = "pr_open"
  <2>1. todo[1].do # "event"
    <3>1. SUFFICES ASSUME todo[1].do = "event" PROVE FALSE
      OBVIOUS
    <3>2. todo' = <<Call("notify")>>
      BY <1>1, <3>1, RestIsTidy DEF ReuseInv, ScriptIsTidy
    <3>3. Elements(<<Call("notify")>>) = {Call("notify")}
      BY DEF Elements
    <3>4. Call("notify").kind = ""
      BY DEF Call, Do
    <3> QED BY <3>2, <3>3, <3>4 DEF Waits
  <2>2. WaitEvent.do = "event"
    BY DEF WaitEvent, Do
  <2>3. /\ Move("PR_OPEN").do = "move" /\ Call("notify").do = "notify"
        /\ Mark("pr_open").do = "mark" /\ Mark("pr_open").arg = "pr_open"
    BY StepDo
  <2>4. todo[1] \in WaitSteps \ {WaitEvent}
    BY <1>1, <1>2, <2>1, <2>2
  <2> QED BY <2>3, <2>4 DEF WaitSteps
<1>4. CASE todo[1] # Mark("pr_open")
  <2>1. DoMove \/ Sent
    BY <1>3, <1>4 DEF Onward, RecordEvent, WriteActive, CreatePR, Push, Comment, Merge, ReadPR,
                      MarkReady, ReadMainHead, Doing
  <2>2. active' = active /\ pass' = pass /\ pr' = pr
    BY <1>1, <2>1 DEF DoMove, Sent, Done, Then, github, store
  <2> QED BY <1>1, <1>2, <1>4, <2>2 DEF AsRead, ChecksGreen
<1>5. CASE todo[1] = Mark("pr_open")
  <2>1. WriteActive /\ Doing("mark")
    BY <1>3, <1>5 DEF Onward, DoMove, RecordEvent, Sent, WriteActive, CreatePR, Push, Comment, Merge,
                      ReadPR, MarkReady, ReadMainHead, Doing
  <2>2. active' = [active EXCEPT !.status = "pr_open"] /\ pass' = pass /\ pr' = pr
    BY <1>1, <1>2, <1>3, <1>5, <2>1 DEF WriteActive, Doing, Marked, Done, Then, github, AsRead
  <2>3. active'.status = "pr_open" /\ active'.pr = active.pr /\ active' # NoWork
    BY <2>2 DEF ReuseInv, SafeInv, TypeOK, NoWork
  <2> QED BY <1>1, <1>2, <2>2, <2>3 DEF AsRead, ChecksGreen
<1> QED BY <1>4, <1>5

(* Every step keeps what reviews rely on.                                  *)
LEMMA StepFitsReviews ==
  ASSUME ReuseInv, [Next]_vars
  PROVE  ReviewFits'
<1>1. SUFFICES ASSUME Asked(todo') \/ Waits(todo')
               PROVE  /\ Asked(todo') => Elements(todo') \subseteq JudgeSteps /\ AsRead'
                      /\ Waits(todo') =>
                            /\ Elements(todo') \subseteq WaitSteps /\ AsRead'
                            /\ Mark("pr_open") \in Elements(todo') \/ active'.status = "pr_open"
  BY DEF ReviewFits, Asked, Waits, Elements
<1>2. CASE Onward
  BY <1>2, OnwardKeepsAsked, OnwardKeepsWaits
<1>3. CASE Staying
  <2>1. Asked(todo) \/ Waits(todo)
    BY <1>1, <1>3 DEF Staying
  <2>2. AsRead'
    BY <1>3, <2>1 DEF ReuseInv, ReviewFits, AsRead, Staying, ChecksGreen
  <2> QED BY <1>3, <2>2 DEF Staying, ReuseInv, ReviewFits
<1>4. CASE Anew
  BY <1>1, <1>4, CommonAsksNobody DEF Anew, CommonScript
<1>5. CASE todo' \in {CoderScript, CreateScript, MergeScript}
  BY <1>1, <1>5, CommonAsksNobody
<1>6. CASE \/ ReviewAnswers /\ todo' \in ApprovedScripts
           \/ FinalAnswers /\ todo' = WaitScript
  <2>1. /\ todo # <<>> /\ todo[1] \in Elements(todo) /\ Unmoved
        /\ todo[1].do \in {"review", "final"}
        /\ todo' # <<>> => /\ pass'.ctx # "none" /\ pass'.ctx \in {pass.ctx, "bare"}
                           /\ pass'.same = pass.same /\ pass'.still = pass.still
    BY <1>6, AnsweringIs DEF Answering, ReuseInv
  <2>2. AsRead
    BY <2>1 DEF ReuseInv, ReviewFits, Asked
  <2>3. todo' # <<>>
    BY <1>6, SpecialScripts, WaitScriptIsSteady
  <2>4. AsRead'
    BY <2>1, <2>2, <2>3 DEF AsRead, Unmoved, store, github, ChecksGreen
  <2>5. CASE todo' \in ApprovedScripts
    <3>1. Elements(todo') \subseteq JudgeSteps
      BY <2>5, SpecialScripts
    <3> QED BY <2>4, <3>1, CommonAsksNobody
  <2>6. CASE todo' = WaitScript
    <3>1. Elements(todo') = WaitSteps
      BY <2>6, WaitScriptIsSteady
    <3>2. Elements(todo') \subseteq WaitSteps /\ Mark("pr_open") \in Elements(todo')
      BY <3>1 DEF WaitSteps
    <3> QED BY <2>4, <3>2, CommonAsksNobody
  <2> QED BY <1>6, <2>5, <2>6
<1>7. CASE /\ Cycle \/ Watch
           /\ todo' = ReadThen("REVIEWING", "review")
           /\ ChecksGreen(active.pr)
           /\ pass'.ctx = "bare" /\ pass'.same /\ pass'.still
  <2>1. UNCHANGED <<store, github>> /\ todo' \in CycleScripts \cup WatchScripts
    BY <1>7, BeginIs DEF ReuseInv
  <2>2. active # NoWork
    <3>1. todo'[1] = Move("REVIEWING") /\ Ask("review") \in Elements(todo')
      <4>1. ReadThen("REVIEWING", "review")[1] = Move("REVIEWING")
        BY DEF ReadThen
      <4>2. Ask("review") \in Elements(ReadThen("REVIEWING", "review"))
        BY ReadThenSteps
      <4> QED BY <1>7, <4>1, <4>2, Zenon
    <3>2. ~PlainScript(todo')
      <4>1. Ask("review").do = "review"
        BY StepDo
      <4> QED BY <3>1, <4>1 DEF PlainScript, Plain
    <3>3. \A to \in {"READY", "DEGRADED", "REPAIRING"} : todo'[1] # Move(to)
      <4>1. \A to : Move(to).arg = to
        BY StepDo
      <4> QED BY <3>1, <4>1
    <3>4. /\ todo' # Emit("READY", "POST_MERGE_VERIFIED", TRUE)
          /\ todo' # Emit("DEGRADED", "POST_MERGE_FAILED", TRUE)
          /\ todo' # ReadThen("REPAIRING", "repair")
      <4>1. ReadThen("REPAIRING", "repair")[1] = Move("REPAIRING")
        BY DEF ReadThen
      <4> QED BY <3>3, <4>1, EmitParts
    <3> QED BY <2>1, <3>2, <3>4, BeginScripts DEF ReuseInv, SafeInv
  <2>3. AsRead'
    BY <1>7, <2>1, <2>2 DEF AsRead, store, github, ChecksGreen
  <2>4. Elements(todo') \subseteq JudgeSteps
    BY <1>7, SpecialScripts
  <2> QED BY <2>3, <2>4, CommonAsksNobody
<1>8. ASSUME ~Onward
      PROVE  \/ Staying
             \/ Anew
             \/ todo' \in {CoderScript, CreateScript, MergeScript}
             \/ ReviewAnswers /\ todo' \in ApprovedScripts
             \/ FinalAnswers /\ todo' = WaitScript
             \/ /\ Cycle \/ Watch
                /\ todo' = ReadThen("REVIEWING", "review")
                /\ ChecksGreen(active.pr)
                /\ pass'.ctx = "bare" /\ pass'.same /\ pass'.still
  BY <1>8, ElseIs DEF ReuseInv
<1> QED BY <1>2, <1>3, <1>4, <1>5, <1>6, <1>7, <1>8

(* A review that is noted to wait leaves everything as the store says.     *)
LEMMA NotingWaits ==
  ASSUME ReuseInv, Onward, waited' = "REVIEW_WAITING", waited # "REVIEW_WAITING"
  PROVE  WaitFits'
<1>1. RecordEvent /\ todo[1].kind = "REVIEW_WAITING" /\ pass.still
  BY DEF Onward, DoMove, RecordEvent, Sent, WriteActive, CreatePR, Push, Comment, Merge,
         ReadPR, MarkReady, ReadMainHead, Fact, history
<1>2. /\ todo # <<>> /\ todo' = Tail(todo) /\ Elements(todo) = {todo[1]} \cup Elements(todo')
      /\ todo' # <<>> => pass'.ctx = pass.ctx
      /\ todo \in Seq(Steps) /\ todo[1].do = "event"
  BY <1>1, OnwardIs DEF ReuseInv, RecordEvent, Doing
<1>3. /\ Elements(todo) \subseteq WaitSteps /\ AsRead
      /\ Mark("pr_open") \in Elements(todo) \/ active.status = "pr_open"
  BY <1>1, <1>2 DEF Waits, ReuseInv, ReviewFits
<1>4. todo' = <<Call("notify")>> /\ Elements(todo') = {Call("notify")}
  <2>1. Elements(<<Call("notify")>>) = {Call("notify")}
    BY DEF Elements
  <2> QED BY <1>2, <2>1, RestIsTidy DEF ReuseInv, ScriptIsTidy
<1>5. todo[1] = WaitEvent
  <2>1. todo[1] \in WaitSteps
    BY <1>2, <1>3
  <2>2. Move("PR_OPEN").do = "move" /\ Mark("pr_open").do = "mark" /\ Call("notify").do = "notify"
    BY StepDo
  <2> QED BY <1>2, <2>1, <2>2 DEF WaitSteps
<1>6. /\ WaitEvent.arg = "PR_OPEN" /\ WaitEvent.kind = "REVIEW_WAITING" /\ WaitEvent.keyed = TRUE
      /\ WaitEvent.do = "event" /\ Mark("pr_open").do = "mark" /\ Call("notify").do = "notify"
  BY DEF WaitEvent, Mark, Call, Do
<1>7. state = "PR_OPEN" /\ active.status = "pr_open" /\ pass.same
  <2>1. Mark("pr_open") # WaitEvent /\ Mark("pr_open") # Call("notify")
    BY <1>6
  <2> QED BY <1>1, <1>2, <1>3, <1>4, <1>5, <1>6, <2>1 DEF ReuseInv, ScriptIsTidy, AsRead
<1>8. /\ last'.kind = "REVIEW_WAITING" /\ last'.st = "PR_OPEN" /\ last'.same
      /\ UNCHANGED <<state, active, pr>>
  BY <1>1, <1>5, <1>6, <1>7 DEF RecordEvent, github
<1>9. pass'.ctx = "bare"
  BY <1>2, <1>3, <1>4 DEF AsRead
<1> QED BY <1>1, <1>3, <1>4, <1>7, <1>8, <1>9 DEF WaitFits, AsRead, ChecksGreen, Elements

(* No pass begins then.                                                    *)
LEMMA NoPassWhileWaiting ==
  ASSUME ReuseInv, waited = "REVIEW_WAITING"
  PROVE  ~Cycle /\ ~Watch
<1>1. /\ last.kind = "REVIEW_WAITING" /\ last.st = "PR_OPEN" /\ last.same
      /\ active.status = "pr_open" /\ ChecksGreen(active.pr)
      /\ state \in {"PR_OPEN", "DEGRADED"}
  BY DEF ReuseInv, WaitFits
<1>2. ActiveScript = <<>>
  BY <1>1 DEF ActiveScript, ReviewReused
<1>3. active # NoWork
  BY <1>1 DEF NoWork
<1>4. CycleScripts = {ActiveScript}
  BY <1>1, <1>3 DEF CycleScripts, Effective, InDelivery
<1>5. WatchScripts \subseteq {ActiveScript}
  BY <1>1, <1>3 DEF WatchScripts, InDelivery
<1> QED BY <1>2, <1>4, <1>5 DEF Cycle, Watch, Begin

(* Every step keeps what a waiting review relies on.                       *)
LEMMA StepFitsWaiting ==
  ASSUME ReuseInv, [Next]_vars
  PROVE  WaitFits'
<1>1. CASE Onward /\ waited # "REVIEW_WAITING"
  BY <1>1, NotingWaits DEF WaitFits
<1> DEFINE Waiting == /\ Elements(todo) \subseteq {Call("notify")}
                      /\ todo # <<>> => pass.ctx = "bare"
                      /\ last.kind = "REVIEW_WAITING" /\ last.st = "PR_OPEN" /\ last.same
                      /\ active.status = "pr_open" /\ ChecksGreen(active.pr)
                      /\ state \in {"PR_OPEN", "DEGRADED"}
<1>2. waited = "REVIEW_WAITING" => Waiting
  BY DEF ReuseInv, WaitFits
<1>3. SUFFICES ASSUME waited' = "REVIEW_WAITING", ~(Onward /\ waited # "REVIEW_WAITING")
               PROVE  Waiting'
  BY <1>1 DEF WaitFits
<1>4. waited = "REVIEW_WAITING"
  <2>1. CASE Raising \/ Crash \/ IssueChanges \/ Answering \/ Cycle \/ Watch
             \/ PlanEnds \/ PlanRepeats \/ PlanSelects
    BY <1>3, <2>1
       DEF Raising, MoveRefused, PushRejected, CallFails, AskFails, Unsent, Crash, IssueChanges,
           Answering, CoderAnswers, RepairAnswers, ReviewAnswers, FinalAnswers, Cycle, Watch, Begin,
           PlanEnds, PlanRepeats, PlanSelects, Unmoved, Fact, history
  <2>2. CASE UNCHANGED vars \/ Outside
    BY <1>3, <2>2, StayingIs DEF Staying, ReuseInv
  <2> QED BY <1>3, <2>1, <2>2, StepsAre
<1>5. Waiting /\ todo \in Seq(Steps) /\ pass \in Passes
  BY <1>2, <1>4, PassTypes DEF ReuseInv, SafeInv, TypeOK
<1>6. todo # <<>> => todo[1].do = "notify"
  <2>1. todo # <<>> => todo[1] = Call("notify")
    BY <1>5, TailElements
  <2>2. Call("notify").do = "notify"
    BY StepDo
  <2> QED BY <2>1, <2>2
<1>7. CASE Onward
  <2>1. /\ todo # <<>> /\ todo' = Tail(todo) /\ Elements(todo) = {todo[1]} \cup Elements(todo')
        /\ todo' # <<>> => pass'.ctx = pass.ctx
    BY <1>7, OnwardIs DEF ReuseInv
  <2>2. Sent
    BY <1>6, <1>7, <2>1 DEF Onward, DoMove, RecordEvent, WriteActive, CreatePR, Push, Comment, Merge,
                            ReadPR, MarkReady, ReadMainHead, Doing
  <2>3. UNCHANGED <<state, last, active, pr>>
    BY <2>2 DEF Sent, store, github
  <2>4. Elements(todo') \subseteq {Call("notify")} /\ (todo' # <<>> => pass'.ctx = "bare")
    BY <1>5, <2>1
  <2> QED BY <1>5, <2>3, <2>4 DEF ChecksGreen, Elements
<1>8. CASE Raising \/ Crash
  <2>1. todo # <<>> => Unsent \/ Crash
    BY <1>6, <1>8 DEF Raising, MoveRefused, PushRejected, CallFails, AskFails, Unsent, Doing, Calls,
                      Asks
  <2>2. todo' = <<>>
    <3>1. CASE Crash
      BY <3>1 DEF Crash, Then
    <3>2. CASE Raising
      <4>1. todo # <<>>
        BY <3>2 DEF Raising, MoveRefused, PushRejected, CallFails, AskFails, Unsent, Doing
      <4>2. pass.ctx # "execute"
        BY <1>5, <4>1
      <4> QED BY <3>2, <4>2, RaiseIs DEF Raising, ReuseInv
    <3> QED BY <1>8, <3>1, <3>2
  <2>3. UNCHANGED <<last, active, pr>> /\ state' \in {state, "DEGRADED"}
    BY <1>8 DEF Raising, MoveRefused, PushRejected, CallFails, AskFails, Unsent, Crash, Unmoved,
                store, github
  <2>4. Elements(todo') \subseteq {Call("notify")}
    BY <2>2, NoElements
  <2> QED BY <1>5, <2>2, <2>3, <2>4 DEF ChecksGreen, Elements
<1>9. ~IssueChanges /\ ~Answering /\ ~PlanEnds /\ ~PlanRepeats /\ ~PlanSelects
  BY <1>6 DEF IssueChanges, Answering, CoderAnswers, RepairAnswers, ReviewAnswers, FinalAnswers,
              PlanEnds, PlanRepeats, PlanSelects, Answered, Doing
<1>10. ~Cycle /\ ~Watch
  BY <1>4, NoPassWhileWaiting
<1>11. CASE UNCHANGED vars \/ Outside
  <2>1. UNCHANGED <<todo, state, active, pr, last>> /\ pass' = pass
    BY <1>3, <1>11, StayingIs DEF Staying, ReuseInv
  <2> QED BY <1>5, <2>1 DEF ChecksGreen, Elements
<1> QED BY <1>7, <1>8, <1>9, <1>10, <1>11, StepsAre

(* The invariant behind the reuse of reviews.                              *)
THEOREM ReviewsFit == Spec => []ReuseInv
<1>1. Init => ReuseInv
  <2>1. Init => SafeInv
    BY InitSafe
  <2>2. ASSUME Init PROVE ScriptIsTidy /\ ReviewFits /\ WaitFits
    <3>1. todo = <<>> /\ Elements(todo) = {} /\ waited = "none"
      BY <2>2, NoElements DEF Init
    <3>2. Tidy(todo)
      BY <3>1, StopsAreUsual DEF Usual, CommonScript
    <3> QED BY <3>1, <3>2 DEF ScriptIsTidy, ReviewFits, WaitFits, Asked, Waits
  <2> QED BY <2>1, <2>2 DEF ReuseInv
<1>2. ReuseInv /\ [Next]_vars => ReuseInv'
  BY StepSafe, StepIsTidy, StepFitsReviews, StepFitsWaiting DEF ReuseInv
<1> QED BY <1>1, <1>2, PTL DEF Spec

(* A reviewer is not asked again about a pull request on which nothing     *)
(* happened since a review of it found completion evidence missing.        *)
THEOREM WaitsAreReused == Spec => WaitingIsReused
<1>1. ASSUME ReuseInv, ReviewAnswers PROVE waited # "REVIEW_WAITING"
  <2>1. SUFFICES ASSUME waited = "REVIEW_WAITING" PROVE FALSE
    OBVIOUS
  <2>2. todo # <<>> /\ todo[1].do = "review" /\ todo \in Seq(Steps)
    BY <1>1 DEF ReviewAnswers, Answered, Doing, ReuseInv, SafeInv, TypeOK
  <2>3. todo[1] = Call("notify")
    <3>1. Elements(todo) \subseteq {Call("notify")}
      BY <1>1, <2>1 DEF ReuseInv, WaitFits
    <3>2. todo[1] \in Elements(todo)
      BY <2>2, TailElements
    <3> QED BY <3>1, <3>2
  <2>4. Call("notify").do = "notify"
    BY StepDo
  <2> QED BY <2>2, <2>3, <2>4
<1>2. ReuseInv => [ReviewAnswers => waited # "REVIEW_WAITING"]_vars
  BY <1>1
<1> QED BY <1>2, ReviewsFit, PTL DEF WaitingIsReused

----------------------------------------------------------------------------
(* A coder works, and what it made becomes a pull request, in the state    *)
(* EXECUTING; what was merged is forgotten before the state says so.       *)
CoderFits ==
  /\ Ask("coder") \in Elements(todo) =>
        \/ todo = CoderScript
        \/ todo = <<Ask("coder")>> /\ state = "EXECUTING"
  /\ Call("create") \in Elements(todo) => todo = CreateScript /\ state = "EXECUTING"
  /\ Call("save") \in Elements(todo) => todo \in {CreateScript, SaveScript} /\ state = "EXECUTING"
ClearFits ==
  Move("MERGED") \in Elements(todo) =>
     \E i \in 1 .. 6 : todo = MergeTail(i) /\ (i > 4 => active = NoWork)

(* While the log says that an open pull request is in delivery, the run    *)
(* state says so too, or that a notification was lost, and no planning is  *)
(* on the way: but for the steps between the pull request and its event.   *)
Delivering == NoMishap /\ active # NoWork /\ Open(active.pr) /\ last.st \in InDelivery
GoesOn ==
  Delivering =>
     \/ state \in InDelivery \cup {"DEGRADED"} /\ Steady(todo)
     \/ todo # <<>> /\ todo[1].do = "event"
     \/ todo \in {SaveScript, OpenedScript} /\ state = "EXECUTING"

DeliveryInv == SafeInv /\ ScriptIsTidy /\ CoderFits /\ ClearFits /\ GoesOn

(* Which scripts have the steps that these are about.                      *)
Opening == {Ask("coder"), Call("create"), Call("save")}

(* Only the scripts of planned work open, only that of a merge ends in it. *)
LEMMA WhoOpens ==
  /\ \A s : Elements(s) \subseteq Common => Elements(s) \cap Opening = {}
                                            /\ Move("MERGED") \notin Elements(s)
  /\ \A s : Elements(s) \subseteq JudgeSteps \cup WaitSteps =>
               Elements(s) \cap Opening = {} /\ Move("MERGED") \notin Elements(s)
  /\ Elements(MergeScript) \cap Opening = {}
  /\ Call("create") \notin Elements(CoderScript) /\ Call("save") \notin Elements(CoderScript)
  /\ Move("MERGED") \notin Elements(CoderScript)
  /\ Ask("coder") \notin Elements(CreateScript) /\ Move("MERGED") \notin Elements(CreateScript)
  /\ Call("create") \notin Elements(SaveScript) /\ Ask("coder") \notin Elements(SaveScript)
  /\ Elements(OpenedScript) \cap Opening = {}
<1>1. /\ Ask("coder").do = "coder" /\ Call("create").do = "create" /\ Call("save").do = "save"
      /\ Call("read").do = "read" /\ Call("ready").do = "ready" /\ Call("notify").do = "notify"
      /\ Ask("review").do = "review" /\ Ask("final").do = "final"
      /\ Mark("pr_open").do = "mark" /\ WaitEvent.do = "event"
  BY DEF Ask, Call, Mark, Do, WaitEvent
<1>2. \A to : Move(to).do = "move" /\ Move(to).arg = to
  BY StepDo
<1>3. \A e \in Opening : e.do \in {"coder", "create", "save"}
  BY <1>1 DEF Opening
<1>4. \A e \in Common : e.do \notin {"coder", "create", "save"} /\ e # Move("MERGED")
  BY DEF Common
<1>5. \A e \in JudgeSteps \cup WaitSteps :
         e.do \notin {"coder", "create", "save"} /\ (e.do = "move" => e.arg # "MERGED")
  BY <1>1, <1>2 DEF JudgeSteps, WaitSteps
<1>6. ASSUME NEW s, Elements(s) \subseteq Common
      PROVE  Elements(s) \cap Opening = {} /\ Move("MERGED") \notin Elements(s)
  BY <1>3, <1>4, <1>6
<1>7. ASSUME NEW s, Elements(s) \subseteq JudgeSteps \cup WaitSteps
      PROVE  Elements(s) \cap Opening = {} /\ Move("MERGED") \notin Elements(s)
  <2>1. Move("MERGED").do = "move" /\ Move("MERGED").arg = "MERGED"
    BY <1>2
  <2> QED BY <1>3, <1>5, <1>7, <2>1
<1>8. Elements(MergeScript) \cap Opening = {}
  BY <1>3, MergeScriptIsSteady
<1>9. /\ Call("create") \notin Elements(CoderScript) /\ Call("save") \notin Elements(CoderScript)
      /\ Move("MERGED") \notin Elements(CoderScript)
  <2>1. /\ Elements(CoderScript) = {Move("EXECUTING"), Ask("coder")}
        /\ Move("MERGED").do = "move" /\ Move("EXECUTING").do = "move"
        /\ Move("MERGED").arg = "MERGED" /\ Move("EXECUTING").arg = "EXECUTING"
    BY <1>2, SpecialScripts
  <2>2. /\ Call("create") # Move("EXECUTING") /\ Call("create") # Ask("coder")
        /\ Call("save") # Move("EXECUTING") /\ Call("save") # Ask("coder")
        /\ Move("MERGED") # Move("EXECUTING") /\ Move("MERGED") # Ask("coder")
    BY <1>1, <2>1
  <2> QED BY <2>1, <2>2
<1>10. /\ Elements(OpenedScript) \cap Opening = {} /\ Move("MERGED") \notin Elements(OpenedScript)
  BY <1>6, CreateSteps
<1>11. /\ Call("create") \notin Elements(SaveScript) /\ Ask("coder") \notin Elements(SaveScript)
       /\ Move("MERGED") \notin Elements(SaveScript)
  <2>1. Elements(SaveScript) = {Call("save")} \cup Elements(OpenedScript)
    BY CreateSteps
  <2>2. Call("create") # Call("save") /\ Ask("coder") # Call("save") /\ Move("MERGED") # Call("save")
    BY <1>1, <1>2
  <2> QED BY <1>10, <2>1, <2>2 DEF Opening
<1>12. Ask("coder") \notin Elements(CreateScript) /\ Move("MERGED") \notin Elements(CreateScript)
  <2>1. Elements(CreateScript) = {Call("create")} \cup Elements(SaveScript)
    BY CreateSteps
  <2>2. Ask("coder") # Call("create") /\ Move("MERGED") # Call("create")
    BY <1>1, <1>2
  <2> QED BY <1>11, <2>1, <2>2
<1> QED BY <1>6, <1>7, <1>8, <1>9, <1>10, <1>11, <1>12

(* Every step keeps what the opening of a pull request relies on,          *)
LEMMA StepFitsCoder ==
  ASSUME DeliveryInv, [Next]_vars
  PROVE  CoderFits'
<1>1. CoderFits' <=>
        /\ Ask("coder") \in Elements(todo') =>
              \/ todo' = CoderScript
              \/ todo' = <<Ask("coder")>> /\ state' = "EXECUTING"
        /\ Call("create") \in Elements(todo') => todo' = CreateScript /\ state' = "EXECUTING"
        /\ Call("save") \in Elements(todo') =>
              todo' \in {CreateScript, SaveScript} /\ state' = "EXECUTING"
  BY DEF CoderFits, Elements, CoderScript, CreateScript, SaveScript, OpenedScript, Emit, Move, Call,
         Ask, Do
<1>2. CASE Onward
  <2>1. /\ todo # <<>> /\ todo' = Tail(todo) /\ Elements(todo) = {todo[1]} \cup Elements(todo')
    BY <1>2, OnwardIs DEF DeliveryInv
  <2>2. ASSUME Ask("coder") \in Elements(todo')
        PROVE  todo' = <<Ask("coder")>> /\ state' = "EXECUTING"
    <3>1. todo # <<Ask("coder")>>
      <4>1. Tail(<<Ask("coder")>>) = <<>>
        OBVIOUS
      <4> QED BY <2>1, <2>2, <4>1, NoElements
    <3>2. todo = CoderScript
      BY <2>1, <2>2, <3>1 DEF DeliveryInv, CoderFits
    <3>3. todo' = <<Ask("coder")>> /\ todo[1] = Move("EXECUTING")
      BY <2>1, <3>2, SpecialScripts
    <3>4. todo[1].do = "move" /\ todo[1].arg = "EXECUTING"
      BY <3>3, StepDo
    <3>5. DoMove
      BY <1>2, <3>4 DEF Onward, RecordEvent, Sent, WriteActive, CreatePR, Push, MarkReady, Comment,
                        Merge, ReadPR, ReadMainHead, Doing
    <3> QED BY <3>3, <3>4, <3>5 DEF DoMove
  <2>3. Call("create") \notin Elements(todo')
    <3>1. SUFFICES ASSUME Call("create") \in Elements(todo') PROVE FALSE
      OBVIOUS
    <3>2. todo = CreateScript
      BY <2>1, <3>1 DEF DeliveryInv, CoderFits
    <3>3. todo' = SaveScript
      BY <2>1, <3>2, CreateSteps
    <3> QED BY <3>1, <3>3, WhoOpens
  <2>4. ASSUME Call("save") \in Elements(todo')
        PROVE  todo' = SaveScript /\ state' = "EXECUTING"
    <3>1. todo \in {CreateScript, SaveScript} /\ state = "EXECUTING"
      BY <2>1, <2>4 DEF DeliveryInv, CoderFits
    <3>2. todo # SaveScript
      BY <2>1, <2>4, CreateSteps, WhoOpens DEF Opening
    <3>3. todo' = SaveScript /\ todo[1] = Call("create")
      BY <2>1, <3>1, <3>2, CreateSteps
    <3>4. todo[1].do = "create"
      BY <3>3, StepDo
    <3>5. CreatePR
      BY <1>2, <3>4 DEF Onward, DoMove, RecordEvent, Sent, WriteActive, Push, MarkReady, Comment,
                        Merge, ReadPR, ReadMainHead, Doing
    <3> QED BY <3>1, <3>3, <3>5 DEF CreatePR
  <2> QED BY <1>1, <2>2, <2>3, <2>4
<1>3. CASE Staying
  BY <1>1, <1>3 DEF Staying, DeliveryInv, CoderFits
<1>4. ASSUME Elements(todo') \cap Opening = {} PROVE CoderFits'
  BY <1>1, <1>4 DEF Opening
<1>5. CASE Anew
  BY <1>4, <1>5, WhoOpens DEF Anew, CommonScript
<1>6. CASE todo' = CoderScript
  BY <1>1, <1>6, WhoOpens
<1>7. CASE CoderAnswers /\ todo' = CreateScript
  <2>1. /\ todo # <<>> /\ todo[1].do = "coder" /\ todo[1] \in Elements(todo) /\ Unmoved
        /\ todo[1] \in Steps
    BY <1>7, AnsweringIs, TailElements DEF Answering, DeliveryInv, SafeInv, TypeOK
  <2>2. todo[1] = Ask("coder")
    BY <2>1, StepWithDo DEF Asks
  <2>3. todo # CoderScript
    <3>1. CoderScript[1].do = "move"
      BY SpecialScripts, StepDo
    <3> QED BY <2>1, <3>1
  <2>4. state' = "EXECUTING"
    BY <2>1, <2>2, <2>3 DEF DeliveryInv, CoderFits, Unmoved, store
  <2> QED BY <1>1, <1>7, <2>4, WhoOpens
<1>8. CASE todo' \in ApprovedScripts \cup {ReadThen("REVIEWING", "review"), WaitScript}
  <2>1. Elements(todo') \subseteq JudgeSteps \cup WaitSteps
    BY <1>8, SpecialScripts, WaitScriptIsSteady
  <2> QED BY <1>4, <2>1, WhoOpens
<1>9. CASE todo' = MergeScript
  BY <1>4, <1>9, WhoOpens
<1> QED BY <1>2, <1>3, <1>5, <1>6, <1>7, <1>8, <1>9, ElseIs DEF DeliveryInv

(* and that of a merge.                                                    *)
LEMMA StepFitsClear ==
  ASSUME DeliveryInv, [Next]_vars
  PROVE  ClearFits'
<1>1. ClearFits' <=>
        (Move("MERGED") \in Elements(todo') =>
           \E i \in 1 .. 6 : todo' = MergeTail(i) /\ (i > 4 => active' = NoWork))
  BY DEF ClearFits, Elements, MergeTail, MergeSteps, Move, Call, Do, NoWork
<1>2. CASE Onward
  <2>1. /\ todo # <<>> /\ todo' = Tail(todo) /\ Elements(todo) = {todo[1]} \cup Elements(todo')
    BY <1>2, OnwardIs DEF DeliveryInv
  <2>2. SUFFICES ASSUME Move("MERGED") \in Elements(todo')
                 PROVE  \E i \in 1 .. 6 : todo' = MergeTail(i) /\ (i > 4 => active' = NoWork)
    BY <1>1
  <2>3. PICK i \in 1 .. 6 : todo = MergeTail(i) /\ (i > 4 => active = NoWork)
    BY <2>1, <2>2 DEF DeliveryInv, ClearFits
  <2>4. todo' = MergeTail(i + 1) /\ todo[1] = MergeSteps[i]
    <3>1. i \in 1 .. 9
      OBVIOUS
    <3> QED BY <2>1, <2>3, <3>1, MergeTails
  <2>5. i # 6
    <3>1. SUFFICES ASSUME i = 6 PROVE FALSE
      OBVIOUS
    <3>2. todo' = MergeTail(7) /\ 7 \in 1 .. 9 /\ 8 \in 1 .. 9 /\ 9 \in 1 .. 9
      BY <2>4, <3>1
    <3>3. /\ Elements(MergeTail(7)) = {MergeSteps[7]} \cup Elements(MergeTail(8))
          /\ Elements(MergeTail(8)) = {MergeSteps[8]} \cup Elements(MergeTail(9))
          /\ Elements(MergeTail(9)) = {MergeSteps[9]} \cup Elements(MergeTail(10))
      <4>1. ASSUME NEW j \in 7 .. 9
            PROVE  Elements(MergeTail(j)) = {MergeSteps[j]} \cup Elements(MergeTail(j + 1))
        <5>1. j \in 1 .. 9
          OBVIOUS
        <5> QED BY <5>1, MergeTails, TailElements
      <4> QED BY <4>1
    <3>4. Elements(MergeTail(7)) = {MergeSteps[7], MergeSteps[8], MergeSteps[9]}
      <4>1. Elements(MergeTail(10)) = {}
        BY MergeScriptIsTail, NoElements
      <4> QED BY <3>3, <4>1
    <3>5. /\ MergeSteps[7] = Move("POST_MERGE_VERIFICATION") /\ MergeSteps[8].do = "event"
          /\ MergeSteps[9].do = "notify"
      <4>1. Call("notify").do = "notify" /\ MergeSteps[9] = Call("notify")
        BY MergeStepsAre, StepDo
      <4>2. MergeSteps[8].do = "event" /\ MergeSteps[7] = Move("POST_MERGE_VERIFICATION")
        BY MergeStepsAre, MergeDos
      <4> QED BY <4>1, <4>2
    <3>6. /\ Move("MERGED").do = "move" /\ Move("MERGED").arg = "MERGED"
          /\ Move("POST_MERGE_VERIFICATION").arg = "POST_MERGE_VERIFICATION"
      BY StepDo
    <3>7. Move("MERGED") \notin Elements(MergeTail(7))
      BY <3>4, <3>5, <3>6
    <3> QED BY <2>2, <3>2, <3>7
  <2>6. i + 1 \in 1 .. 6
    BY <2>5
  <2>7. ASSUME i + 1 > 4 PROVE active' = NoWork
    <3>1. i = 4 \/ i = 5
      BY <2>5, <2>7
    <3>2. CASE i = 4
      <4>1. todo[1].do = "clear"
        BY <2>4, <3>2, MergeDos
      <4>2. WriteActive
        BY <1>2, <4>1 DEF Onward, DoMove, RecordEvent, Sent, CreatePR, Push, MarkReady, Comment,
                          Merge, ReadPR, ReadMainHead, Doing
      <4> QED BY <4>1, <4>2 DEF WriteActive, Doing
    <3>3. CASE i = 5
      <4>1. todo[1].do = "move" /\ active = NoWork
        BY <2>3, <2>4, <3>3, MergeDos
      <4>2. DoMove
        BY <1>2, <4>1 DEF Onward, RecordEvent, Sent, WriteActive, CreatePR, Push, MarkReady, Comment,
                          Merge, ReadPR, ReadMainHead, Doing
      <4> QED BY <4>1, <4>2 DEF DoMove
    <3> QED BY <3>1, <3>2, <3>3
  <2> QED BY <2>4, <2>6, <2>7
<1>3. CASE Staying
  BY <1>1, <1>3 DEF Staying, DeliveryInv, ClearFits
<1>4. CASE Anew
  BY <1>1, <1>4, WhoOpens DEF Anew, CommonScript
<1>5. CASE todo' \in {CoderScript, CreateScript}
  BY <1>1, <1>5, WhoOpens
<1>6. CASE todo' \in ApprovedScripts \cup {ReadThen("REVIEWING", "review"), WaitScript}
  <2>1. Elements(todo') \subseteq JudgeSteps \cup WaitSteps
    BY <1>6, SpecialScripts, WaitScriptIsSteady
  <2> QED BY <1>1, <2>1, WhoOpens
<1>7. CASE todo' = MergeScript
  <2>1. 1 \in 1 .. 6 /\ todo' = MergeTail(1) /\ ~(1 > 4)
    BY <1>7, MergeScriptIsTail
  <2> QED BY <1>1, <2>1
<1> QED BY <1>2, <1>3, <1>4, <1>5, <1>6, <1>7, ElseIs DEF DeliveryInv

(* A pull request in delivery was so before, unless the step says so, or   *)
(* opens or saves it.                                                      *)
LEMMA DeliveringWas ==
  ASSUME DeliveryInv, [Next]_vars, Delivering', ~RecordEvent, ~CreatePR,
         ~(WriteActive /\ Doing("save"))
  PROVE  Delivering
<1>1. NoMishap /\ ~CallFails /\ ~Crash
  BY MishapsStay DEF Delivering, DeliveryInv, SafeInv
<1>2. pr \in [PR -> Pull] /\ (\A p \in PR : pr[p] \in Pull) /\ last \in LastEvents
  BY PullTypes, PassTypes DEF DeliveryInv, SafeInv
<1>3. active # NoWork => active.pr \in PR
  BY BoundsAreSane DEF DeliveryInv, SafeInv, TypeOK, NoWork, Number, PR
<1>4. ASSUME UNCHANGED <<active, pr>>, last'.st = last.st PROVE Delivering
  BY <1>1, <1>4 DEF Delivering, Open
<1>5. CASE DoMove \/ Sent \/ ReadPR \/ ReadMainHead \/ Comment
  <2>1. UNCHANGED <<active, pr>> /\ last'.st = last.st
    BY <1>2, <1>5 DEF DoMove, Sent, ReadPR, ReadMainHead, Comment, Stale, LastEvents, store, github
  <2> QED BY <1>4, <2>1
<1>6. CASE WriteActive
  <2>1. UNCHANGED <<pr, last>>
    BY <1>6 DEF WriteActive, github
  <2>2. active' = NoWork \/ active' = Marked
    BY <1>6 DEF WriteActive
  <2>3. active # NoWork /\ active'.pr = active.pr
    BY <2>2 DEF Delivering, Marked, DeliveryInv, SafeInv, TypeOK
  <2> QED BY <1>1, <2>1, <2>3 DEF Delivering, Open
<1>7. CASE Push \/ MarkReady \/ Merge
  <2>1. active' = active /\ last'.st = last.st
    BY <1>2, <1>7 DEF Push, MarkReady, Merge, Fact, Stale, LastEvents
  <2>2. ASSUME NEW p \in PR, Open(p)' PROVE Open(p)
    <3>1. CASE MarkReady
      <4>1. pr' = pr \/ (pr' = [pr EXCEPT ![pass.pr].st = "ready"] /\ pr[pass.pr].st = "draft")
        BY <3>1 DEF MarkReady
      <4>2. pr'[p] = pr[p] \/ pr[p].st = "draft"
        BY <1>2, <4>1
      <4> QED BY <2>2, <4>2 DEF Open
    <3>2. CASE Push
      <4>1. pr' = pr \/ pr' = [pr EXCEPT ![pass.pr] = NewHead(@)]
        BY <3>2 DEF Push
      <4>2. NewHead(pr[p]).st = pr[p].st
        BY <1>2 DEF NewHead, Pull
      <4>3. pr'[p] \in {pr[p], NewHead(pr[p])}
        BY <1>2, <4>1
      <4> QED BY <2>2, <4>2, <4>3 DEF Open
    <3>3. CASE Merge
      <4>1. pr' = [pr EXCEPT ![pass.pr].st = "merged"]
        BY <3>3 DEF Merge
      <4>2. pr'[p] = pr[p] \/ pr'[p].st = "merged"
        BY <1>2, <4>1 DEF Pull
      <4> QED BY <2>2, <4>2 DEF Open
    <3> QED BY <1>7, <3>1, <3>2, <3>3
  <2> QED BY <1>1, <1>3, <2>1, <2>2 DEF Delivering, Open
<1>8. CASE Raising \/ IssueChanges \/ Answering \/ Cycle \/ Watch \/ PlanEnds \/ PlanRepeats
           \/ PlanSelects
  <2>1. UNCHANGED <<active, pr>> /\ last'.st = last.st
    BY <1>2, <1>8
       DEF Raising, MoveRefused, PushRejected, CallFails, AskFails, Unsent, IssueChanges, Answering,
           CoderAnswers, RepairAnswers, ReviewAnswers, FinalAnswers, Cycle, Watch, Begin, PlanEnds,
           PlanRepeats, PlanSelects, Unmoved, Fact, Stale, LastEvents, store, github
  <2> QED BY <1>4, <2>1
<1>9. CASE UNCHANGED vars \/ Outside
  <2>1. Staying
    BY <1>9, StayingIs DEF DeliveryInv
  <2> QED BY <1>1, <1>3, <2>1 DEF Delivering, Staying
<1> QED BY <1>1, <1>5, <1>6, <1>7, <1>8, <1>9, StepsAre DEF Onward

(* What a pass in the middle of a delivery is about to do.                 *)
LEMMA DeliveringStep ==
  ASSUME DeliveryInv, Delivering, todo # <<>>, todo[1].do # "event"
  PROVE  \/ state \in InDelivery \cup {"DEGRADED"} /\ Steady(todo) /\ todo[1].do \notin Planning
         \/ todo = SaveScript /\ state = "EXECUTING" /\ todo[1].do = "save"
         \/ todo = OpenedScript /\ state = "EXECUTING" /\ todo[1] = Move("PR_OPEN")
            /\ todo[1].do = "move"
<1>1. todo \in Seq(Steps)
  BY DEF DeliveryInv, SafeInv, TypeOK
<1>2. CASE Steady(todo) /\ state \in InDelivery \cup {"DEGRADED"}
  BY <1>1, <1>2, RestIsSteady
<1>3. CASE todo \in {SaveScript, OpenedScript} /\ state = "EXECUTING"
  BY <1>3, CreateSteps, StepDo
<1> QED BY <1>2, <1>3 DEF DeliveryInv, GoesOn

(* A delivery goes on with a transition,                                   *)
LEMMA MoveGoesOn ==
  ASSUME DeliveryInv, Delivering, DoMove
  PROVE  \/ state' \in InDelivery \cup {"DEGRADED"} /\ Steady(todo')
         \/ todo' # <<>> /\ todo'[1].do = "event"
<1>1. /\ todo # <<>> /\ todo[1].do = "move" /\ state' = todo[1].arg /\ todo' = Tail(todo)
      /\ todo \in Seq(Steps) /\ todo[1] \in Steps /\ todo[1] \in Elements(todo)
  BY TailElements DEF DoMove, Doing, Done, Then, DeliveryInv, SafeInv, TypeOK
<1>2. CASE Steady(todo)
  <2>1. /\ Steady(todo')
        /\ todo[1].arg \in Lasting \/ (todo' # <<>> /\ todo'[1].do = "event")
    BY <1>1, <1>2, RestIsSteady
  <2>2. todo[1].arg # "MERGED"
    <3>1. SUFFICES ASSUME todo[1].arg = "MERGED" PROVE FALSE
      OBVIOUS
    <3>2. todo[1] = Move("MERGED")
      BY <1>1, <3>1 DEF Steps, Move, Do
    <3>3. PICK i \in 1 .. 6 : todo = MergeTail(i) /\ (i > 4 => active = NoWork)
      BY <1>1, <3>2 DEF DeliveryInv, ClearFits
    <3>4. todo[1] = MergeSteps[i]
      <4>1. i \in 1 .. 9
        OBVIOUS
      <4> QED BY <3>3, <4>1, MergeTails
    <3>5. /\ MergeSteps[1].do = "comment" /\ MergeSteps[2].do = "merge"
          /\ MergeSteps[3].do = "sha" /\ MergeSteps[4].do = "clear"
          /\ MergeSteps[5].arg = "COMPLETION_READY"
      BY MergeStepsAre, MergeDos, StepDo
    <3>6. i = 6 \/ i = 5
      BY <1>1, <3>4, <3>5
    <3> QED BY <3>3, <3>6 DEF Delivering
  <2> QED BY <1>1, <2>1, <2>2 DEF Lasting
<1>3. CASE todo = OpenedScript
  <2>1. Tail(OpenedScript) = <<Do("event", "PR_OPEN", "PR_OPENED", FALSE), Call("notify")>>
        /\ Tail(OpenedScript) # <<>>
        /\ Tail(OpenedScript)[1] = Do("event", "PR_OPEN", "PR_OPENED", FALSE)
    BY EmitParts DEF OpenedScript
  <2>2. Do("event", "PR_OPEN", "PR_OPENED", FALSE).do = "event"
    BY DEF Do
  <2> QED BY <1>1, <1>3, <2>1, <2>2
<1> QED BY <1>1, <1>2, <1>3, DeliveringStep

(* with the other steps of a script,                                       *)
LEMMA ScriptGoesOn ==
  ASSUME DeliveryInv, Delivering, Onward, ~DoMove, ~RecordEvent, ~CreatePR,
         ~(WriteActive /\ Doing("save"))
  PROVE  state' \in InDelivery \cup {"DEGRADED"} /\ Steady(todo')
<1>1. todo # <<>> /\ todo' = Tail(todo) /\ todo \in Seq(Steps)
  BY OnwardIs DEF DeliveryInv
<1>2. todo[1].do \notin {"event", "move", "save"} /\ state' = state
  BY DEF Onward, Sent, WriteActive, Push, MarkReady, Comment, Merge, ReadPR, ReadMainHead, Doing,
         store
<1>3. state \in InDelivery \cup {"DEGRADED"} /\ Steady(todo)
  BY <1>1, <1>2, DeliveringStep
<1> QED BY <1>1, <1>2, <1>3, RestIsSteady

(* and with a pass that begins.                                            *)
LEMMA BeginGoesOn ==
  ASSUME DeliveryInv, Delivering, Cycle \/ Watch
  PROVE  state' \in InDelivery \cup {"DEGRADED"} /\ Steady(todo')
<1>1. /\ todo = <<>> /\ state' = state
      /\ Cycle => todo' \in CycleScripts
      /\ Watch => todo' \in WatchScripts
  BY BeginIs DEF DeliveryInv, store
<1>2. state \in InDelivery \cup {"DEGRADED"}
  BY <1>1, CreateSteps DEF DeliveryInv, GoesOn
<1>3. /\ CycleScripts = {ActiveScript}
      /\ WatchScripts \subseteq {ActiveScript}
  BY <1>2 DEF CycleScripts, WatchScripts, Effective, Delivering, InDelivery
<1>4. todo' = ActiveScript
  BY <1>1, <1>3
<1>5. Steady(ActiveScript)
  <2>1. CASE Usual(ActiveScript)
    BY <2>1 DEF Usual
  <2>2. CASE ActiveScript = ReadThen("REVIEWING", "review")
    BY <2>2, SpecialScripts
  <2> QED BY <2>1, <2>2, ActiveIsUsual
<1> QED BY <1>1, <1>2, <1>4, <1>5

(* Every step keeps a delivery going.                                      *)
LEMMA StepGoesOn ==
  ASSUME DeliveryInv, [Next]_vars
  PROVE  GoesOn'
<1>0. GoesOn' <=>
        (Delivering' =>
           \/ state' \in InDelivery \cup {"DEGRADED"} /\ Steady(todo')
           \/ todo' # <<>> /\ todo'[1].do = "event"
           \/ todo' \in {SaveScript, OpenedScript} /\ state' = "EXECUTING")
  BY DEF GoesOn, Steady, SaveScript, OpenedScript, Emit, Move, Call, Do
<1>1. SUFFICES ASSUME Delivering'
               PROVE  \/ state' \in InDelivery \cup {"DEGRADED"} /\ Steady(todo')
                      \/ todo' # <<>> /\ todo'[1].do = "event"
                      \/ todo' \in {SaveScript, OpenedScript} /\ state' = "EXECUTING"
  BY <1>0
<1>2. NoMishap /\ ~CallFails /\ ~Crash
  BY <1>1, MishapsStay DEF Delivering, DeliveryInv, SafeInv
<1>3. CASE RecordEvent
  <2>1. /\ todo # <<>> /\ todo[1].do = "event" /\ todo' = Tail(todo) /\ todo \in Seq(Steps)
        /\ state' = todo[1].arg /\ last'.st = todo[1].arg
    BY <1>3 DEF RecordEvent, Doing, Done, Then, DeliveryInv, SafeInv, TypeOK, ScriptIsTidy
  <2>2. todo' = <<Call("notify")>>
    BY <2>1, RestIsTidy DEF DeliveryInv, ScriptIsTidy
  <2>3. Steady(<<Call("notify")>>)
    <3>1. /\ <<Call("notify")>> \in Seq(Steps) /\ Elements(<<Call("notify")>>) = {Call("notify")}
      BY StepTypes DEF Elements, Plain
    <3>2. Call("notify") \in Plodding
      BY PloddingSteps
    <3> QED BY <3>1, <3>2, UsualShort DEF Usual
  <2> QED BY <1>1, <2>1, <2>2, <2>3 DEF Delivering
<1>4. CASE CreatePR
  <2>1. /\ todo # <<>> /\ todo[1].do = "create" /\ todo' = Tail(todo) /\ state' = state
        /\ todo[1] \in Elements(todo) /\ todo[1] \in Steps
    <3>1. todo # <<>> /\ todo[1].do = "create" /\ state' = state /\ todo \in Seq(Steps)
      BY <1>4 DEF CreatePR, Doing, DeliveryInv, SafeInv, TypeOK
    <3> QED BY <1>4, <3>1, TailElements, OnwardIs DEF Onward, DeliveryInv
  <2>2. todo[1] = Call("create")
    BY <2>1, StepWithDo DEF Calls
  <2>3. todo = CreateScript /\ state = "EXECUTING"
    BY <2>1, <2>2 DEF DeliveryInv, CoderFits
  <2> QED BY <2>1, <2>3, CreateSteps
<1>5. CASE WriteActive /\ Doing("save")
  <2>1. /\ todo # <<>> /\ todo[1].do = "save" /\ todo' = Tail(todo) /\ state' = state
        /\ todo[1] \in Elements(todo) /\ todo[1] \in Steps
    <3>1. todo # <<>> /\ todo[1].do = "save" /\ state' = state /\ todo \in Seq(Steps)
      BY <1>5 DEF WriteActive, Doing, DeliveryInv, SafeInv, TypeOK
    <3> QED BY <1>5, <3>1, TailElements, OnwardIs DEF Onward, DeliveryInv
  <2>2. todo[1] = Call("save")
    BY <2>1, StepWithDo
  <2>3. todo \in {CreateScript, SaveScript} /\ state = "EXECUTING"
    BY <2>1, <2>2 DEF DeliveryInv, CoderFits
  <2>4. CreateScript[1].do # "save"
    BY CreateSteps, StepDo
  <2>5. todo = SaveScript
    BY <2>1, <2>3, <2>4
  <2> QED BY <2>1, <2>3, <2>5, CreateSteps
<1>6. ASSUME ~RecordEvent, ~CreatePR, ~(WriteActive /\ Doing("save"))
      PROVE  \/ state' \in InDelivery \cup {"DEGRADED"} /\ Steady(todo')
             \/ todo' # <<>> /\ todo'[1].do = "event"
             \/ todo' \in {SaveScript, OpenedScript} /\ state' = "EXECUTING"
  <2>1. Delivering
    BY <1>1, <1>6, DeliveringWas
  <2>2. CASE Onward
    BY <1>6, <2>1, <2>2, MoveGoesOn, ScriptGoesOn
  <2>3. CASE Raising
    <3>1. Steady(todo') /\ todo # <<>> /\ todo[1].do # "event" /\ state' \in {state, "DEGRADED"}
      BY <1>2, <2>3, RaiseIs
         DEF Raising, MoveRefused, PushRejected, AskFails, Unsent, Doing, Asks, Unmoved, store,
             DeliveryInv
    <3>2. state \in InDelivery \cup {"DEGRADED"}
      <4>1. SUFFICES ASSUME state = "EXECUTING" PROVE FALSE
        BY <2>1, <3>1, DeliveringStep
      <4>2. todo[1].do = "save" \/ (todo[1] = Move("PR_OPEN") /\ todo[1].do = "move")
        <5>1. state \notin InDelivery \cup {"DEGRADED"}
          BY <4>1 DEF InDelivery
        <5> QED BY <2>1, <3>1, <5>1, DeliveringStep, Zenon
      <4>3. MoveRefused
        BY <1>2, <2>3, <4>2
           DEF Raising, MoveRefused, PushRejected, AskFails, Unsent, Doing, Asks
      <4>4. todo[1].arg = "PR_OPEN"
        BY <4>2, <4>3, StepDo DEF MoveRefused, Doing
      <4> QED BY <4>1, <4>3, <4>4 DEF MoveRefused, CanMove, Allowed
    <3> QED BY <3>1, <3>2
  <2>4. ~IssueChanges /\ ~PlanEnds /\ ~PlanRepeats /\ ~PlanSelects /\ ~CoderAnswers
    <3>1. ASSUME todo # <<>>, todo[1].do \in {"issue", "plan", "coder"} PROVE FALSE
      BY <2>1, <3>1, DeliveringStep DEF Planning
    <3> QED
      BY <3>1 DEF IssueChanges, PlanEnds, PlanRepeats, PlanSelects, CoderAnswers, Answered, Doing
  <2>5. CASE Answering
    <3>1. /\ todo # <<>> /\ todo[1].do \in {"repair", "review", "final"} /\ state' = state
      BY <2>4, <2>5, AnsweringIs DEF Answering, DeliveryInv, Unmoved, store
    <3>2. state \in InDelivery \cup {"DEGRADED"}
      BY <2>1, <3>1, DeliveringStep
    <3>3. Steady(todo')
      BY <2>4, <2>5, AnsweringIs, SpecialScripts, WaitScriptIsSteady, MergeScriptIsSteady
         DEF DeliveryInv
    <3> QED BY <3>1, <3>2, <3>3
  <2>6. CASE Cycle \/ Watch
    BY <2>1, <2>6, BeginGoesOn
  <2>7. CASE UNCHANGED vars \/ Outside
    <3>1. UNCHANGED <<todo, state>>
      BY <2>7, StayingIs DEF Staying, DeliveryInv
    <3> QED BY <2>1, <3>1 DEF DeliveryInv, GoesOn
  <2> QED BY <1>2, <2>2, <2>3, <2>4, <2>5, <2>6, <2>7, StepsAre
<1> QED BY <1>3, <1>4, <1>5, <1>6

(* The invariant of deliveries.                                            *)
THEOREM DeliveriesFit == Spec => []DeliveryInv
<1>1. Init => DeliveryInv
  <2>1. Init => SafeInv
    BY InitSafe
  <2>2. ASSUME Init PROVE ScriptIsTidy /\ CoderFits /\ ClearFits /\ GoesOn
    <3>1. todo = <<>> /\ Elements(todo) = {} /\ active = NoWork
      BY <2>2, NoElements DEF Init
    <3>2. Tidy(todo)
      BY <3>1, StopsAreUsual DEF Usual, CommonScript
    <3> QED BY <3>1, <3>2 DEF ScriptIsTidy, CoderFits, ClearFits, GoesOn, Delivering
  <2> QED BY <2>1, <2>2 DEF DeliveryInv
<1>2. DeliveryInv /\ [Next]_vars => DeliveryInv'
  BY StepSafe, StepIsTidy, StepFitsCoder, StepFitsClear, StepGoesOn DEF DeliveryInv
<1> QED BY <1>1, <1>2, PTL DEF Spec

(* Without crashes, no pass opens a pull request over an open active one   *)
(* that the event log says is in delivery.                                 *)
THEOREM DeliveriesGoOn == Spec => DeliveryGoesOn
<1>1. ASSUME DeliveryInv, CreatePR, NoMishap
      PROVE  active = NoWork \/ ~Open(active.pr) \/ last.st \notin InDelivery
  <2>1. todo # <<>> /\ todo[1].do = "create"
    BY <1>1 DEF CreatePR, Doing
  <2>2. SUFFICES ASSUME Delivering PROVE FALSE
    BY <1>1 DEF Delivering
  <2> QED BY <1>1, <2>1, <2>2, DeliveringStep DEF Planning
<1>2. DeliveryInv =>
        [CreatePR /\ NoMishap =>
           active = NoWork \/ ~Open(active.pr) \/ last.st \notin InDelivery]_vars
  BY <1>1
<1> QED BY <1>2, DeliveriesFit, PTL DEF DeliveryGoesOn
=============================================================================
