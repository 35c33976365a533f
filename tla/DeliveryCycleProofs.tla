------------------------ MODULE DeliveryCycleProofs ------------------------
(* Proofs about DeliveryCycle, for any number of pull requests, heads and  *)
(* disturbances, every policy and every set of answers.                    *)
EXTENDS DeliveryCycle, SequenceTheorems, TLAPS

(* The steps of a script.                                                  *)
Elements(s) == {s[i] : i \in 1 .. Len(s)}

(* The steps of a script: the first one and the rest,                      *)
LEMMA TailElements ==
  ASSUME NEW s \in Seq(Steps), s # <<>>
  PROVE  /\ Tail(s) \in Seq(Steps) /\ s[1] \in Steps
         /\ Elements(s) = {s[1]} \cup Elements(Tail(s))
BY DEF Elements

(* none,                                                                   *)
LEMMA NoElements == Elements(<<>>) = {}
BY DEF Elements

(* and those of two scripts in a row.                                      *)
LEMMA ConcatElements ==
  ASSUME NEW S, NEW s \in Seq(S), NEW t \in Seq(S)
  PROVE  s \o t \in Seq(S) /\ Elements(s \o t) = Elements(s) \cup Elements(t)
<1>1. /\ s \o t \in Seq(S) /\ Len(s \o t) = Len(s) + Len(t)
      /\ Len(s) \in Nat /\ Len(t) \in Nat
      /\ \A i \in 1 .. Len(s) + Len(t) : (s \o t)[i] = IF i <= Len(s) THEN s[i] ELSE t[i - Len(s)]
  BY ConcatProperties
<1>2. ASSUME NEW e \in Elements(s \o t) PROVE e \in Elements(s) \cup Elements(t)
  <2>1. PICK i \in 1 .. Len(s) + Len(t) : e = (s \o t)[i]
    BY <1>1, <1>2 DEF Elements
  <2>2. CASE i <= Len(s)
    BY <1>1, <2>1, <2>2 DEF Elements
  <2>3. CASE ~(i <= Len(s))
    <3>1. i - Len(s) \in 1 .. Len(t) /\ e = t[i - Len(s)]
      BY <1>1, <2>1, <2>3
    <3> QED
      BY <3>1 DEF Elements
  <2> QED
    BY <2>2, <2>3
<1>3. ASSUME NEW e \in Elements(s) PROVE e \in Elements(s \o t)
  <2>1. PICK i \in 1 .. Len(s) : e = s[i]
    BY <1>3 DEF Elements
  <2>2. i \in 1 .. Len(s \o t) /\ e = (s \o t)[i]
    BY <1>1, <2>1
  <2> QED
    BY <2>2 DEF Elements
<1>4. ASSUME NEW e \in Elements(t) PROVE e \in Elements(s \o t)
  <2>1. PICK i \in 1 .. Len(t) : e = t[i]
    BY <1>4 DEF Elements
  <2>2. Len(s) + i \in 1 .. Len(s \o t) /\ e = (s \o t)[Len(s) + i]
    BY <1>1, <2>1
  <2> QED
    BY <2>2 DEF Elements
<1> QED
  BY <1>1, <1>2, <1>3, <1>4

(* The steps that need nothing to be so: they are not about the pull       *)
(* request of the pass, and their event says nothing of a merge.           *)
MergeKinds == {"PR_MERGED", "POST_MERGE_VERIFIED", "POST_MERGE_FAILED"}
Plain == {e \in Steps : /\ e.do \in {"move", "event", "notify", "mark", "plan", "issue",
                                     "coder", "comment"}
                        /\ e.do = "mark" => e.arg # "none"
                        /\ e.do = "event" => e.kind \notin MergeKinds}
PlainScript(s) == s \in Seq(Steps) /\ Elements(s) \subseteq Plain

(* What a step does.                                                       *)
LEMMA StepDo ==
  /\ \A to : Move(to).do = "move" /\ Move(to).arg = to
  /\ \A status : Mark(status).do = "mark" /\ Mark(status).arg = status
  /\ \A whom : Ask(whom).do = whom
  /\ \A what : Call(what).do = what
  /\ \A to, kind, keyed : /\ Do("event", to, kind, keyed).do = "event"
                          /\ Do("event", to, kind, keyed).arg = to
                          /\ Do("event", to, kind, keyed).kind = kind
BY DEF Move, Mark, Ask, Call, Do

(* The steps are typed, and plain unless they are about a merge.           *)
LEMMA StepTypes ==
  /\ \A to \in RunStates : Move(to) \in Plain
  /\ \A status \in Statuses \ {"none"} : Mark(status) \in Plain
  /\ \A to \in RunStates, kind \in Kinds, keyed \in BOOLEAN :
        Do("event", to, kind, keyed) \in Steps
  /\ \A what \in {"plan", "issue", "coder"} : Ask(what) \in Plain
  /\ \A what \in {"notify", "comment"} : Call(what) \in Plain
  /\ \A what \in {"create", "push", "ready", "merge", "sha", "save", "clear", "read"} :
        Call(what) \in Steps
  /\ \A what \in {"review", "final", "repair"} : Ask(what) \in Steps
BY DEF Plain, Steps, Do, Move, Mark, Ask, Call, Calls, Asks

(* _emit is a transition, an event and a notification.                     *)
LEMMA EmitSteps ==
  ASSUME NEW to \in RunStates, NEW kind \in Kinds, NEW keyed \in BOOLEAN
  PROVE  /\ Emit(to, kind, keyed) \in Seq(Steps) /\ Emit(to, kind, keyed) # <<>>
         /\ Elements(Emit(to, kind, keyed)) =
               {Move(to), Do("event", to, kind, keyed), Call("notify")}
         /\ kind \notin MergeKinds => PlainScript(Emit(to, kind, keyed))
<1>1. /\ Move(to) \in Plain /\ Do("event", to, kind, keyed) \in Steps /\ Call("notify") \in Plain
  BY StepTypes
<1>2. Emit(to, kind, keyed) \in Seq(Steps)
  <2>1. Move(to) \in Steps /\ Call("notify") \in Steps
    BY <1>1 DEF Plain
  <2> QED
    BY <1>1, <2>1 DEF Emit
<1>3. Elements(Emit(to, kind, keyed)) = {Move(to), Do("event", to, kind, keyed), Call("notify")}
  BY DEF Elements, Emit
<1>4. kind \notin MergeKinds => Do("event", to, kind, keyed) \in Plain
  <2>1. /\ Do("event", to, kind, keyed).do = "event" /\ Do("event", to, kind, keyed).kind = kind
    BY DEF Do
  <2> QED
    BY <1>1, <2>1 DEF Plain
<1>5. Emit(to, kind, keyed) # <<>>
  BY DEF Emit
<1> QED
  BY <1>1, <1>2, <1>3, <1>4, <1>5 DEF PlainScript

(* Plain scripts in a row are plain.                                       *)
LEMMA PlainConcat ==
  ASSUME NEW s, PlainScript(s), NEW t, PlainScript(t)
  PROVE  PlainScript(s \o t)
BY ConcatElements DEF PlainScript

(* Short scripts of plain steps are plain.                                 *)
LEMMA Singles ==
  /\ \A e \in Plain : PlainScript(<<e>>)
  /\ \A d, e \in Plain : PlainScript(<<d, e>>)
  /\ PlainScript(<<>>)
<1>1. \A e \in Plain : PlainScript(<<e>>)
  BY DEF PlainScript, Elements, Plain
<1>2. \A d, e \in Plain : PlainScript(<<d, e>>)
  BY DEF PlainScript, Elements, Plain
<1>3. PlainScript(<<>>)
  BY DEF PlainScript, Elements
<1> QED
  BY <1>1, <1>2, <1>3

(* What the scripts of a beginning pass are made of.                       *)
LEMMA VerifyScripts ==
  ASSUME TypeOK
  PROVE  \/ PlainScript(VerifyScript)
         \/ /\ VerifyScript = Emit("READY", "POST_MERGE_VERIFIED", TRUE)
            /\ log.of \in PR /\ Runs = "passed"
         \/ /\ VerifyScript = Emit("DEGRADED", "POST_MERGE_FAILED", TRUE)
            /\ log.of \in PR /\ Runs = "failed"
<1>1. MergeSeen => log.of \in PR
  BY BoundsAreSane DEF MergeSeen, TypeOK, Events, Number, PR
<1>2. /\ PlainScript(Emit("DEGRADED", "POST_MERGE_EVIDENCE_MISSING", FALSE))
      /\ PlainScript(Emit("POST_MERGE_VERIFICATION", "POST_MERGE_WAITING", TRUE))
  BY EmitSteps DEF RunStates, Kinds, MergeKinds
<1> QED
  BY <1>1, <1>2, Singles DEF VerifyScript

ReadThen(to, whom) == <<Move(to), Call("read"), Ask(whom)>>

(* What cycle and watch may do next: go on with active work,               *)
LEMMA ActiveScripts ==
  ASSUME TypeOK
  PROVE  \/ PlainScript(ActiveScript)
         \/ ActiveScript = ReadThen("REPAIRING", "repair")
         \/ ActiveScript = ReadThen("REVIEWING", "review")
<1>1. PlainScript(<<Mark("pr_open")>> \o <<>>)
  <2>1. PlainScript(<<Mark("pr_open")>>)
    BY StepTypes, Singles DEF Statuses
  <2> QED
    BY <2>1, Singles, PlainConcat
<1>2. PlainScript(<<Mark("pr_open")>> \o Emit("PR_OPEN", "PR_CHECKS_WAITING", TRUE))
  <2>1. PlainScript(<<Mark("pr_open")>>)
    BY StepTypes, Singles DEF Statuses
  <2>2. PlainScript(Emit("PR_OPEN", "PR_CHECKS_WAITING", TRUE))
    BY EmitSteps DEF RunStates, Kinds, MergeKinds
  <2> QED
    BY <2>1, <2>2, PlainConcat
<1> QED
  BY <1>1, <1>2, Singles DEF ActiveScript, ReadThen

(* read the pull request and ask,                                          *)
LEMMA ReadThenSteps ==
  ASSUME NEW to \in {"REPAIRING", "REVIEWING"}, NEW whom \in {"repair", "review"}
  PROVE  /\ ReadThen(to, whom) \in Seq(Steps) /\ ReadThen(to, whom) # <<>>
         /\ Elements(ReadThen(to, whom)) = {Move(to), Call("read"), Ask(whom)}
<1>1. Move(to) \in Steps /\ Call("read") \in Steps /\ Ask(whom) \in Steps
  BY StepTypes DEF Plain, RunStates
<1> QED
  BY <1>1 DEF ReadThen, Elements

(* ask the planner,                                                        *)
LEMMA PlanScripts ==
  PlainScript(PlanScript) /\ PlainScript(NoContext)
<1>1. /\ PlainScript(<<Move("PLANNING"), Ask("plan")>>)
      /\ PlainScript(<<Move("EXECUTING"), Ask("issue")>>)
  BY StepTypes, Singles DEF RunStates
<1>2. PlainScript(Emit("DEGRADED", "STALLED", TRUE)) /\ PlainScript(NoContext)
  BY EmitSteps DEF RunStates, Kinds, MergeKinds, NoContext
<1> QED
  BY <1>1, <1>2, Singles DEF PlanScript

(* or tell the owner.                                                      *)
LEMMA OwnerScripts ==
  ASSUME TypeOK
  PROVE  PlainScript(Emit("BLOCKED", "ATTENTION_REQUIRED", last.same))
BY EmitSteps DEF RunStates, Kinds, MergeKinds, TypeOK

(* ... and what they are replaced by.                                      *)
LEMMA StopScripts ==
  /\ PlainScript(ModelSuppressed) /\ PlainScript(WorkerStops) /\ PlainScript(OwnerStops)
  /\ PlainScript(Emit("DEGRADED", FailureKind, TRUE))
  /\ PlainScript(Emit("DEGRADED", "STALLED", TRUE))
  /\ PlainScript(IssueReply.changed)
<1>1. (pass.ctx = "execute") \in BOOLEAN /\ FailureKind \in {"ISSUE_FAILED", "EXECUTION_FAILED"}
  BY DEF FailureKind
<1>2. IssueReply.changed = Emit("READY", "ISSUE_UPDATED", FALSE)
  BY DEF IssueReply
<1>3. /\ PlainScript(ModelSuppressed) /\ PlainScript(WorkerStops) /\ PlainScript(OwnerStops)
  BY <1>1, EmitSteps
     DEF RunStates, Kinds, MergeKinds, ModelSuppressed, WorkerStops, OwnerStops
<1>4. PlainScript(Emit("DEGRADED", FailureKind, TRUE))
  BY <1>1, EmitSteps DEF RunStates, Kinds, MergeKinds
<1>5. /\ PlainScript(Emit("DEGRADED", "STALLED", TRUE))
      /\ PlainScript(Emit("READY", "ISSUE_UPDATED", FALSE))
  BY EmitSteps DEF RunStates, Kinds, MergeKinds
<1> QED
  BY <1>2, <1>3, <1>4, <1>5

(* What a pass does with an answer: the planner's,                         *)
LEMMA PlanReplies ==
  /\ \A a \in DOMAIN PlanReply : PlainScript(PlanReply[a])
  /\ \A a \in DOMAIN Selected : PlainScript(Selected[a])
<1>1. ASSUME NEW a \in DOMAIN PlanReply PROVE PlainScript(PlanReply[a])
  <2>1. PlanReply[a] \in {PlanReply.suppressed, PlanReply.planFails, PlanReply.needsOwner,
                          PlanReply.denied}
    BY <1>1 DEF PlanReply
  <2>2. /\ PlanReply.suppressed = ModelSuppressed
        /\ PlanReply.planFails = Emit("DEGRADED", "PLANNING_FAILED", TRUE)
        /\ PlanReply.needsOwner = Emit("BLOCKED", "APPROVAL_REQUIRED", TRUE)
        /\ PlanReply.denied = Emit("DEGRADED", "ACTION_BLOCKED", TRUE)
    BY DEF PlanReply
  <2>3. /\ PlainScript(Emit("DEGRADED", "PLANNING_FAILED", TRUE))
        /\ PlainScript(Emit("BLOCKED", "APPROVAL_REQUIRED", TRUE))
        /\ PlainScript(Emit("DEGRADED", "ACTION_BLOCKED", TRUE))
    BY EmitSteps DEF RunStates, Kinds, MergeKinds
  <2> QED
    BY <2>1, <2>2, <2>3, StopScripts
<1>2. ASSUME NEW a \in DOMAIN Selected PROVE PlainScript(Selected[a])
  <2>1. Selected[a] \in {Selected.report, Selected.issue, Selected.implement, Selected.reviewPR}
    BY <1>2 DEF Selected
  <2>2. /\ Selected.report = Emit("READY", "STATUS_REPORTED", TRUE)
        /\ Selected.issue = <<Ask("issue")>>
        /\ Selected.implement = <<Move("EXECUTING"), Ask("coder")>>
        /\ Selected.reviewPR = <<Move("REVIEWING")>>
    BY DEF Selected
  <2>3. PlainScript(Emit("READY", "STATUS_REPORTED", TRUE))
    BY EmitSteps DEF RunStates, Kinds, MergeKinds
  <2>4. /\ PlainScript(<<Ask("issue")>>) /\ PlainScript(<<Move("REVIEWING")>>)
        /\ PlainScript(<<Move("EXECUTING"), Ask("coder")>>)
    BY StepTypes, Singles DEF RunStates
  <2> QED
    BY <2>1, <2>2, <2>3, <2>4
<1> QED
  BY <1>1, <1>2

(* the coder's, which may open a pull request,                             *)
LEMMA CoderReplies ==
  ASSUME NEW a \in DOMAIN CoderReply
  PROVE  \/ PlainScript(CoderReply[a])
         \/ /\ CoderReply[a] = <<Call("create"), Call("save")>> \o Emit("PR_OPEN", "PR_OPENED", FALSE)
            /\ CoderReply[a] \in Seq(Steps) /\ CoderReply[a][1] = Call("create")
            /\ Elements(CoderReply[a]) =
                  {Call("create"), Call("save")} \cup Elements(Emit("PR_OPEN", "PR_OPENED", FALSE))
<1>1. CoderReply[a] \in {CoderReply.suppressed, CoderReply.workerBlocked,
                         CoderReply.ownerBlocked, CoderReply.finished}
  BY DEF CoderReply
<1>2. /\ CoderReply.suppressed = ModelSuppressed /\ CoderReply.workerBlocked = WorkerStops
      /\ CoderReply.ownerBlocked = OwnerStops
      /\ CoderReply.finished = <<Call("create"), Call("save")>> \o Emit("PR_OPEN", "PR_OPENED", FALSE)
  BY DEF CoderReply
<1>3. <<Call("create"), Call("save")>> \in Seq(Steps)
  BY StepTypes
<1>4. Elements(<<Call("create"), Call("save")>>) = {Call("create"), Call("save")}
  BY DEF Elements
<1>5. Emit("PR_OPEN", "PR_OPENED", FALSE) \in Seq(Steps)
  BY EmitSteps DEF RunStates, Kinds
<1>6. /\ <<Call("create"), Call("save")>> \o Emit("PR_OPEN", "PR_OPENED", FALSE) \in Seq(Steps)
      /\ Elements(<<Call("create"), Call("save")>> \o Emit("PR_OPEN", "PR_OPENED", FALSE))
            = Elements(<<Call("create"), Call("save")>>) \cup Elements(Emit("PR_OPEN", "PR_OPENED", FALSE))
  <2>1. ASSUME NEW s \in Seq(Steps), NEW t \in Seq(Steps)
        PROVE  s \o t \in Seq(Steps) /\ Elements(s \o t) = Elements(s) \cup Elements(t)
    BY ConcatElements
  <2> QED
    BY <1>3, <1>5, <2>1
<1>7. (<<Call("create"), Call("save")>> \o Emit("PR_OPEN", "PR_OPENED", FALSE))[1] = Call("create")
  <2>1. ASSUME NEW s \in Seq(Steps), NEW t \in Seq(Steps), Len(s) = 2
        PROVE  (s \o t)[1] = s[1]
    BY <2>1, ConcatProperties
  <2> QED
    BY <1>3, <1>5, <2>1
<1> QED
  BY <1>1, <1>2, <1>4, <1>6, <1>7, StopScripts

(* the repairer's, which may push,                                         *)
LEMMA RepairReplies ==
  ASSUME NEW a \in DOMAIN RepairReply
  PROVE  \/ PlainScript(RepairReply[a])
         \/ /\ RepairReply[a] = <<Call("push"), Mark("pr_open")>>
                                \o Emit("PR_OPEN", "PR_REPAIRED", FALSE)
            /\ RepairReply[a] \in Seq(Steps)
            /\ Elements(RepairReply[a]) =
                  {Call("push"), Mark("pr_open")} \cup Elements(Emit("PR_OPEN", "PR_REPAIRED", FALSE))
<1>1. RepairReply[a] \in {RepairReply.suppressed, RepairReply.workerBlocked,
                          RepairReply.ownerBlocked, RepairReply.finished}
  BY DEF RepairReply
<1>2. /\ RepairReply.suppressed = ModelSuppressed /\ RepairReply.workerBlocked = WorkerStops
      /\ RepairReply.ownerBlocked = OwnerStops
      /\ RepairReply.finished = <<Call("push"), Mark("pr_open")>>
                                \o Emit("PR_OPEN", "PR_REPAIRED", FALSE)
  BY DEF RepairReply
<1>3. <<Call("push"), Mark("pr_open")>> \in Seq(Steps)
  BY StepTypes DEF Plain, Statuses
<1>4. Elements(<<Call("push"), Mark("pr_open")>>) = {Call("push"), Mark("pr_open")}
  BY DEF Elements
<1>5. Emit("PR_OPEN", "PR_REPAIRED", FALSE) \in Seq(Steps)
  BY EmitSteps DEF RunStates, Kinds
<1>6. /\ <<Call("push"), Mark("pr_open")>> \o Emit("PR_OPEN", "PR_REPAIRED", FALSE) \in Seq(Steps)
      /\ Elements(<<Call("push"), Mark("pr_open")>> \o Emit("PR_OPEN", "PR_REPAIRED", FALSE))
            = Elements(<<Call("push"), Mark("pr_open")>>) \cup Elements(Emit("PR_OPEN", "PR_REPAIRED", FALSE))
  <2>1. ASSUME NEW s \in Seq(Steps), NEW t \in Seq(Steps)
        PROVE  s \o t \in Seq(Steps) /\ Elements(s \o t) = Elements(s) \cup Elements(t)
    BY ConcatElements
  <2> QED
    BY <1>3, <1>5, <2>1
<1> QED
  BY <1>1, <1>2, <1>4, <1>6, StopScripts

(* the reviewers', of which only the final one, under the gate, may merge. *)
LEMMA ReviewReplies ==
  /\ PlainScript(ChangesRequested) /\ PlainScript(WaitScript) /\ PlainScript(OwnerScript)
  /\ \A a \in DOMAIN ReviewReply :
        \/ PlainScript(ReviewReply[a])
        \/ ReviewReply[a] \in {<<Call("ready"), Ask("final")>>, <<Ask("final")>>}
  /\ \A a \in DOMAIN FinalReply : \/ PlainScript(FinalReply[a])
                                  \/ FinalReply[a] = MergeScript /\ GateAllows
<1>1. /\ PlainScript(Emit("REPAIRING", "REVIEW_BLOCKED", FALSE))
      /\ PlainScript(Emit("BLOCKED", "COMMENT_DECISION", FALSE))
      /\ PlainScript(Emit("BLOCKED", "ATTENTION_REQUIRED", FALSE))
      /\ PlainScript(Emit("COMPLETION_READY", "COMPLETION_READY", TRUE))
      /\ PlainScript(Emit("PR_OPEN", "REVIEW_WAITING", TRUE))
  BY EmitSteps DEF RunStates, Kinds, MergeKinds
<1>2. /\ PlainScript(<<Call("comment"), Mark("repair_requested")>>)
      /\ PlainScript(<<Call("comment"), Mark("owner_blocked")>>)
      /\ PlainScript(<<Call("comment"), Mark("completion_ready")>>)
      /\ PlainScript(<<Move("PR_OPEN"), Mark("pr_open")>>)
  BY StepTypes, Singles DEF Statuses, RunStates
<1>3. PlainScript(ChangesRequested) /\ PlainScript(WaitScript) /\ PlainScript(OwnerScript)
  BY <1>1, <1>2, PlainConcat DEF ChangesRequested, WaitScript, OwnerScript
<1>4. /\ PlainScript(<<Call("comment"), Mark("owner_blocked")>> \o Emit("BLOCKED", "COMMENT_DECISION", FALSE))
      /\ PlainScript(<<Call("comment"), Mark("owner_blocked")>> \o Emit("BLOCKED", "ATTENTION_REQUIRED", FALSE))
  BY <1>1, <1>2, PlainConcat
<1>5. ASSUME NEW a \in DOMAIN ReviewReply
      PROVE  \/ PlainScript(ReviewReply[a])
             \/ ReviewReply[a] \in {<<Call("ready"), Ask("final")>>, <<Ask("final")>>}
  <2>1. ReviewReply[a] \in {ReviewReply.suppressed, ReviewReply.changes,
                            ReviewReply.commentDecision, ReviewReply.approve}
    BY <1>5 DEF ReviewReply
  <2>2. /\ ReviewReply.suppressed = ModelSuppressed /\ ReviewReply.changes = ChangesRequested
        /\ ReviewReply.commentDecision = <<Call("comment"), Mark("owner_blocked")>>
                                         \o Emit("BLOCKED", "COMMENT_DECISION", FALSE)
        /\ ReviewReply.approve \in {<<Call("ready"), Ask("final")>>, <<Ask("final")>>}
    BY DEF ReviewReply
  <2> QED
    BY <1>2, <1>3, <1>4, <2>1, <2>2, StopScripts
<1>6. ASSUME NEW a \in DOMAIN FinalReply
      PROVE  PlainScript(FinalReply[a]) \/ (FinalReply[a] = MergeScript /\ GateAllows)
  <2>1. FinalReply[a] \in {FinalReply.suppressed, FinalReply.changes, FinalReply.decline,
                           FinalReply.ownerBlocked, FinalReply.approve}
    BY <1>6 DEF FinalReply
  <2>2. /\ FinalReply.suppressed = ModelSuppressed /\ FinalReply.changes = ChangesRequested
        /\ FinalReply.decline = WaitScript
        /\ FinalReply.ownerBlocked = <<Call("comment"), Mark("owner_blocked")>>
                                     \o Emit("BLOCKED", "ATTENTION_REQUIRED", FALSE)
    BY DEF FinalReply
  <2>3. \/ FinalReply.approve \in {WaitScript, OwnerScript}
        \/ FinalReply.approve = MergeScript /\ GateAllows
    BY DEF FinalReply
  <2> QED
    BY <1>2, <1>3, <1>4, <2>1, <2>2, <2>3, StopScripts
<1> QED
  BY <1>3, <1>5, <1>6

(* A merge is the one script whose steps have to come in their order.      *)
MergeSteps == <<Call("comment"), Call("merge"), Call("sha"), Call("clear"),
                 Move("COMPLETION_READY"), Move("MERGED"), Move("POST_MERGE_VERIFICATION"),
                 Do("event", "POST_MERGE_VERIFICATION", "PR_MERGED", FALSE), Call("notify")>>
MergeTail(i) == SubSeq(MergeSteps, i, 9)

(* The merge script is nine typed steps,                                   *)
LEMMA MergeStepTypes ==
  MergeSteps \in Seq(Steps) /\ Len(MergeSteps) = 9
<1>1. Len(MergeSteps) = 9
  BY DEF MergeSteps
<1>2. MergeSteps \in Seq(Steps)
  BY DEF MergeSteps, Steps, Do, Move, Mark, Ask, Call, Calls, Asks, RunStates, Kinds
<1> QED
  BY <1>1, <1>2

(* its rests are the rests of a script,                                    *)
LEMMA MergeTails ==
  ASSUME NEW i \in 1..9
  PROVE /\ Tail(MergeTail(i)) = MergeTail(i+1) /\ MergeTail(i)[1] = MergeSteps[i]
        /\ MergeTail(i) # <<>> /\ MergeTail(i) \in Seq(Steps)
<1>1. MergeSteps \in Seq(Steps) /\ Len(MergeSteps) = 9
  BY MergeStepTypes
<1>2. i \in Int /\ 9 \in Int /\ i <= 9 /\ \A j \in i .. 9 : MergeSteps[j] \in Steps
  BY <1>1
<1>3. MergeTail(i) \in Seq(Steps) /\ Len(MergeTail(i)) = 10 - i
  BY <1>2, SubSeqProperties DEF MergeTail
<1>4. Head(MergeTail(i)) = MergeSteps[i] /\ Tail(MergeTail(i)) = MergeTail(i+1)
  <2>1. i \in 1 .. Len(MergeSteps) /\ 9 \in i .. Len(MergeSteps)
    BY <1>1
  <2> QED
    BY <1>1, <2>1, HeadTailOfSubSeq DEF MergeTail
<1> QED
  BY <1>3, <1>4

(* and the whole is the first of them.                                     *)
LEMMA MergeScriptIsTail ==
  MergeTail(1) = MergeScript /\ MergeTail(10) = <<>>
<1> DEFINE s == <<Call("comment"), Call("merge"), Call("sha"), Call("clear"), Move("COMPLETION_READY"), Move("MERGED")>>
           t == Emit("POST_MERGE_VERIFICATION", "PR_MERGED", FALSE)
<1>1. MergeTail(10) = <<>>
  BY MergeStepTypes, SubSeqEmpty DEF MergeTail
<1>2. s \in Seq(Steps) /\ Len(s) = 6
  BY DEF Steps, Do, Move, Mark, Ask, Call, Calls, Asks, RunStates, Kinds
<1>3. t \in Seq(Steps) /\ Len(t) = 3
  BY DEF Steps, Emit, Do, Move, Mark, Ask, Call, Calls, Asks, RunStates, Kinds
<1>4. MergeScript = s \o t
  BY DEF MergeScript
<1>5. /\ s[1] = MergeSteps[1] /\ s[2] = MergeSteps[2] /\ s[3] = MergeSteps[3]
      /\ s[4] = MergeSteps[4] /\ s[5] = MergeSteps[5] /\ s[6] = MergeSteps[6]
      /\ t[1] = MergeSteps[7] /\ t[2] = MergeSteps[8] /\ t[3] = MergeSteps[9]
  BY DEF MergeSteps, Emit
<1> HIDE DEF s, t
<1>6. /\ MergeScript \in Seq(Steps) /\ Len(MergeScript) = 6 + 3
      /\ \A j \in 1 .. 6 + 3 : MergeScript[j] = IF j <= 6 THEN s[j] ELSE t[j - 6]
  <2>1. s \o t \in Seq(Steps) /\ Len(s \o t) = Len(s) + Len(t)
    BY <1>2, <1>3, ConcatProperties
  <2>2. \A j \in 1 .. Len(s) + Len(t) :
           (s \o t)[j] = IF j <= Len(s) THEN s[j] ELSE t[j - Len(s)]
    BY <1>2, <1>3, ConcatProperties
  <2> QED
    BY <1>2, <1>3, <1>4, <2>1, <2>2, Zenon
<1>7. \A j \in 1 .. 9 : MergeScript[j] = MergeSteps[j]
  BY <1>5, <1>6
<1>8. MergeScript = MergeSteps
  BY MergeStepTypes, <1>6, <1>7, SeqEqual
<1>9. MergeTail(1) = MergeSteps
  BY MergeStepTypes, SubSeqFull DEF MergeTail
<1> QED
  BY <1>1, <1>4, <1>8, <1>9

----------------------------------------------------------------------------
(* The scripts a pass can be in the middle of, and what each takes for     *)
(* granted of the store, of GitHub and of the pass until it is done.       *)

Repairing == /\ Elements(todo) \subseteq {Move("REPAIRING"), Call("read"), Ask("repair")}
             /\ pass.pr \in PR
             /\ pass.head <= pr[pass.pr].head

Judging == /\ Elements(todo) \subseteq {Move("REVIEWING"), Call("read"), Ask("review"),
                                       Call("ready"), Ask("final")}
           /\ pass.pr \in PR
           /\ state = "REVIEWING" \/ todo[1] = Move("REVIEWING")

Creating == /\ Elements(todo) \subseteq Plain \cup {Call("create"), Call("save")}
            /\ pass.pr \in PR \/ todo[1] = Call("create")

Pushing == /\ Elements(todo) \subseteq Plain \cup {Call("push")}
           /\ pass.head < MaxHead

(* The state of the repository when the ith step of a merge is the next.   *)
MergeState == <<"REVIEWING", "REVIEWING", "REVIEWING", "REVIEWING", "REVIEWING",
                "COMPLETION_READY", "MERGED",
                "POST_MERGE_VERIFICATION", "POST_MERGE_VERIFICATION">>
NotYetMerged == merges[pass.pr] = 0
MergeOnMain == /\ merges[pass.pr] > 0 /\ log.sha[pass.pr] = 0
               /\ Contains(Len(main), pass.pr)
HeadKnown == pass.sha \in 1 .. Len(main) /\ Contains(pass.sha, pass.pr)
Merging == \E i \in 1 .. 9 :
             /\ todo = MergeTail(i)
             /\ state = MergeState[i]
             /\ pass.ctx = "bare" /\ pass.pr \in PR
             /\ i <= 2 => NotYetMerged
             /\ i \in 3 .. 8 => MergeOnMain
             /\ i \in 4 .. 8 => HeadKnown

Report(kind) == {e \in Steps : e.do = "event" /\ e.kind = kind}
Judged(kind) == /\ log.of \in PR /\ log.sha[log.of] \in 1 .. Len(main)
                /\ kind = "POST_MERGE_VERIFIED" => Runs = "passed"
                /\ kind = "POST_MERGE_FAILED" => Runs = "failed"
Concluding == \E kind \in {"POST_MERGE_VERIFIED", "POST_MERGE_FAILED"} :
                Elements(todo) \subseteq Plain \cup Report(kind) /\ Judged(kind)

ScriptFits == \/ PlainScript(todo) \/ Repairing \/ Judging \/ Creating \/ Pushing
              \/ Merging \/ Concluding

(* What merge calls, GitHub, the event log and the verdicts say of a pull  *)
(* request fits together.                                                  *)
MergeFits(p) == /\ merges[p] <= 1
                /\ merges[p] > 0 => pr[p].st = "merged"
                /\ pr[p].st = "merged" => Contains(Len(main), p)
                /\ log.sha[p] # 0 => /\ merges[p] > 0
                                     /\ log.sha[p] \in 1 .. Len(main)
                                     /\ Contains(log.sha[p], p)
                /\ log.sha[p] = 0 => log.newer[p] = 0
                /\ verdict[p] # "none" => log.sha[p] # 0
                /\ verdict[p] = "verified" => main[log.sha[p]].runs = "passed"
                /\ verdict[p] = "failed" => main[log.sha[p]].runs = "failed"
MergesFit == (\A p \in PR : MergeFits(p)) /\ (log.of # 0 => log.sha[log.of] # 0)

SafeInv == TypeOK /\ ScriptFits /\ MergesFit

(* The nine steps.                                                         *)
LEMMA MergeStepsAre ==
  /\ MergeSteps[1] = Call("comment") /\ MergeSteps[2] = Call("merge")
  /\ MergeSteps[3] = Call("sha") /\ MergeSteps[4] = Call("clear")
  /\ MergeSteps[5] = Move("COMPLETION_READY") /\ MergeSteps[6] = Move("MERGED")
  /\ MergeSteps[7] = Move("POST_MERGE_VERIFICATION")
  /\ MergeSteps[8] = Do("event", "POST_MERGE_VERIFICATION", "PR_MERGED", FALSE)
  /\ MergeSteps[9] = Call("notify")
BY DEF MergeSteps

(* The run state before each of them.                                      *)
LEMMA MergeStatesAre ==
  /\ MergeState[1] = "REVIEWING" /\ MergeState[2] = "REVIEWING" /\ MergeState[3] = "REVIEWING"
  /\ MergeState[4] = "REVIEWING" /\ MergeState[5] = "REVIEWING"
  /\ MergeState[6] = "COMPLETION_READY" /\ MergeState[7] = "MERGED"
  /\ MergeState[8] = "POST_MERGE_VERIFICATION" /\ MergeState[9] = "POST_MERGE_VERIFICATION"
BY DEF MergeState

(* Commits of the default branch stay where they are, and what the runs of *)
(* one have come to stays too.                                             *)
MainGrows == /\ Len(main) <= Len(main')
             /\ \A c \in 1 .. Len(main) :
                   /\ main'[c].pr = main[c].pr
                   /\ main[c].runs # "running" => main'[c].runs = main[c].runs

(* No further merge is recorded.                                           *)
SameLog == /\ log'.of = log.of /\ log'.sha = log.sha
           /\ \A p \in PR : log.sha[p] = 0 => log'.newer[p] = log.newer[p]

(* A commit contains what it contained,                                    *)
LEMMA ContainsGrows ==
  ASSUME TypeOK, TypeOK', MainGrows
  PROVE  /\ \A p \in PR, c \in 1 .. Len(main) :
               Contains(c, p) => c \in 1 .. Len(main') /\ Contains(c, p)'
         /\ \A p \in PR : Contains(Len(main), p) => Contains(Len(main), p)'
<1>1. Len(main) \in Nat /\ Len(main') \in Nat /\ Len(main) <= Len(main')
  BY DEF TypeOK, MainGrows
<1>2. ASSUME NEW p \in PR, NEW c \in 1 .. Len(main), Contains(c, p)
      PROVE  c \in 1 .. Len(main') /\ Contains(c, p)'
  <2>1. PICK i \in 1 .. c : main[i].pr = p
    BY <1>2 DEF Contains
  <2>2. i \in 1 .. Len(main) /\ main'[i].pr = p
    BY <1>1, <2>1 DEF MainGrows
  <2> QED
    BY <1>1, <2>2 DEF Contains
<1>3. ASSUME NEW p \in PR, Contains(Len(main), p)
      PROVE  Contains(Len(main), p)'
  <2>1. PICK i \in 1 .. Len(main) : main[i].pr = p
    BY <1>3 DEF Contains
  <2>2. i \in 1 .. Len(main') /\ main'[i].pr = p
    BY <1>1, <2>1 DEF MainGrows
  <2> QED
    BY <2>2 DEF Contains
<1> QED
  BY <1>2, <1>3

(* when the branch stays as it is,                                         *)
LEMMA SameMainGrows ==
  ASSUME TypeOK, main' = main
  PROVE  MainGrows
<1>1. Len(main) \in Nat
  BY DEF TypeOK
<1> QED
  BY <1>1 DEF MainGrows

(* when a commit lands on it, which then contains that one,                *)
LEMMA LandedGrows ==
  ASSUME TypeOK, NEW p \in Number, main' = Landed(p)
  PROVE  MainGrows /\ main' \in Seq(Commits) /\ Contains(Len(main), p)'
<1> DEFINE d == [pr |-> p, runs |-> "running"]
<1>1. main \in Seq(Commits) /\ d \in Commits /\ main' = Append(main, d)
  BY DEF TypeOK, Commits, Landed
<1>2. d.pr = p
  OBVIOUS
<1> HIDE DEF d
<1>3. /\ main' \in Seq(Commits) /\ Len(main') = Len(main) + 1 /\ Len(main) \in Nat
      /\ main'[Len(main) + 1] = d
      /\ \A c \in 1 .. Len(main) : main'[c] = main[c]
  BY <1>1
<1>4. MainGrows
  BY <1>3 DEF MainGrows
<1>5. Len(main) + 1 \in 1 .. Len(main')
  BY <1>3
<1>6. Contains(Len(main), p)'
  BY <1>2, <1>3, <1>5 DEF Contains
<1> QED
  BY <1>3, <1>4, <1>6

(* and when its runs finish.                                               *)
LEMMA ReportGrows ==
  ASSUME TypeOK, NEW c, MainReports(c)
  PROVE  MainGrows /\ main' \in Seq(Commits)
<1>1. PICK r \in {"passed", "failed"} : main' = [main EXCEPT ![c].runs = r]
  BY DEF MainReports
<1>2. /\ main \in Seq(Commits) /\ Len(main) \in Nat /\ c \in 1 .. Len(main)
      /\ main[c].runs = "running" /\ \A i \in 1 .. Len(main) : main[i] \in Commits
  BY DEF TypeOK, MainReports
<1>3. [main[c] EXCEPT !.runs = r] \in Commits /\ [main[c] EXCEPT !.runs = r].pr = main[c].pr
  BY <1>2 DEF Commits
<1>4. /\ main' \in Seq(Commits) /\ Len(main') = Len(main)
      /\ \A i \in 1 .. Len(main) :
            main'[i] = IF i = c THEN [main[c] EXCEPT !.runs = r] ELSE main[i]
  BY <1>1, <1>2, <1>3
<1>5. Len(main) <= Len(main')
  BY <1>2, <1>4
<1>6. ASSUME NEW i \in 1 .. Len(main)
      PROVE  /\ main'[i].pr = main[i].pr
             /\ main[i].runs # "running" => main'[i].runs = main[i].runs
  <2>1. CASE i = c
    BY <1>2, <1>3, <1>4, <2>1
  <2>2. CASE i # c
    BY <1>4, <2>2
  <2> QED
    BY <2>1, <2>2
<1> QED
  BY <1>4, <1>5, <1>6 DEF MainGrows

(* Which script the next step tells a pass to be in.                       *)
LEMMA NextStep ==
  ASSUME TypeOK, ScriptFits, todo # <<>>
  PROVE  /\ todo[1] \in Steps
         /\ todo[1].do = "mark" => todo[1].arg # "none"
         /\ todo[1].do = "read" => Repairing \/ Judging
         /\ todo[1].do = "repair" => Repairing
         /\ todo[1].do \in {"review", "final", "ready"} => Judging
         /\ todo[1].do \in {"create", "save"} => Creating
         /\ todo[1].do = "push" => Pushing
         /\ todo[1].do \in {"merge", "sha", "clear"} => Merging
         /\ todo[1] \in Report("PR_MERGED") => Merging
<1>1. todo[1] \in Steps /\ todo[1] \in Elements(todo)
  BY TailElements DEF TypeOK
<1>2a. todo[1] \in Plain =>
         /\ todo[1].do \in {"move", "event", "notify", "mark", "plan", "issue", "coder", "comment"}
         /\ todo[1].do = "mark" => todo[1].arg # "none"
         /\ todo[1] \notin Report("PR_MERGED")
  BY DEF Plain, Report, MergeKinds
<1>2. CASE PlainScript(todo)
  BY <1>1, <1>2, <1>2a DEF PlainScript
<1>3. CASE Repairing
  <2>1. todo[1].do \in {"move", "read", "repair"}
    BY <1>1, <1>3, StepDo DEF Repairing
  <2> QED
    BY <1>1, <1>3, <2>1 DEF Report
<1>4. CASE Judging
  <2>1. todo[1].do \in {"move", "read", "review", "ready", "final"}
    BY <1>1, <1>4, StepDo DEF Judging
  <2> QED
    BY <1>1, <1>4, <2>1 DEF Report
<1>5. CASE Creating
  <2>1. todo[1] \in Plain \/ todo[1].do \in {"create", "save"}
    BY <1>1, <1>5, StepDo DEF Creating
  <2> QED
    BY <1>1, <1>2a, <1>5, <2>1 DEF Report
<1>6. CASE Pushing
  <2>1. todo[1] \in Plain \/ todo[1].do = "push"
    BY <1>1, <1>6, StepDo DEF Pushing
  <2> QED
    BY <1>1, <1>2a, <1>6, <2>1 DEF Report
<1>7. CASE Merging
  <2>1. PICK i \in 1 .. 9 : todo[1] = MergeSteps[i]
    BY <1>7, MergeTails DEF Merging
  <2>2. /\ MergeSteps[1].do = "comment" /\ MergeSteps[2].do = "merge" /\ MergeSteps[3].do = "sha"
        /\ MergeSteps[4].do = "clear" /\ MergeSteps[5].do = "move" /\ MergeSteps[6].do = "move"
        /\ MergeSteps[7].do = "move" /\ MergeSteps[8].do = "event" /\ MergeSteps[9].do = "notify"
    BY DEF MergeSteps, Move, Call, Do
  <2> QED
    BY <1>1, <1>7, <2>1, <2>2
<1>8. CASE Concluding
  <2>1. PICK kind \in {"POST_MERGE_VERIFIED", "POST_MERGE_FAILED"} :
                todo[1] \in Plain \cup Report(kind)
    BY <1>1, <1>8 DEF Concluding
  <2>2. CASE todo[1] \in Plain
    BY <1>1, <1>2a, <2>2
  <2>3. CASE todo[1] \in Report(kind)
    BY <1>1, <2>3 DEF Report
  <2> QED
    BY <2>1, <2>2, <2>3
<1> QED
  BY <1>2, <1>3, <1>4, <1>5, <1>6, <1>7, <1>8 DEF ScriptFits

(* A step that only takes itself off the script leaves the rest in place.  *)
LEMMA RestFits ==
  ASSUME TypeOK, TypeOK', ScriptFits, todo # <<>>, todo' = Tail(todo),
         todo' # <<>> => /\ pass'.pr = pass.pr /\ pass'.head = pass.head
                         /\ pass'.sha = pass.sha /\ pass'.ctx = pass.ctx,
         todo[1].do \notin {"move", "create", "merge", "sha"}, state' = state,
         \A p \in PR : pr[p].head <= pr'[p].head,
         main' = main, merges' = merges,
         todo[1] \notin Report("PR_MERGED") => SameLog
  PROVE  ScriptFits'
<1>1. todo' \in Seq(Steps) /\ todo[1] \in Steps /\ Elements(todo') \subseteq Elements(todo)
  BY TailElements DEF TypeOK
<1>2. CASE todo' = <<>>
  BY <1>2, Singles DEF ScriptFits
<1>3. CASE todo' # <<>> /\ PlainScript(todo)
  BY <1>1, <1>3 DEF ScriptFits, PlainScript
<1>4. CASE todo' # <<>> /\ Repairing
  <2>1. pass.pr \in PR /\ pass.head \in Nat /\ pr[pass.pr].head \in Nat /\ pr'[pass.pr].head \in Nat
    BY <1>4 DEF Repairing, TypeOK
  <2>2. Repairing'
    BY <1>1, <1>4, <2>1 DEF Repairing
  <2> QED
    BY <2>2 DEF ScriptFits
<1>5. CASE todo' # <<>> /\ Judging
  <2>1. state = "REVIEWING"
    BY <1>5, StepDo DEF Judging
  <2>2. Judging'
    BY <1>1, <1>5, <2>1 DEF Judging
  <2> QED
    BY <2>2 DEF ScriptFits
<1>6. CASE todo' # <<>> /\ Creating
  <2>1. pass.pr \in PR
    BY <1>6, StepDo DEF Creating
  <2>2. Creating'
    BY <1>1, <1>6, <2>1 DEF Creating
  <2> QED
    BY <2>2 DEF ScriptFits
<1>7. CASE todo' # <<>> /\ Pushing
  <2>1. Pushing'
    BY <1>1, <1>7 DEF Pushing
  <2> QED
    BY <2>1 DEF ScriptFits
<1>8. CASE todo' # <<>> /\ Merging
  <2>1. PICK i \in 1 .. 9 : /\ todo = MergeTail(i) /\ state = MergeState[i] /\ pass.ctx = "bare"
                            /\ pass.pr \in PR
                            /\ i <= 2 => NotYetMerged
                            /\ i \in 3 .. 8 => MergeOnMain
                            /\ i \in 4 .. 8 => HeadKnown
    BY <1>8 DEF Merging
  <2>2. todo[1] = MergeSteps[i] /\ todo' = MergeTail(i + 1)
    BY <2>1, MergeTails
  <2>3. i # 9
    BY <1>8, <2>2, MergeScriptIsTail
  <2>4. i \notin {2, 3, 5, 6, 7}
    <3>1. /\ MergeSteps[2].do = "merge" /\ MergeSteps[3].do = "sha"
          /\ MergeSteps[5].do = "move" /\ MergeSteps[6].do = "move" /\ MergeSteps[7].do = "move"
      BY MergeStepsAre, StepDo
    <3> QED
      BY <2>2, <3>1
  <2>5. i \in {1, 4, 8} /\ i + 1 \in 1 .. 9
    BY <2>3, <2>4
  <2>6. MergeState[i + 1] = MergeState[i]
    BY <2>5, MergeStatesAre
  <2>7. i # 8 => SameLog
    <3>1. MergeSteps[1].do = "comment" /\ MergeSteps[4].do = "clear"
      BY MergeStepsAre, StepDo
    <3> QED
      BY <2>2, <2>5, <3>1 DEF Report
  <2>8. /\ todo' = MergeTail(i + 1) /\ state' = MergeState[i + 1] /\ pass'.ctx = "bare"
        /\ pass'.pr \in PR
    BY <1>8, <2>1, <2>2, <2>6
  <2>9. i + 1 <= 2 => NotYetMerged'
    BY <1>8, <2>1, <2>5 DEF NotYetMerged
  <2>10. i + 1 \in 3 .. 8 => MergeOnMain' /\ HeadKnown'
    <3>1. i + 1 \in 3 .. 8 => i = 4
      BY <2>5
    <3> QED
      BY <1>8, <2>1, <2>7, <3>1 DEF MergeOnMain, HeadKnown, SameLog, Contains
  <2>11. i + 1 \in 4 .. 8 => i + 1 \in 3 .. 8
    OBVIOUS
  <2>12. Merging'
    BY <2>5, <2>8, <2>9, <2>10, <2>11 DEF Merging
  <2> QED
    BY <2>12 DEF ScriptFits
<1>9. CASE todo' # <<>> /\ Concluding
  <2>1. PICK kind \in {"POST_MERGE_VERIFIED", "POST_MERGE_FAILED"} :
               Elements(todo) \subseteq Plain \cup Report(kind) /\ Judged(kind)
    BY <1>9 DEF Concluding
  <2>2. todo[1] \in Plain \cup Report(kind)
    BY <2>1, TailElements DEF TypeOK
  <2>3. SameLog
    BY <2>2 DEF Plain, Report, MergeKinds
  <2>4. Judged(kind)'
    BY <2>1, <2>3 DEF Judged, SameLog, Runs
  <2>5. Concluding'
    BY <1>1, <2>1, <2>4 DEF Concluding
  <2> QED
    BY <2>5 DEF ScriptFits
<1> QED
  BY <1>2, <1>3, <1>4, <1>5, <1>6, <1>7, <1>8, <1>9 DEF ScriptFits

(* A plain rest is one the invariant admits.                               *)
LEMMA PlainFits ==
  ASSUME PlainScript(todo')
  PROVE  ScriptFits'
BY DEF ScriptFits

(* What happens elsewhere does not disturb what a script takes for granted.*)
LEMMA SameScriptFits ==
  ASSUME TypeOK, TypeOK', ScriptFits, todo' = todo,
         pass'.pr = pass.pr, pass'.head = pass.head, pass'.sha = pass.sha, pass'.ctx = pass.ctx,
         state' = state, log' = log, merges' = merges, MainGrows,
         \A p \in PR : pr[p].head <= pr'[p].head
  PROVE  ScriptFits'
<1>1. CASE PlainScript(todo)
  BY <1>1 DEF ScriptFits
<1>2. CASE Repairing
  <2>1. pass.pr \in PR /\ pass.head \in Nat /\ pr[pass.pr].head \in Nat /\ pr'[pass.pr].head \in Nat
    BY <1>2 DEF Repairing, TypeOK
  <2>2. Repairing'
    BY <1>2, <2>1 DEF Repairing
  <2> QED
    BY <2>2 DEF ScriptFits
<1>3. CASE Judging
  BY <1>3 DEF Judging, ScriptFits
<1>4. CASE Creating
  BY <1>4 DEF Creating, ScriptFits
<1>5. CASE Pushing
  BY <1>5 DEF Pushing, ScriptFits
<1>6. CASE Merging
  <2>1. PICK i \in 1 .. 9 : /\ todo = MergeTail(i) /\ state = MergeState[i] /\ pass.ctx = "bare"
                            /\ pass.pr \in PR
                            /\ i <= 2 => NotYetMerged
                            /\ i \in 3 .. 8 => MergeOnMain
                            /\ i \in 4 .. 8 => HeadKnown
    BY <1>6 DEF Merging
  <2>2. NotYetMerged => NotYetMerged'
    BY DEF NotYetMerged
  <2>3. MergeOnMain => MergeOnMain'
    BY <2>1, ContainsGrows DEF MergeOnMain, Contains
  <2>4. HeadKnown => HeadKnown'
    BY <2>1, ContainsGrows DEF HeadKnown, Contains
  <2>5. Merging'
    BY <2>1, <2>2, <2>3, <2>4 DEF Merging
  <2> QED
    BY <2>5 DEF ScriptFits
<1>7. CASE Concluding
  <2>1. PICK kind \in {"POST_MERGE_VERIFIED", "POST_MERGE_FAILED"} :
               Elements(todo) \subseteq Plain \cup Report(kind) /\ Judged(kind)
    BY <1>7 DEF Concluding
  <2>2. Len(main) \in Nat /\ Len(main') \in Nat
    BY DEF TypeOK
  <2>3. Judged(kind)'
    BY <2>1, <2>2 DEF Judged, Runs, MainGrows
  <2>4. Concluding'
    BY <2>1, <2>3 DEF Concluding
  <2> QED
    BY <2>4 DEF ScriptFits
<1> QED
  BY <1>1, <1>2, <1>3, <1>4, <1>5, <1>6, <1>7 DEF ScriptFits

----------------------------------------------------------------------------
(* Type correctness, step by step.                                         *)

Passes == [ctx : {"none", "bare", "execute"}, pr : Number, head : 0 .. MaxHead,
           sha : Nat, same : BOOLEAN, still : BOOLEAN, retry : BOOLEAN]
LastEvents == [kind : Kinds, st : RunStates, same : BOOLEAN]
Pull == [st : {"none", "draft", "ready", "merged"}, head : 0 .. MaxHead,
         gate : {"pending", "held", "clean"}]

(* The ways a pass record changes are typed.                               *)
LEMMA PassTypes ==
  ASSUME TypeOK
  PROVE  /\ pass \in Passes /\ NoPass \in Passes /\ last \in LastEvents /\ Stale(last) \in LastEvents
         /\ Stale(pass) \in Passes /\ [Stale(pass) EXCEPT !.still = FALSE] \in Passes
         /\ [pass EXCEPT !.ctx = "bare"] \in Passes
         /\ \A retry \in BOOLEAN : [pass EXCEPT !.ctx = "execute", !.retry = retry] \in Passes
         /\ \A p \in PR : [Stale([pass EXCEPT !.pr = p]) EXCEPT !.still = FALSE] \in Passes
         /\ \A h \in 0 .. MaxHead : [pass EXCEPT !.head = h] \in Passes
         /\ \A c \in Nat : [pass EXCEPT !.sha = c] \in Passes
<1>1. pass \in Passes /\ last \in LastEvents
  BY DEF TypeOK, Passes, LastEvents
<1>2. NoPass \in Passes
  BY BoundsAreSane DEF NoPass, Passes, Number
<1>3. Stale(last) \in LastEvents
  BY <1>1 DEF Stale, LastEvents
<1>4. /\ Stale(pass) \in Passes /\ [Stale(pass) EXCEPT !.still = FALSE] \in Passes
      /\ [pass EXCEPT !.ctx = "bare"] \in Passes
  BY <1>1 DEF Stale, Passes
<1>5. \A retry \in BOOLEAN : [pass EXCEPT !.ctx = "execute", !.retry = retry] \in Passes
  BY <1>1 DEF Passes
<1>6. \A p \in PR : [Stale([pass EXCEPT !.pr = p]) EXCEPT !.still = FALSE] \in Passes
  <2>1. \A p \in PR : p \in Number
    BY BoundsAreSane DEF PR, Number
  <2> QED
    BY <1>1, <2>1 DEF Stale, Passes
<1>7. /\ \A h \in 0 .. MaxHead : [pass EXCEPT !.head = h] \in Passes
      /\ \A c \in Nat : [pass EXCEPT !.sha = c] \in Passes
  BY <1>1 DEF Passes
<1> QED
  BY <1>1, <1>2, <1>3, <1>4, <1>5, <1>6, <1>7

(* Going on with a script is typed.                                        *)
LEMMA ThenTypes ==
  ASSUME TypeOK, NEW s \in Seq(Steps), NEW p \in Passes, Then(s, p)
  PROVE  todo' \in Seq(Steps) /\ pass' \in Passes
BY PassTypes DEF Then

(* A disturbance is counted within its bound.                              *)
LEMMA TroubleTypes ==
  ASSUME TypeOK, NEW what \in {"others", "mishaps", "unsent"}, Disturb(what)
  PROVE  trouble' \in [{"others", "mishaps", "unsent"} -> 0 .. MaxTrouble]
<1>1. /\ trouble["others"] \in Nat /\ trouble["mishaps"] \in Nat /\ trouble["unsent"] \in Nat
      /\ trouble["others"] + trouble["mishaps"] + trouble["unsent"] < MaxTrouble
  BY BoundsAreSane DEF TypeOK, Disturb
<1>2. trouble[what] + 1 \in 0 .. MaxTrouble
  BY <1>1, BoundsAreSane
<1>3. trouble' = [trouble EXCEPT ![what] = trouble[what] + 1]
  BY DEF Disturb
<1> QED
  BY <1>2, <1>3 DEF TypeOK

(* An exception leaves a plain rest.                                       *)
LEMMA RaiseSteps ==
  ASSUME TypeOK, Raise
  PROVE  PlainScript(todo') /\ todo' \in Seq(Steps) /\ pass' \in Passes
<1>1. PlainScript(Emit("DEGRADED", FailureKind, TRUE)) /\ PlainScript(<<>>)
  BY StopScripts, Singles
<1>2. PlainScript(todo')
  BY <1>1 DEF Raise, AfterRaise, Then
<1>3. pass' \in Passes
  BY PassTypes DEF Raise, AfterRaise, Then
<1> QED
  BY <1>2, <1>3 DEF PlainScript

(* What remains to be said of a step that leaves the store alone.          *)
LEMMA PassOnlyTypes ==
  ASSUME TypeOK, todo' \in Seq(Steps), pass' \in Passes,
         UNCHANGED <<store, github, policy, history>>,
         trouble' \in [{"others", "mishaps", "unsent"} -> 0 .. MaxTrouble]
  PROVE  TypeOK'
BY DEF TypeOK, Passes, store, github, history

(* Every step of a pass keeps types and leaves a script that fits.         *)
LEMMA DoneKeeps ==
  ASSUME TypeOK, todo # <<>>, Done
  PROVE  /\ todo' = Tail(todo) /\ todo' \in Seq(Steps) /\ pass' \in Passes
         /\ todo' # <<>> => pass' = pass
<1>1. Tail(todo) \in Seq(Steps) /\ pass \in Passes
  BY TailElements, PassTypes DEF TypeOK
<1> QED
  BY <1>1, PassTypes DEF Done, Then

(* One lemma per kind of step: types and scripts are kept by a transition, *)
LEMMA MoveKeeps ==
  ASSUME SafeInv, DoMove
  PROVE  TypeOK' /\ ScriptFits'
<1>1. todo # <<>> /\ todo[1].do = "move" /\ state' = todo[1].arg
  BY DEF DoMove, Doing
<1>2. /\ todo' = Tail(todo) /\ todo' \in Seq(Steps) /\ pass' \in Passes
      /\ todo' # <<>> => pass' = pass
  BY <1>1, DoneKeeps DEF DoMove, SafeInv
<1>3. todo[1] \in Steps /\ Elements(todo') \subseteq Elements(todo) /\ todo[1] \in Elements(todo)
  BY <1>1, <1>2, TailElements DEF SafeInv, TypeOK
<1>4. state' \in RunStates
  BY <1>1, <1>3 DEF Steps, Calls, Asks
<1>5. TypeOK'
  BY <1>2, <1>4 DEF DoMove, SafeInv, TypeOK, Passes, github, history
<1>6. CASE PlainScript(todo) \/ todo' = <<>>
  <2>1. PlainScript(todo')
    BY <1>2, <1>3, <1>6, Singles DEF PlainScript
  <2> QED
    BY <1>5, <2>1, PlainFits
<1>7. CASE todo' # <<>> /\ Repairing
  BY <1>2, <1>3, <1>5, <1>7 DEF Repairing, ScriptFits, DoMove, github
<1>8. CASE todo' # <<>> /\ Judging
  <2>1. todo[1] = Move("REVIEWING")
    BY <1>1, <1>3, <1>8, StepDo DEF Judging
  <2>2. state' = "REVIEWING"
    BY <1>1, <2>1, StepDo
  <2>3. Judging'
    BY <1>2, <1>3, <1>8, <2>2 DEF Judging
  <2> QED
    BY <1>5, <2>3 DEF ScriptFits
<1>9. CASE todo' # <<>> /\ Creating
  <2>1. pass.pr \in PR
    BY <1>1, <1>9, StepDo DEF Creating
  <2>2. Creating'
    BY <1>2, <1>3, <1>9, <2>1 DEF Creating
  <2> QED
    BY <1>5, <2>2 DEF ScriptFits
<1>10. CASE todo' # <<>> /\ Pushing
  BY <1>2, <1>3, <1>5, <1>10 DEF Pushing, ScriptFits
<1>11. CASE todo' # <<>> /\ Merging
  <2>1. PICK i \in 1 .. 9 : /\ todo = MergeTail(i) /\ state = MergeState[i] /\ pass.ctx = "bare"
                            /\ pass.pr \in PR
                            /\ i \in 3 .. 8 => MergeOnMain
                            /\ i \in 4 .. 8 => HeadKnown
    BY <1>11 DEF Merging
  <2>2. todo[1] = MergeSteps[i] /\ todo' = MergeTail(i + 1)
    BY <1>2, <2>1, MergeTails
  <2>3. i \in {5, 6, 7}
    <3>1. /\ MergeSteps[1].do # "move" /\ MergeSteps[2].do # "move" /\ MergeSteps[3].do # "move"
          /\ MergeSteps[4].do # "move" /\ MergeSteps[8].do # "move" /\ MergeSteps[9].do # "move"
      BY DEF MergeSteps, Move, Call, Do
    <3> QED
      BY <1>1, <2>2, <3>1
  <2>4. state' = MergeState[i + 1]
    <3>1. /\ MergeSteps[5].arg = "COMPLETION_READY" /\ MergeSteps[6].arg = "MERGED"
          /\ MergeSteps[7].arg = "POST_MERGE_VERIFICATION"
      BY DEF MergeSteps, Move, Call, Do
    <3> QED
      BY <1>1, <2>2, <2>3, <3>1, MergeStatesAre
  <2>5. /\ i + 1 \in 1 .. 9 /\ ~(i + 1 <= 2)
        /\ todo' = MergeTail(i + 1) /\ state' = MergeState[i + 1] /\ pass'.ctx = "bare"
        /\ pass'.pr \in PR
    BY <1>2, <1>11, <2>1, <2>2, <2>3, <2>4
  <2>6. MergeOnMain' /\ HeadKnown'
    <3>1. i \in 3 .. 8 /\ i \in 4 .. 8
      BY <2>3
    <3> QED
      BY <1>2, <1>11, <2>1, <3>1
         DEF MergeOnMain, HeadKnown, Contains, DoMove, github, history
  <2>7. Merging'
    BY <2>5, <2>6 DEF Merging
  <2> QED
    BY <1>5, <2>7 DEF ScriptFits
<1>12. CASE todo' # <<>> /\ Concluding
  <2>1. Concluding'
    BY <1>3, <1>12 DEF Concluding, Judged, Runs, DoMove, github
  <2> QED
    BY <1>5, <2>1 DEF ScriptFits
<1> QED
  BY <1>5, <1>6, <1>7, <1>8, <1>9, <1>10, <1>11, <1>12 DEF ScriptFits, SafeInv

(* an exception,                                                           *)
LEMMA RaiseKeeps ==
  ASSUME SafeInv, Raise, UNCHANGED <<store, github, policy, history>>,
         trouble' \in [{"others", "mishaps", "unsent"} -> 0 .. MaxTrouble]
  PROVE  TypeOK' /\ ScriptFits'
BY RaiseSteps, PassOnlyTypes, PlainFits DEF SafeInv

(* (the log stays typed)                                                   *)
LEMMA LoggedTypes ==
  ASSUME TypeOK, NEW kind
  PROVE  /\ Logged(kind) \in Events
         /\ kind # "PR_MERGED" => Logged(kind).of = log.of /\ Logged(kind).sha = log.sha
         /\ \A p \in PR : log.sha[p] = 0 => Older[p] = log.newer[p]
         /\ kind # "PR_MERGED" => Logged(kind).newer = Older
<1>1. /\ log \in Events /\ log.sha \in [PR -> Nat] /\ log.newer \in [PR -> 0 .. EventWindow]
      /\ pass.sha \in Nat /\ pass.pr \in Number
  BY DEF TypeOK, Events
<1>2. Older \in [PR -> 0 .. EventWindow]
  BY <1>1, BoundsAreSane DEF Older
<1>3. /\ [log.sha EXCEPT ![pass.pr] = pass.sha] \in [PR -> Nat]
      /\ [Older EXCEPT ![pass.pr] = 0] \in [PR -> 0 .. EventWindow]
  <2>1. 0 \in 0 .. EventWindow
    BY BoundsAreSane
  <2>2. [log.sha EXCEPT ![pass.pr] = pass.sha] \in [PR -> Nat]
    BY <1>1
  <2>3. [Older EXCEPT ![pass.pr] = 0] \in [PR -> 0 .. EventWindow]
    BY <1>2, <2>1
  <2> QED
    BY <2>2, <2>3
<1>4. ASSUME kind = "PR_MERGED"
      PROVE  Logged(kind) \in Events
  <2>1. Logged(kind) = [of |-> pass.pr, sha |-> [log.sha EXCEPT ![pass.pr] = pass.sha],
                        newer |-> [Older EXCEPT ![pass.pr] = 0]]
    BY <1>4 DEF Logged
  <2> QED
    BY <1>1, <1>3, <1>4, <2>1 DEF Events
<1>5. ASSUME kind # "PR_MERGED"
      PROVE  /\ Logged(kind) \in Events
             /\ Logged(kind).of = log.of /\ Logged(kind).sha = log.sha
             /\ Logged(kind).newer = Older
  <2>1. Logged(kind) = [log EXCEPT !.newer = Older]
    BY <1>5 DEF Logged
  <2> QED
    BY <1>1, <1>2, <2>1 DEF Events
<1>6. ASSUME NEW p \in PR, log.sha[p] = 0
      PROVE  Older[p] = log.newer[p]
  BY <1>6 DEF Older
<1>7. \A p \in PR : log.sha[p] = 0 => Older[p] = log.newer[p]
  BY <1>6
<1> QED
  BY <1>4, <1>5, <1>7

(* an event,                                                               *)
LEMMA EventKeeps ==
  ASSUME SafeInv, RecordEvent
  PROVE  TypeOK' /\ ScriptFits'
<1> DEFINE e == todo[1]
<1>1. todo # <<>> /\ e.do = "event" /\ e \in Steps /\ (e \in Report("PR_MERGED") => Merging)
  BY NextStep DEF RecordEvent, Doing, SafeInv
<1>2. /\ todo' = Tail(todo) /\ todo' \in Seq(Steps) /\ pass' \in Passes
      /\ todo' # <<>> => pass' = pass
  BY <1>1, DoneKeeps DEF RecordEvent, SafeInv
<1>3. e.arg \in RunStates /\ e.kind \in Kinds /\ e.keyed \in BOOLEAN
  BY <1>1 DEF Steps, Calls, Asks
<1>4. /\ last' = [kind |-> e.kind, st |-> e.arg, same |-> e.keyed /\ pass.same]
      /\ log' = Logged(e.kind)
      /\ waited' \in {e.kind, waited}
      /\ waited' = e.kind => e.kind \in {"REVIEW_WAITING", "COMPLETION_READY"} \/ waited' = waited
      /\ verdict' \in {verdict, [verdict EXCEPT ![log.of] = Outcome(e.kind)]}
      /\ UNCHANGED <<state, active, github, policy, trouble, merges>>
  BY DEF RecordEvent
<1>5. last' \in LastEvents
  <2>1. (e.keyed /\ pass.same) \in BOOLEAN
    OBVIOUS
  <2> QED
    BY <1>3, <1>4, <2>1 DEF LastEvents
<1>6. log' \in Events /\ (e.kind # "PR_MERGED" => SameLog)
  BY <1>4, LoggedTypes DEF SafeInv, SameLog
<1>7. verdict' \in [PR -> {"none", "verified", "failed"}]
  <2>1. Outcome(e.kind) \in {"none", "verified", "failed"}
    BY DEF Outcome
  <2> QED
    BY <1>4, <2>1 DEF SafeInv, TypeOK
<1>8. waited' \in {"none", "REVIEW_WAITING", "COMPLETION_READY"}
  BY <1>4 DEF SafeInv, TypeOK
<1>9. TypeOK'
  BY <1>2, <1>4, <1>5, <1>6, <1>7, <1>8 DEF SafeInv, TypeOK, Passes, LastEvents, github
<1>10. e \notin Report("PR_MERGED") => SameLog
  BY <1>1, <1>6 DEF Report
<1>11. \A p \in PR : pr[p].head <= pr'[p].head
  BY <1>4 DEF SafeInv, TypeOK, github
<1> QED
  BY <1>1, <1>2, <1>4, <1>9, <1>10, <1>11, RestFits DEF SafeInv, github

(* a write of active_work,                                                 *)
LEMMA WriteKeeps ==
  ASSUME SafeInv, WriteActive
  PROVE  TypeOK' /\ ScriptFits'
<1>1. /\ todo # <<>> /\ todo[1].do \in {"save", "mark", "clear"} /\ todo[1] \in Steps
      /\ todo[1].do = "mark" => todo[1].arg # "none"
      /\ todo[1].do = "save" => Creating
  BY NextStep DEF WriteActive, Doing, SafeInv
<1>2. /\ todo' = Tail(todo) /\ todo' \in Seq(Steps) /\ pass' \in Passes
      /\ todo' # <<>> => pass' = pass
  BY <1>1, DoneKeeps DEF WriteActive, SafeInv
<1>3. /\ active' \in [pr : Number, status : Statuses]
      /\ active'.pr = 0 <=> active'.status = "none"
  <2>1. CASE todo[1].do = "save" /\ active' = Saved
    <3>1. pass.pr \in PR
      BY <1>1, <2>1, StepDo DEF Creating
    <3> QED
      BY <2>1, <3>1, BoundsAreSane DEF Saved, Statuses, Number, PR
  <2>2. CASE todo[1].do = "mark" /\ active' = Marked
    <3>1. todo[1].arg \in Statuses \ {"none"}
      BY <1>1, <2>2 DEF Steps, Calls, Asks
    <3>2. CASE active = NoWork
      BY <2>2, <3>2, BoundsAreSane DEF Marked, NoWork, Statuses, Number
    <3>3. CASE active # NoWork
      <4>1. active.pr # 0
        BY <3>3 DEF NoWork, SafeInv, TypeOK
      <4>2. active' = [active EXCEPT !.status = todo[1].arg]
        BY <2>2, <3>3 DEF Marked
      <4> QED
        BY <3>1, <4>1, <4>2 DEF SafeInv, TypeOK
    <3> QED
      BY <3>2, <3>3
  <2>3. CASE todo[1].do = "clear" /\ active' = NoWork
    BY <2>3, BoundsAreSane DEF NoWork, Statuses, Number
  <2> QED
    BY <2>1, <2>2, <2>3 DEF WriteActive, Doing
<1>4. TypeOK'
  BY <1>2, <1>3 DEF WriteActive, SafeInv, TypeOK, Passes, github, history
<1>5. \A p \in PR : pr[p].head <= pr'[p].head
  BY DEF WriteActive, SafeInv, TypeOK, github
<1>6. todo[1] \notin Report("PR_MERGED")
  BY <1>1 DEF Report
<1> QED
  BY <1>1, <1>2, <1>4, <1>5, <1>6, RestFits DEF WriteActive, SafeInv, SameLog, github, history

(* a notification,                                                         *)
LEMMA SentKeeps ==
  ASSUME SafeInv, Sent
  PROVE  TypeOK' /\ ScriptFits'
<1>1. todo # <<>> /\ todo[1].do = "notify" /\ Done
  BY DEF Sent, Doing
<1>2. UNCHANGED <<store, github, policy, trouble, history>>
  BY DEF Sent
<1>3. /\ todo' = Tail(todo) /\ todo' \in Seq(Steps) /\ pass' \in Passes
      /\ todo' # <<>> => pass' = pass
  BY <1>1, DoneKeeps DEF SafeInv
<1>4. TypeOK'
  BY <1>2, <1>3, PassOnlyTypes DEF SafeInv, TypeOK
<1>5. (\A p \in PR : pr[p].head <= pr'[p].head) /\ todo[1] \notin Report("PR_MERGED")
  BY <1>1, <1>2 DEF SafeInv, TypeOK, github, Report
<1> QED
  BY <1>1, <1>2, <1>3, <1>4, <1>5, RestFits DEF SafeInv, SameLog, store, github, history

(* a look at the default branch after a merge,                             *)
LEMMA HeadKeeps ==
  ASSUME SafeInv, ReadMainHead
  PROVE  TypeOK' /\ ScriptFits'
<1>1. todo # <<>> /\ todo[1].do = "sha" /\ Merging /\ Tail(todo) \in Seq(Steps)
  BY NextStep, TailElements DEF ReadMainHead, Doing, SafeInv, TypeOK
<1>2. UNCHANGED <<store, github, policy, trouble, history>>
  BY DEF ReadMainHead
<1>3. /\ Len(main) \in Nat /\ [pass EXCEPT !.sha = Len(main)] \in Passes
      /\ NoPass \in Passes /\ pass \in Passes
  <2>1. Len(main) \in Nat
    BY DEF SafeInv, TypeOK
  <2>2. [pass EXCEPT !.sha = Len(main)] \in Passes
    BY <2>1, PassTypes, Zenon DEF SafeInv
  <2> QED
    BY <2>1, <2>2, PassTypes DEF SafeInv
<1>4. /\ todo' = Tail(todo) /\ pass' \in Passes
      /\ todo' # <<>> => pass' = [pass EXCEPT !.sha = Len(main)]
  BY <1>3 DEF ReadMainHead, Then
<1>5. TypeOK'
  BY <1>1, <1>2, <1>4, PassOnlyTypes DEF SafeInv, TypeOK
<1>6. PICK i \in 1 .. 9 : /\ todo = MergeTail(i) /\ state = MergeState[i] /\ pass.ctx = "bare"
                          /\ pass.pr \in PR
                          /\ i \in 3 .. 8 => MergeOnMain
  BY <1>1 DEF Merging
<1>7. todo[1] = MergeSteps[i] /\ todo' = MergeTail(i + 1)
  BY <1>4, <1>6, MergeTails
<1>8. i = 3
  <2>1. /\ MergeSteps[1].do # "sha" /\ MergeSteps[2].do # "sha" /\ MergeSteps[4].do # "sha"
        /\ MergeSteps[5].do # "sha" /\ MergeSteps[6].do # "sha" /\ MergeSteps[7].do # "sha"
        /\ MergeSteps[8].do # "sha" /\ MergeSteps[9].do # "sha"
    BY DEF MergeSteps, Move, Call, Do
  <2> QED
    BY <1>1, <1>7, <2>1
<1>9. todo' # <<>>
  BY <1>7, <1>8, MergeTails
<1>10. pass'.pr = pass.pr /\ pass'.ctx = "bare" /\ pass'.sha = Len(main)
  BY <1>3, <1>4, <1>6, <1>9 DEF Passes
<1>11. state' = MergeState[4] /\ todo' = MergeTail(4)
  BY <1>2, <1>6, <1>7, <1>8, MergeStatesAre DEF store
<1>12. MergeOnMain' /\ HeadKnown'
  <2>1. MergeOnMain /\ Contains(Len(main), pass.pr)
    BY <1>6, <1>8 DEF MergeOnMain
  <2>2. Len(main) \in 1 .. Len(main)
    BY <1>3, <2>1 DEF Contains
  <2> QED
    BY <1>2, <1>10, <2>1, <2>2 DEF MergeOnMain, HeadKnown, Contains, store, github, history
<1>13. Merging'
  BY <1>6, <1>10, <1>11, <1>12 DEF Merging
<1> QED
  BY <1>5, <1>13 DEF ScriptFits

(* a lost notification,                                                    *)
LEMMA UnsentKeeps ==
  ASSUME SafeInv, Unsent
  PROVE  TypeOK' /\ ScriptFits'
<1>1. PlainScript(todo') /\ todo' \in Seq(Steps) /\ pass' \in Passes
  BY RaiseSteps DEF Unsent, SafeInv
<1>2. trouble' \in [{"others", "mishaps", "unsent"} -> 0 .. MaxTrouble]
  BY TroubleTypes DEF Unsent, SafeInv
<1>3. log' \in Events
  BY LoggedTypes DEF Unsent, SafeInv
<1>4. TypeOK'
  BY <1>1, <1>2, <1>3 DEF Unsent, SafeInv, TypeOK, Passes, RunStates, github, history
<1> QED
  BY <1>1, <1>4, PlainFits

(* A fact on GitHub, and a comment, leave a pass what it is about.         *)
LEMMA FactKeeps ==
  ASSUME TypeOK, NEW s \in Seq(Steps), Fact(s, pass) \/ (Then(s, Stale(pass)) /\ last' = Stale(last))
  PROVE  /\ todo' = s /\ pass' \in Passes /\ last' \in LastEvents
         /\ todo' # <<>> => /\ pass'.pr = pass.pr /\ pass'.head = pass.head
                            /\ pass'.sha = pass.sha /\ pass'.ctx = pass.ctx
<1>1. /\ Stale(pass) \in Passes /\ [Stale(pass) EXCEPT !.still = FALSE] \in Passes
      /\ NoPass \in Passes /\ Stale(last) \in LastEvents /\ pass \in Passes
  BY PassTypes
<1>2. /\ todo' = s /\ last' = Stale(last)
      /\ \/ pass' = NoPass /\ s = <<>>
         \/ pass' = Stale(pass) \/ pass' = [Stale(pass) EXCEPT !.still = FALSE]
  BY DEF Fact, Then
<1>3. /\ Stale(pass).sha = pass.sha /\ [Stale(pass) EXCEPT !.still = FALSE].sha = pass.sha
      /\ Stale(pass).pr = pass.pr /\ Stale(pass).head = pass.head /\ Stale(pass).ctx = pass.ctx
      /\ [Stale(pass) EXCEPT !.still = FALSE].pr = pass.pr
      /\ [Stale(pass) EXCEPT !.still = FALSE].head = pass.head
      /\ [Stale(pass) EXCEPT !.still = FALSE].ctx = pass.ctx
  BY <1>1 DEF Stale, Passes
<1> QED
  BY <1>1, <1>2, <1>3

(* (the ways a pull request changes are typed)                             *)
LEMMA PullTypes ==
  ASSUME TypeOK, NEW p
  PROVE  /\ \A st \in {"draft", "ready", "merged"} : [pr EXCEPT ![p].st = st] \in [PR -> Pull]
         /\ p \in PR /\ pr[p].head < MaxHead => [pr EXCEPT ![p] = NewHead(@)] \in [PR -> Pull]
         /\ pr \in [PR -> Pull]
<1>1. pr \in [PR -> Pull]
  BY DEF TypeOK, Pull
<1>2. p \in PR /\ pr[p].head < MaxHead => NewHead(pr[p]) \in Pull
  <2>1. ASSUME p \in PR, pr[p].head < MaxHead
        PROVE  pr[p] \in Pull /\ pr[p].head + 1 \in 0 .. MaxHead
    <3>1. pr[p] \in Pull
      BY <1>1, <2>1
    <3>2. pr[p].head \in 0 .. MaxHead
      BY <3>1 DEF Pull
    <3> QED
      BY <2>1, <3>1, <3>2, BoundsAreSane
  <2> QED
    BY <2>1 DEF NewHead, Pull
<1> QED
  BY <1>1, <1>2 DEF Pull

(* a new pull request,                                                     *)
LEMMA CreateKeeps ==
  ASSUME SafeInv, CreatePR
  PROVE  TypeOK' /\ ScriptFits'
<1>1. /\ todo # <<>> /\ todo[1].do = "create" /\ Creating
      /\ Tail(todo) \in Seq(Steps) /\ Elements(Tail(todo)) \subseteq Elements(todo)
  BY NextStep, TailElements DEF CreatePR, Doing, SafeInv, TypeOK
<1>2. PICK p \in PR : pr' = [pr EXCEPT ![p].st = "draft"] /\ Fact(Tail(todo), [pass EXCEPT !.pr = p])
  BY DEF CreatePR, Unused
<1>3. /\ [Stale([pass EXCEPT !.pr = p]) EXCEPT !.still = FALSE] \in Passes
      /\ NoPass \in Passes /\ Stale(last) \in LastEvents
  BY PassTypes DEF SafeInv
<1>4. [Stale([pass EXCEPT !.pr = p]) EXCEPT !.still = FALSE].pr = p
  BY PassTypes DEF Stale, Passes, SafeInv
<1>5. /\ todo' = Tail(todo) /\ pass' \in Passes /\ last' \in LastEvents /\ waited' = "none"
      /\ todo' # <<>> => pass'.pr = p
  BY <1>2, <1>3, <1>4 DEF Fact, Then
<1>6. TypeOK'
  BY <1>1, <1>2, <1>5, PullTypes DEF CreatePR, SafeInv, TypeOK, Passes, LastEvents, Pull
<1>7. CASE todo' = <<>>
  BY <1>6, <1>7, Singles, PlainFits
<1>8. CASE todo' # <<>>
  <2>1. Creating'
    BY <1>1, <1>5, <1>8 DEF Creating
  <2> QED
    BY <1>6, <2>1 DEF ScriptFits
<1> QED
  BY <1>7, <1>8

(* a push,                                                                 *)
LEMMA PushKeeps ==
  ASSUME SafeInv, Push
  PROVE  TypeOK' /\ ScriptFits'
<1>1. /\ todo # <<>> /\ todo[1].do = "push" /\ todo[1] \in Steps
      /\ Tail(todo) \in Seq(Steps)
  BY NextStep, TailElements DEF Push, Doing, SafeInv, TypeOK
<1>2. pass.head < MaxHead
  BY <1>1, NextStep DEF Pushing, SafeInv
<1>3. /\ todo' = Tail(todo) /\ pass' \in Passes /\ last' \in LastEvents /\ waited' = "none"
      /\ todo' # <<>> => /\ pass'.pr = pass.pr /\ pass'.head = pass.head
                         /\ pass'.sha = pass.sha /\ pass'.ctx = pass.ctx
  BY <1>1, FactKeeps DEF Push, Fact, SafeInv
<1>4. /\ pr' \in [PR -> Pull]
      /\ \A p \in PR : pr[p].head <= pr'[p].head
  <2>0. \A p \in PR : pr[p].head \in Nat
    BY DEF SafeInv, TypeOK
  <2>1. CASE pr' = pr
    <3>1. \A p \in PR : pr[p].head <= pr'[p].head
      BY <2>0, <2>1
    <3>2. pr' \in [PR -> Pull]
      BY <2>1, PullTypes DEF SafeInv
    <3> QED
      BY <3>1, <3>2
  <2>2. CASE pass.pr \in PR /\ Open(pass.pr) /\ pr' = [pr EXCEPT ![pass.pr] = NewHead(@)]
    <3>1. pr[pass.pr].head < MaxHead
      BY <1>2, <2>2 DEF Push, BranchMoved
    <3>2. \A p \in PR : pr[p] \in Pull
      BY PullTypes DEF SafeInv
    <3>3. NewHead(pr[pass.pr]).head = pr[pass.pr].head + 1
      BY <2>2, <3>2 DEF NewHead, Pull
    <3>4. \A p \in PR : pr'[p] = IF p = pass.pr THEN NewHead(pr[p]) ELSE pr[p]
      BY <2>2, PullTypes DEF SafeInv
    <3>5. \A p \in PR : pr[p].head \in Nat
      BY <3>2 DEF Pull
    <3>6. \A p \in PR : pr[p].head <= pr'[p].head
      BY <3>3, <3>4, <3>5
    <3>7. pr' \in [PR -> Pull]
      BY <2>2, <3>1, PullTypes DEF SafeInv
    <3> QED
      BY <3>6, <3>7
  <2>3. CASE pass.pr \notin PR /\ pr' = [pr EXCEPT ![pass.pr] = NewHead(@)]
    <3>1. pr' = pr
      BY <2>3, PullTypes DEF SafeInv
    <3> QED
      BY <2>1, <3>1
  <2> QED
    BY <2>1, <2>2, <2>3 DEF Push
<1>5. TypeOK'
  BY <1>1, <1>3, <1>4 DEF Push, SafeInv, TypeOK, Passes, LastEvents, Pull
<1>6. todo[1] \notin Report("PR_MERGED")
  BY <1>1 DEF Report
<1> QED
  BY <1>1, <1>3, <1>4, <1>5, <1>6, RestFits DEF Push, SafeInv, SameLog

(* marking it ready,                                                       *)
LEMMA ReadyKeeps ==
  ASSUME SafeInv, MarkReady
  PROVE  TypeOK' /\ ScriptFits'
<1>1. /\ todo # <<>> /\ todo[1].do = "ready" /\ Tail(todo) \in Seq(Steps)
  BY TailElements DEF MarkReady, Doing, SafeInv, TypeOK
<1>2. /\ todo' = Tail(todo) /\ pass' \in Passes /\ last' \in LastEvents /\ waited' = "none"
      /\ todo' # <<>> => /\ pass'.pr = pass.pr /\ pass'.head = pass.head
                         /\ pass'.sha = pass.sha /\ pass'.ctx = pass.ctx
  BY <1>1, FactKeeps DEF MarkReady, Fact, SafeInv
<1>3. pr' = pr \/ pr' = [pr EXCEPT ![pass.pr].st = "ready"]
  BY DEF MarkReady
<1>4. \A p \in PR : pr[p].head <= pr'[p].head
  <2>1. \A p \in PR : pr[p].head \in Nat
    BY DEF SafeInv, TypeOK
  <2>2. CASE pr' = pr
    BY <2>1, <2>2
  <2>3. CASE pr' = [pr EXCEPT ![pass.pr].st = "ready"]
    <3>1. \A p \in PR : pr'[p].head = pr[p].head
      BY <2>3, PullTypes DEF SafeInv, Pull
    <3> QED
      BY <2>1, <3>1
  <2> QED
    BY <1>3, <2>2, <2>3
<1>5. pr' \in [PR -> Pull]
  <2>1. pr \in [PR -> Pull] /\ [pr EXCEPT ![pass.pr].st = "ready"] \in [PR -> Pull]
    BY PullTypes DEF SafeInv
  <2> QED
    BY <1>3, <2>1
<1>6. TypeOK'
  BY <1>1, <1>2, <1>5 DEF MarkReady, SafeInv, TypeOK, Passes, LastEvents, Pull
<1>7. todo[1] \notin Report("PR_MERGED")
  BY <1>1 DEF Report
<1> QED
  BY <1>1, <1>2, <1>4, <1>6, <1>7, RestFits DEF MarkReady, SafeInv, SameLog

(* a comment,                                                              *)
LEMMA CommentKeeps ==
  ASSUME SafeInv, Comment
  PROVE  TypeOK' /\ ScriptFits'
<1>1. /\ todo # <<>> /\ todo[1].do = "comment" /\ Tail(todo) \in Seq(Steps)
  BY TailElements DEF Comment, Doing, SafeInv, TypeOK
<1>2. /\ todo' = Tail(todo) /\ pass' \in Passes /\ last' \in LastEvents
      /\ todo' # <<>> => /\ pass'.pr = pass.pr /\ pass'.head = pass.head
                         /\ pass'.sha = pass.sha /\ pass'.ctx = pass.ctx
  BY <1>1, FactKeeps DEF Comment, SafeInv
<1>3. TypeOK'
  BY <1>1, <1>2 DEF Comment, SafeInv, TypeOK, Passes, LastEvents, github, history
<1>4. \A p \in PR : pr[p].head <= pr'[p].head
  BY DEF SafeInv, TypeOK, Comment, github
<1>5. todo[1] \notin Report("PR_MERGED")
  BY <1>1 DEF Report
<1> QED
  BY <1>1, <1>2, <1>3, <1>4, <1>5, RestFits DEF Comment, SafeInv, SameLog, github, history

(* the merge,                                                              *)
LEMMA MergeKeeps ==
  ASSUME SafeInv, Merge
  PROVE  TypeOK' /\ ScriptFits'
<1>1. /\ todo # <<>> /\ todo[1].do = "merge" /\ Tail(todo) \in Seq(Steps)
  BY TailElements DEF Merge, Doing, SafeInv, TypeOK
<1>2. /\ todo' = Tail(todo) /\ pass' \in Passes /\ last' \in LastEvents /\ waited' = "none"
      /\ todo' # <<>> => /\ pass'.pr = pass.pr /\ pass'.head = pass.head
                         /\ pass'.sha = pass.sha /\ pass'.ctx = pass.ctx
  BY <1>1, FactKeeps DEF Merge, Fact, SafeInv
<1>3. pr' = [pr EXCEPT ![pass.pr].st = "merged"]
  BY DEF Merge
<1>4. \A p \in PR : pr[p].head <= pr'[p].head
  <2>1. \A p \in PR : pr[p].head \in Nat
    BY DEF SafeInv, TypeOK
  <2>2. \A p \in PR : pr'[p].head = pr[p].head
    BY <1>3, PullTypes DEF SafeInv, Pull
  <2> QED
    BY <2>1, <2>2
<1>5. pr' \in [PR -> Pull]
  BY <1>3, PullTypes DEF SafeInv
<1>6. MainGrows /\ main' \in Seq(Commits)
  <2>1. CASE main' = main
    BY <2>1, SameMainGrows DEF SafeInv, TypeOK
  <2>2. CASE main' = Landed(pass.pr)
    BY <2>2, LandedGrows DEF SafeInv, TypeOK
  <2> QED
    BY <2>1, <2>2 DEF Merge
<1>7. merges' = [merges EXCEPT ![pass.pr] = merges[pass.pr] + 1] /\ merges' \in [PR -> Nat]
  <2>1. merges' = [merges EXCEPT ![pass.pr] = merges[pass.pr] + 1] /\ merges \in [PR -> Nat]
    BY DEF Merge, SafeInv, TypeOK
  <2>2. pass.pr \in PR => merges[pass.pr] + 1 \in Nat
    BY <2>1
  <2> QED
    BY <2>1, <2>2
<1>8. TypeOK'
  BY <1>1, <1>2, <1>5, <1>6, <1>7 DEF Merge, SafeInv, TypeOK, Passes, LastEvents, Pull
<1>9. PICK i \in 1 .. 9 : /\ todo = MergeTail(i) /\ state = MergeState[i] /\ pass.ctx = "bare"
                          /\ pass.pr \in PR
                          /\ i <= 2 => NotYetMerged
  BY <1>1, NextStep DEF Merging, SafeInv
<1>10. todo[1] = MergeSteps[i] /\ todo' = MergeTail(i + 1)
  BY <1>2, <1>9, MergeTails
<1>11. i = 2
  <2>1. /\ MergeSteps[1].do # "merge" /\ MergeSteps[3].do # "merge" /\ MergeSteps[4].do # "merge"
        /\ MergeSteps[5].do # "merge" /\ MergeSteps[6].do # "merge" /\ MergeSteps[7].do # "merge"
        /\ MergeSteps[8].do # "merge" /\ MergeSteps[9].do # "merge"
    BY DEF MergeSteps, Move, Call, Do
  <2> QED
    BY <1>1, <1>10, <2>1
<1>12. todo' # <<>> /\ todo' = MergeTail(3) /\ state' = MergeState[3]
  BY <1>9, <1>10, <1>11, MergeTails, MergeStatesAre DEF Merge
<1>13. pass'.pr = pass.pr /\ pass'.ctx = "bare"
  BY <1>2, <1>9, <1>12
<1>14. MergeOnMain'
  <2>1. merges'[pass.pr] > 0
    BY <1>7, <1>9 DEF SafeInv, TypeOK
  <2>2. log.sha[pass.pr] = 0
    BY <1>9, <1>11 DEF NotYetMerged, SafeInv, MergesFit, MergeFits
  <2>3. Contains(Len(main), pass.pr)'
    <3>1. CASE pr[pass.pr].st = "merged"
      BY <1>6, <1>8, <1>9, <1>13, <3>1, ContainsGrows
         DEF SafeInv, MergesFit, MergeFits, Contains
    <3>2. CASE pr[pass.pr].st # "merged"
      <4>1. main' = Landed(pass.pr) /\ pass.pr \in Number
        BY <3>2 DEF Merge, SafeInv, TypeOK
      <4> QED
        BY <1>13, <4>1, LandedGrows DEF SafeInv, Contains
    <3> QED
      BY <3>1, <3>2
  <2> QED
    BY <1>13, <2>1, <2>2, <2>3 DEF MergeOnMain, Merge
<1>15. Merging'
  BY <1>9, <1>12, <1>13, <1>14 DEF Merging
<1> QED
  BY <1>8, <1>15 DEF ScriptFits

(* reading it,                                                             *)
LEMMA ReadKeeps ==
  ASSUME SafeInv, ReadPR
  PROVE  TypeOK' /\ ScriptFits'
<1>1. /\ todo # <<>> /\ todo[1].do = "read" /\ Tail(todo) \in Seq(Steps)
      /\ Elements(Tail(todo)) \subseteq Elements(todo)
  BY TailElements DEF ReadPR, Doing, SafeInv, TypeOK
<1>2. (Repairing \/ Judging) /\ pass.pr \in PR
  BY <1>1, NextStep DEF SafeInv, Repairing, Judging
<1>3. pr[pass.pr].head \in 0 .. MaxHead
  BY <1>2 DEF SafeInv, TypeOK
<1>4. [pass EXCEPT !.head = pr[pass.pr].head] \in Passes /\ pass \in Passes /\ NoPass \in Passes
  BY <1>3, PassTypes DEF SafeInv
<1>5. /\ [pass EXCEPT !.head = pr[pass.pr].head].head = pr[pass.pr].head
      /\ [pass EXCEPT !.head = pr[pass.pr].head].pr = pass.pr
  BY <1>4 DEF Passes
<1>6. /\ todo' = Tail(todo) /\ pass' \in Passes
      /\ todo' # <<>> => pass'.head = pr[pass.pr].head /\ pass'.pr = pass.pr
  BY <1>4, <1>5 DEF ReadPR, Then
<1>7. UNCHANGED <<store, github, policy, trouble, history>>
  BY DEF ReadPR
<1>8. TypeOK'
  BY <1>1, <1>6, <1>7, PassOnlyTypes DEF SafeInv, TypeOK
<1>9. CASE todo' = <<>>
  BY <1>8, <1>9, Singles, PlainFits
<1>10. CASE todo' # <<>> /\ Repairing
  <2>1. Repairing'
    BY <1>1, <1>2, <1>3, <1>6, <1>7, <1>10 DEF Repairing, github
  <2> QED
    BY <1>8, <2>1 DEF ScriptFits
<1>11. CASE todo' # <<>> /\ Judging
  <2>1. state = "REVIEWING"
    BY <1>1, <1>11, StepDo DEF Judging
  <2>2. Judging'
    BY <1>1, <1>2, <1>6, <1>7, <1>11, <2>1 DEF Judging, store
  <2> QED
    BY <1>8, <2>2 DEF ScriptFits
<1> QED
  BY <1>2, <1>9, <1>10, <1>11

(* whatever fails,                                                         *)
LEMMA FailureKeeps ==
  ASSUME SafeInv, PushRejected \/ MoveRefused \/ CallFails \/ AskFails
  PROVE  TypeOK' /\ ScriptFits'
<1>1. Raise /\ UNCHANGED <<store, github, policy, history>>
  BY DEF PushRejected, MoveRefused, CallFails, AskFails, Unmoved, history
<1>2. trouble' \in [{"others", "mishaps", "unsent"} -> 0 .. MaxTrouble]
  <2>1. CASE trouble' = trouble
    BY <2>1 DEF SafeInv, TypeOK
  <2>2. CASE Disturb("mishaps")
    BY <2>2, TroubleTypes DEF SafeInv
  <2> QED
    BY <2>1, <2>2 DEF PushRejected, MoveRefused, CallFails, AskFails, Unmoved
<1> QED
  BY <1>1, <1>2, RaiseKeeps

(* a crash,                                                                *)
LEMMA CrashKeeps ==
  ASSUME SafeInv, Crash
  PROVE  TypeOK' /\ ScriptFits'
<1>1. todo' = <<>> /\ pass' = NoPass
  BY DEF Crash, Then
<1>2. pass' \in Passes /\ todo' \in Seq(Steps)
  BY <1>1, PassTypes, Singles DEF SafeInv, PlainScript
<1>3. trouble' \in [{"others", "mishaps", "unsent"} -> 0 .. MaxTrouble]
  BY TroubleTypes DEF Crash, SafeInv
<1>4. TypeOK'
  BY <1>2, <1>3, PassOnlyTypes DEF Crash, SafeInv
<1> QED
  BY <1>1, <1>4, Singles, PlainFits

(* Answers: the rest of the script is replaced.                            *)
LEMMA AnswerKeeps ==
  ASSUME SafeInv, Unmoved, NEW s \in Seq(Steps), NEW p \in Passes, Then(s, p)
  PROVE  TypeOK' /\ todo' = s /\ (todo' # <<>> => pass' = p)
<1>1. todo' = s /\ (todo' # <<>> => pass' = p)
  BY DEF Then
<1>2. todo' \in Seq(Steps) /\ pass' \in Passes
  BY ThenTypes DEF SafeInv
<1>3. TypeOK'
  BY <1>2, PassOnlyTypes DEF SafeInv, TypeOK, Unmoved, history
<1> QED
  BY <1>1, <1>3

(* the planner's answer,                                                   *)
LEMMA PlanKeeps ==
  ASSUME SafeInv, PlanEnds \/ PlanRepeats \/ PlanSelects
  PROVE  TypeOK' /\ ScriptFits'
<1>1. PICK s \in Seq(Steps), p \in Passes : PlainScript(s) /\ Then(s, p)
  <2>1. CASE PlanEnds
    <3>1. PICK a \in DOMAIN PlanReply :
                 Then(PlanReply[a], IF a = "finished" THEN pass ELSE [pass EXCEPT !.ctx = "bare"])
      BY <2>1 DEF PlanEnds, Answered
    <3> QED
      BY <3>1, PlanReplies, PassTypes DEF SafeInv, PlainScript
  <2>2. CASE PlanRepeats
    BY <2>2, StopScripts, PassTypes DEF PlanRepeats, SafeInv, PlainScript
  <2>3. CASE PlanSelects
    <3>1. PICK a \in DOMAIN Selected :
                 Then(Selected[a], [pass EXCEPT !.ctx = "execute", !.retry = a = "issue"])
      BY <2>3 DEF PlanSelects
    <3>2. (a = "issue") \in BOOLEAN
      OBVIOUS
    <3> QED
      BY <3>1, <3>2, PlanReplies, PassTypes DEF SafeInv, PlainScript
  <2> QED
    BY <2>1, <2>2, <2>3
<1>2. Unmoved
  BY DEF PlanEnds, PlanRepeats, PlanSelects
<1> QED
  BY <1>1, <1>2, AnswerKeeps, PlainFits

(* an issue,                                                               *)
LEMMA IssueKeeps ==
  ASSUME SafeInv, IssueChanges
  PROVE  TypeOK' /\ ScriptFits'
<1>1. PlainScript(IssueReply.changed) /\ Fact(IssueReply.changed, pass)
  BY StopScripts DEF IssueChanges
<1>2. /\ PlainScript(todo') /\ todo' \in Seq(Steps) /\ pass' \in Passes /\ last' \in LastEvents
      /\ waited' = "none"
  BY <1>1, FactKeeps DEF SafeInv, PlainScript, Fact
<1>3. TypeOK'
  BY <1>2 DEF IssueChanges, SafeInv, TypeOK, Passes, LastEvents, github
<1> QED
  BY <1>2, <1>3, PlainFits

(* the coder's answer,                                                     *)
LEMMA CoderKeeps ==
  ASSUME SafeInv, CoderAnswers
  PROVE  TypeOK' /\ ScriptFits'
<1>1. Unmoved
  BY DEF CoderAnswers
<1>2. PICK a \in DOMAIN CoderReply :
             Then(CoderReply[a], IF a = "finished" THEN pass ELSE [pass EXCEPT !.ctx = "bare"])
  BY DEF CoderAnswers, Answered
<1>3. (IF a = "finished" THEN pass ELSE [pass EXCEPT !.ctx = "bare"]) \in Passes
  BY PassTypes DEF SafeInv
<1>4. CoderReply[a] \in Seq(Steps)
  BY CoderReplies DEF PlainScript
<1>5. TypeOK' /\ todo' = CoderReply[a]
  BY <1>1, <1>2, <1>3, <1>4, AnswerKeeps
<1>6. CASE PlainScript(CoderReply[a])
  BY <1>5, <1>6, PlainFits
<1>7. CASE ~PlainScript(CoderReply[a])
  <2>1. /\ Elements(todo') = {Call("create"), Call("save")}
                             \cup Elements(Emit("PR_OPEN", "PR_OPENED", FALSE))
        /\ todo'[1] = Call("create")
    BY <1>5, <1>7, CoderReplies
  <2>2. Elements(Emit("PR_OPEN", "PR_OPENED", FALSE)) \subseteq Plain
    BY EmitSteps DEF PlainScript, RunStates, Kinds, MergeKinds
  <2>3. Creating'
    BY <2>1, <2>2 DEF Creating
  <2> QED
    BY <1>5, <2>3 DEF ScriptFits
<1> QED
  BY <1>6, <1>7

(* the repairer's,                                                         *)
LEMMA RepairKeeps ==
  ASSUME SafeInv, RepairAnswers
  PROVE  TypeOK' /\ ScriptFits'
<1>1. Unmoved /\ Repairing
  BY NextStep DEF RepairAnswers, Answered, Doing, SafeInv
<1>2. PICK a \in DOMAIN RepairReply :
             Then(RepairReply[a], IF a = "finished" THEN pass ELSE [pass EXCEPT !.ctx = "bare"])
  BY DEF RepairAnswers, Answered
<1>3. /\ pass \in Passes /\ [pass EXCEPT !.ctx = "bare"] \in Passes
      /\ [pass EXCEPT !.ctx = "bare"].head = pass.head
  BY PassTypes DEF SafeInv, Passes
<1>4. RepairReply[a] \in Seq(Steps)
  BY RepairReplies DEF PlainScript
<1>5. TypeOK' /\ todo' = RepairReply[a] /\ (todo' # <<>> => pass'.head = pass.head)
  BY <1>1, <1>2, <1>3, <1>4, AnswerKeeps
<1>6. CASE PlainScript(RepairReply[a])
  BY <1>5, <1>6, PlainFits
<1>7. CASE ~PlainScript(RepairReply[a])
  <2>1. Elements(todo') = {Call("push"), Mark("pr_open")}
                          \cup Elements(Emit("PR_OPEN", "PR_REPAIRED", FALSE))
    BY <1>5, <1>7, RepairReplies
  <2>2. Elements(Emit("PR_OPEN", "PR_REPAIRED", FALSE)) \subseteq Plain /\ Mark("pr_open") \in Plain
    BY EmitSteps, StepTypes DEF PlainScript, RunStates, Kinds, MergeKinds, Statuses
  <2>3. "push" \in {todo'[i].do : i \in DOMAIN todo'} /\ todo' # <<>>
    <3>1. PICK i \in 1 .. Len(todo') : todo'[i] = Call("push")
      BY <2>1 DEF Elements
    <3>2. i \in DOMAIN todo' /\ todo'[i].do = "push"
      BY <1>4, <1>5, <3>1, StepDo
    <3> QED
      BY <1>4, <1>5, <3>1, <3>2
  <2>4. pr[pass.pr].head < MaxHead
    BY <2>3 DEF RepairAnswers
  <2>5. pass.head < MaxHead
    <3>1. pass.head \in Nat /\ pr[pass.pr].head \in Nat /\ pass.head <= pr[pass.pr].head
      BY <1>1, <1>3 DEF Repairing, SafeInv, TypeOK
    <3> QED
      BY <2>4, <3>1, BoundsAreSane
  <2>6. Pushing'
    BY <1>5, <2>1, <2>2, <2>3, <2>5 DEF Pushing
  <2> QED
    BY <1>5, <2>6 DEF ScriptFits
<1> QED
  BY <1>6, <1>7

(* (the scripts between the reviewers)                                     *)
LEMMA JudgeScripts ==
  /\ <<Call("ready"), Ask("final")>> \in Seq(Steps) /\ <<Ask("final")>> \in Seq(Steps)
  /\ Elements(<<Call("ready"), Ask("final")>>) = {Call("ready"), Ask("final")}
  /\ Elements(<<Ask("final")>>) = {Ask("final")}
<1>1. Call("ready") \in Steps /\ Ask("final") \in Steps
  BY StepTypes
<1> QED
  BY <1>1 DEF Elements

(* the reviewer's,                                                         *)
LEMMA ReviewKeeps ==
  ASSUME SafeInv, ReviewAnswers
  PROVE  TypeOK' /\ ScriptFits'
<1>1. Unmoved /\ todo # <<>> /\ todo[1].do = "review" /\ Judging
  BY NextStep DEF ReviewAnswers, Answered, Doing, SafeInv
<1>2. PICK a \in DOMAIN ReviewReply :
             Then(ReviewReply[a], IF a = "finished" THEN pass ELSE [pass EXCEPT !.ctx = "bare"])
  BY DEF ReviewAnswers, Answered
<1>3. /\ pass \in Passes /\ [pass EXCEPT !.ctx = "bare"] \in Passes
      /\ [pass EXCEPT !.ctx = "bare"].pr = pass.pr
  BY PassTypes DEF SafeInv, Passes
<1>4. ReviewReply[a] \in Seq(Steps)
  BY ReviewReplies, JudgeScripts DEF PlainScript
<1>5. TypeOK' /\ todo' = ReviewReply[a] /\ (todo' # <<>> => pass'.pr = pass.pr)
  BY <1>1, <1>2, <1>3, <1>4, AnswerKeeps
<1>6. CASE PlainScript(ReviewReply[a])
  BY <1>5, <1>6, PlainFits
<1>7. CASE ReviewReply[a] \in {<<Call("ready"), Ask("final")>>, <<Ask("final")>>}
  <2>1. state' = "REVIEWING" /\ pass.pr \in PR
    BY <1>1, StepDo DEF Judging, Unmoved, store
  <2>2. Elements(todo') \subseteq {Call("ready"), Ask("final")} /\ todo' # <<>>
    BY <1>5, <1>7, JudgeScripts
  <2>3. Judging'
    BY <1>5, <2>1, <2>2 DEF Judging
  <2> QED
    BY <1>5, <2>3 DEF ScriptFits
<1> QED
  BY <1>6, <1>7, ReviewReplies

(* the final reviewer's,                                                   *)
LEMMA FinalKeeps ==
  ASSUME SafeInv, FinalAnswers
  PROVE  TypeOK' /\ ScriptFits'
<1>1. Unmoved /\ todo # <<>> /\ todo[1].do = "final" /\ Judging
  BY NextStep DEF FinalAnswers, Answered, Doing, SafeInv
<1>2. PICK a \in DOMAIN FinalReply :
             Then(FinalReply[a], IF a = "finished" THEN pass ELSE [pass EXCEPT !.ctx = "bare"])
  BY DEF FinalAnswers, Answered
<1>3. a # "finished"
  BY DEF FinalReply
<1>4. /\ [pass EXCEPT !.ctx = "bare"] \in Passes
      /\ [pass EXCEPT !.ctx = "bare"].pr = pass.pr /\ [pass EXCEPT !.ctx = "bare"].ctx = "bare"
  BY PassTypes DEF SafeInv, Passes
<1>5. MergeScript \in Seq(Steps) /\ MergeScript # <<>>
  BY MergeScriptIsTail, MergeTails
<1>6. FinalReply[a] \in Seq(Steps)
  BY <1>5, ReviewReplies DEF PlainScript
<1>7. TypeOK' /\ todo' = FinalReply[a] /\ (todo' # <<>> => pass' = [pass EXCEPT !.ctx = "bare"])
  BY <1>1, <1>2, <1>3, <1>4, <1>6, AnswerKeeps
<1>8. CASE PlainScript(FinalReply[a])
  BY <1>7, <1>8, PlainFits
<1>9. CASE FinalReply[a] = MergeScript /\ GateAllows
  <2>1. state' = "REVIEWING" /\ pass.pr \in PR
    BY <1>1, StepDo DEF Judging, Unmoved, store
  <2>2. merges[pass.pr] = 0
    <3>1. pr[pass.pr].st # "merged"
      BY <1>9 DEF GateAllows
    <3>2. merges[pass.pr] \in Nat /\ ~(merges[pass.pr] > 0)
      BY <2>1, <3>1 DEF SafeInv, TypeOK, MergesFit, MergeFits
    <3> QED
      BY <3>2
  <2>3. /\ todo' = MergeTail(1) /\ state' = MergeState[1]
        /\ pass'.ctx = "bare" /\ pass'.pr \in PR /\ NotYetMerged'
    BY <1>1, <1>4, <1>5, <1>7, <1>9, <2>1, <2>2, MergeScriptIsTail, MergeStatesAre
       DEF Unmoved, NotYetMerged
  <2>4. Merging'
    BY <2>3 DEF Merging
  <2> QED
    BY <1>7, <2>4 DEF ScriptFits
<1> QED
  BY <1>8, <1>9, ReviewReplies

(* (the scripts a pass may begin with)                                     *)
LEMMA BeginScripts ==
  ASSUME TypeOK, NEW s \in CycleScripts \cup WatchScripts
  PROVE  \/ PlainScript(s)
         \/ s = ReadThen("REPAIRING", "repair") /\ active # NoWork
         \/ s = ReadThen("REVIEWING", "review") /\ active # NoWork
         \/ /\ s = Emit("READY", "POST_MERGE_VERIFIED", TRUE)
            /\ log.of \in PR /\ Runs = "passed"
         \/ /\ s = Emit("DEGRADED", "POST_MERGE_FAILED", TRUE)
            /\ log.of \in PR /\ Runs = "failed"
<1>1. \/ s = VerifyScript
      \/ s = ActiveScript /\ active # NoWork
      \/ s = Emit("BLOCKED", "ATTENTION_REQUIRED", last.same)
      \/ s = PlanScript \/ s = NoContext
  BY DEF CycleScripts, WatchScripts
<1> QED
  BY <1>1, VerifyScripts, ActiveScripts, OwnerScripts, PlanScripts

(* the beginning of a pass,                                                *)
LEMMA BeginKeeps ==
  ASSUME SafeInv, Cycle \/ Watch
  PROVE  TypeOK' /\ ScriptFits'
<1>1. PICK s \in CycleScripts \cup WatchScripts :
        /\ s # <<>> /\ todo' = s
        /\ pass' = [ctx |-> IF s[1] = Move("EXECUTING") THEN "execute" ELSE "bare",
                    pr |-> active.pr, head |-> 0, sha |-> 0, same |-> TRUE,
                    still |-> TRUE, retry |-> FALSE]
  BY DEF Cycle, Watch, Begin
<1>2. UNCHANGED <<store, github, policy, trouble, history>>
  BY DEF Cycle, Watch, Begin
<1>3. pass' \in Passes /\ pass'.pr = active.pr /\ pass'.head = 0
  BY <1>1, BoundsAreSane DEF Passes, SafeInv, TypeOK
<1>4. active # NoWork => active.pr \in PR /\ pr[active.pr].head \in Nat
  <2>1. active # NoWork => active.pr # 0
    BY DEF NoWork, SafeInv, TypeOK
  <2>2. active # NoWork => active.pr \in PR
    BY <2>1, BoundsAreSane DEF SafeInv, TypeOK, Number, PR
  <2> QED
    BY <2>2 DEF SafeInv, TypeOK
<1>5. CASE PlainScript(s)
  <2>1. TypeOK'
    BY <1>1, <1>2, <1>3, <1>5, PassOnlyTypes DEF SafeInv, TypeOK, PlainScript
  <2> QED
    BY <1>1, <1>5, <2>1, PlainFits
<1>6. CASE s = ReadThen("REPAIRING", "repair") /\ active # NoWork
  <2>1. /\ todo' \in Seq(Steps)
        /\ Elements(todo') = {Move("REPAIRING"), Call("read"), Ask("repair")}
    BY <1>1, <1>6, ReadThenSteps
  <2>2. TypeOK'
    BY <1>2, <1>3, <2>1, PassOnlyTypes DEF SafeInv, TypeOK
  <2>3. Repairing'
    BY <1>2, <1>3, <1>4, <1>6, <2>1 DEF Repairing, github
  <2> QED
    BY <2>2, <2>3 DEF ScriptFits
<1>7. CASE s = ReadThen("REVIEWING", "review") /\ active # NoWork
  <2>1. /\ todo' \in Seq(Steps) /\ todo'[1] = Move("REVIEWING")
        /\ Elements(todo') = {Move("REVIEWING"), Call("read"), Ask("review")}
    BY <1>1, <1>7, ReadThenSteps DEF ReadThen
  <2>2. TypeOK'
    BY <1>2, <1>3, <2>1, PassOnlyTypes DEF SafeInv, TypeOK
  <2>3. Judging'
    BY <1>3, <1>4, <1>7, <2>1 DEF Judging
  <2> QED
    BY <2>2, <2>3 DEF ScriptFits
<1>8. ASSUME NEW to \in RunStates, NEW kind \in {"POST_MERGE_VERIFIED", "POST_MERGE_FAILED"},
             s = Emit(to, kind, TRUE), log.of \in PR,
             kind = "POST_MERGE_VERIFIED" => Runs = "passed",
             kind = "POST_MERGE_FAILED" => Runs = "failed"
      PROVE  TypeOK' /\ ScriptFits'
  <2>1. kind \in Kinds
    BY DEF Kinds
  <2>2. /\ todo' \in Seq(Steps)
        /\ Elements(todo') = {Move(to), Do("event", to, kind, TRUE), Call("notify")}
    BY <1>1, <1>8, <2>1, EmitSteps
  <2>3. Move(to) \in Plain /\ Call("notify") \in Plain
    BY StepTypes
  <2>4. Do("event", to, kind, TRUE) \in Report(kind)
    <3>1. Do("event", to, kind, TRUE) \in Steps
      BY <2>1, StepTypes
    <3>2. Do("event", to, kind, TRUE).do = "event" /\ Do("event", to, kind, TRUE).kind = kind
      BY DEF Do
    <3> QED
      BY <3>1, <3>2 DEF Report
  <2>5. TypeOK'
    BY <1>2, <1>3, <2>2, PassOnlyTypes DEF SafeInv, TypeOK
  <2>6. log.sha[log.of] \in 1 .. Len(main)
    <3>1. log.of # 0
      BY <1>8 DEF PR
    <3> QED
      BY <1>8, <3>1 DEF SafeInv, MergesFit, MergeFits
  <2>7. Judged(kind)'
    BY <1>2, <1>8, <2>6 DEF Judged, Runs, store, github
  <2>8. Concluding'
    BY <2>2, <2>3, <2>4, <2>7 DEF Concluding
  <2> QED
    BY <2>5, <2>8 DEF ScriptFits
<1>9. "READY" \in RunStates /\ "DEGRADED" \in RunStates
  BY DEF RunStates
<1> QED
  BY <1>5, <1>6, <1>7, <1>8, <1>9, BeginScripts DEF SafeInv

(* What happens on GitHub meanwhile.                                       *)
LEMMA ElsewhereKeeps ==
  ASSUME SafeInv, Elsewhere, pr' \in [PR -> Pull], main' \in Seq(Commits), MainGrows,
         trouble' \in [{"others", "mishaps", "unsent"} -> 0 .. MaxTrouble],
         \A p \in PR : pr[p].head <= pr'[p].head
  PROVE  TypeOK' /\ ScriptFits'
<1>1. /\ pass' = [Stale(pass) EXCEPT !.still = FALSE] /\ last' = Stale(last) /\ waited' = "none"
      /\ UNCHANGED <<state, log, active, todo, policy, merges, verdict>>
  BY DEF Elsewhere
<1>2. pass' \in Passes /\ last' \in LastEvents
  BY <1>1, PassTypes DEF SafeInv
<1>3. /\ pass'.pr = pass.pr /\ pass'.head = pass.head
      /\ pass'.sha = pass.sha /\ pass'.ctx = pass.ctx
  <2>1. pass \in Passes
    BY PassTypes DEF SafeInv
  <2> QED
    BY <1>1, <2>1 DEF Stale, Passes
<1>4. TypeOK'
  BY <1>1, <1>2 DEF SafeInv, TypeOK, Passes, LastEvents, Pull
<1> QED
  BY <1>1, <1>3, <1>4, SameScriptFits DEF SafeInv

(* and whatever others do on GitHub.                                       *)
LEMMA WorldKeeps ==
  ASSUME SafeInv, \/ OtherNews \/ OutsiderLands \/ \E p \in PR : World(p)
                  \/ \E c \in Commit : MainReports(c)
  PROVE  TypeOK' /\ ScriptFits'
<1>0. /\ pr \in [PR -> Pull] /\ main \in Seq(Commits)
      /\ main' = main => MainGrows
      /\ trouble \in [{"others", "mishaps", "unsent"} -> 0 .. MaxTrouble]
  BY PullTypes, SameMainGrows DEF SafeInv, TypeOK
<1>0a. \A p \in PR : pr[p] \in Pull /\ pr[p].head \in 0 .. MaxHead
  BY <1>0 DEF Pull
<1>0b. \A p \in PR : pr[p].head \in Nat /\ pr[p].head <= pr[p].head
  BY <1>0a
<1>1. Disturb("others") => trouble' \in [{"others", "mishaps", "unsent"} -> 0 .. MaxTrouble]
  BY TroubleTypes DEF SafeInv
<1>2. CASE OtherNews
  BY <1>0, <1>0b, <1>1, <1>2, ElsewhereKeeps DEF OtherNews, github
<1>3. ASSUME NEW p \in PR, NEW r \in Pull, Becomes(p, r), pr[p].head <= r.head
      PROVE  pr' \in [PR -> Pull] /\ \A q \in PR : pr[q].head <= pr'[q].head
  BY <1>0, <1>0b, <1>3 DEF Becomes
<1>4. ASSUME NEW p \in PR, ChecksReport(p) PROVE TypeOK' /\ ScriptFits'
  <2>1. PICK g \in {"held", "clean"} : Becomes(p, [pr[p] EXCEPT !.gate = g])
    BY <1>4 DEF ChecksReport
  <2>2. /\ [pr[p] EXCEPT !.gate = g] \in Pull
        /\ pr[p].head <= [pr[p] EXCEPT !.gate = g].head
    <3>1. [pr[p] EXCEPT !.gate = g].head = pr[p].head
      BY <1>0a DEF Pull
    <3>2. pr[p].head <= pr[p].head
      BY <1>0b
    <3>3. [pr[p] EXCEPT !.gate = g] \in Pull
      BY <1>0a DEF Pull
    <3> QED
      BY <3>1, <3>2, <3>3
  <2>3. pr' \in [PR -> Pull] /\ \A q \in PR : pr[q].head <= pr'[q].head
    BY <1>3, <2>1, <2>2
  <2> QED
    BY <1>0, <1>4, <2>3, ElsewhereKeeps DEF ChecksReport
<1>5. ASSUME NEW p \in PR, HoldChanges(p) PROVE TypeOK' /\ ScriptFits'
  <2>1. PICK g \in {"held", "clean"} : Becomes(p, [pr[p] EXCEPT !.gate = g])
    BY <1>5 DEF HoldChanges
  <2>2. /\ [pr[p] EXCEPT !.gate = g] \in Pull
        /\ pr[p].head <= [pr[p] EXCEPT !.gate = g].head
    <3>1. [pr[p] EXCEPT !.gate = g].head = pr[p].head
      BY <1>0a DEF Pull
    <3>2. pr[p].head <= pr[p].head
      BY <1>0b
    <3>3. [pr[p] EXCEPT !.gate = g] \in Pull
      BY <1>0a DEF Pull
    <3> QED
      BY <3>1, <3>2, <3>3
  <2>3. pr' \in [PR -> Pull] /\ \A q \in PR : pr[q].head <= pr'[q].head
    BY <1>3, <2>1, <2>2
  <2> QED
    BY <1>0, <1>1, <1>5, <2>3, ElsewhereKeeps DEF HoldChanges
<1>6. ASSUME NEW p \in PR, OutsiderPushes(p) PROVE TypeOK' /\ ScriptFits'
  <2>1. Becomes(p, NewHead(pr[p])) /\ pr[p].head < MaxHead
    BY <1>6 DEF OutsiderPushes
  <2>2. NewHead(pr[p]) \in Pull
    <3>1. pr[p].head + 1 \in 0 .. MaxHead
      BY <1>0a, <2>1, BoundsAreSane
    <3> QED
      BY <1>0a, <3>1 DEF NewHead, Pull
  <2>3. NewHead(pr[p]).head = pr[p].head + 1
    BY <1>0a DEF NewHead, Pull
  <2>4. pr' \in [PR -> Pull] /\ \A q \in PR : pr[q].head <= pr'[q].head
    BY <1>0b, <1>3, <2>1, <2>2, <2>3
  <2> QED
    BY <1>0, <1>1, <1>6, <2>4, ElsewhereKeeps DEF OutsiderPushes
<1>7. ASSUME NEW p \in PR, OwnerMerges(p) PROVE TypeOK' /\ ScriptFits'
  <2>1. Becomes(p, [pr[p] EXCEPT !.st = "merged"]) /\ main' = Landed(p) /\ p \in Number
    BY <1>7, BoundsAreSane DEF OwnerMerges, PR, Number
  <2>2. /\ [pr[p] EXCEPT !.st = "merged"] \in Pull
        /\ pr[p].head <= [pr[p] EXCEPT !.st = "merged"].head
    <3>1. [pr[p] EXCEPT !.st = "merged"].head = pr[p].head
      BY <1>0a DEF Pull
    <3>2. pr[p].head <= pr[p].head
      BY <1>0b
    <3>3. [pr[p] EXCEPT !.st = "merged"] \in Pull
      BY <1>0a DEF Pull
    <3> QED
      BY <3>1, <3>2, <3>3
  <2>3. pr' \in [PR -> Pull] /\ \A q \in PR : pr[q].head <= pr'[q].head
    BY <1>3, <2>1, <2>2
  <2>4. MainGrows /\ main' \in Seq(Commits)
    BY <2>1, LandedGrows DEF SafeInv
  <2> QED
    BY <1>1, <1>7, <2>3, <2>4, ElsewhereKeeps DEF OwnerMerges
<1>8. CASE OutsiderLands
  <2>1. 0 \in Number /\ main' = Landed(0)
    BY <1>8, BoundsAreSane DEF OutsiderLands, Number
  <2>2. MainGrows /\ main' \in Seq(Commits)
    BY <2>1, LandedGrows DEF SafeInv
  <2> QED
    BY <1>0, <1>0b, <1>1, <1>8, <2>2, ElsewhereKeeps DEF OutsiderLands
<1>9. ASSUME NEW c \in Commit, MainReports(c) PROVE TypeOK' /\ ScriptFits'
  <2>1. MainGrows /\ main' \in Seq(Commits)
    BY <1>9, ReportGrows DEF SafeInv
  <2>2. Elsewhere /\ pr' = pr /\ trouble' = trouble
    BY <1>9 DEF MainReports
  <2> QED
    BY <1>0, <1>0b, <2>1, <2>2, ElsewhereKeeps
<1> QED
  BY <1>2, <1>4, <1>5, <1>6, <1>7, <1>8, <1>9 DEF World

----------------------------------------------------------------------------
(* Merges, the runs of the default branch and the verdicts on them.        *)

(* What was merged stays so: at the merge itself,                          *)
LEMMA MergingKeepsMerges ==
  ASSUME SafeInv, TypeOK', Merge
  PROVE  MergesFit'
<1>1. PICK i \in 1 .. 9 : todo = MergeTail(i) /\ pass.pr \in PR /\ (i <= 2 => NotYetMerged)
  BY NextStep DEF Merge, Doing, SafeInv, Merging
<1>2. i = 2
  <2>1. todo[1] = MergeSteps[i] /\ todo[1].do = "merge"
    BY <1>1, MergeTails DEF Merge, Doing
  <2>2. /\ MergeSteps[1].do # "merge" /\ MergeSteps[3].do # "merge" /\ MergeSteps[4].do # "merge"
        /\ MergeSteps[5].do # "merge" /\ MergeSteps[6].do # "merge" /\ MergeSteps[7].do # "merge"
        /\ MergeSteps[8].do # "merge" /\ MergeSteps[9].do # "merge"
    BY DEF MergeSteps, Move, Call, Do
  <2> QED
    BY <2>1, <2>2
<1>3. /\ pr' = [pr EXCEPT ![pass.pr].st = "merged"] /\ verdict' = verdict /\ log' = log
      /\ merges' = [merges EXCEPT ![pass.pr] = merges[pass.pr] + 1]
      /\ main' = IF pr[pass.pr].st = "merged" THEN main ELSE Landed(pass.pr)
  BY DEF Merge
<1>4. pr \in [PR -> Pull] /\ merges \in [PR -> Nat] /\ pass.pr \in Number
  BY PullTypes DEF SafeInv, TypeOK
<1>5. MainGrows
  BY <1>3, <1>4, SameMainGrows, LandedGrows DEF SafeInv
<1>6. ASSUME NEW p \in PR
      PROVE  MergeFits(p)'
  <2>1. MergeFits(p)
    BY DEF SafeInv, MergesFit
  <2>2. CASE p # pass.pr
    <3>1. pr'[p] = pr[p] /\ merges'[p] = merges[p]
      BY <1>3, <1>4, <2>2
    <3> QED
      BY <1>3, <1>5, <2>1, <3>1, ContainsGrows DEF SafeInv, MergeFits, MainGrows
  <2>3. CASE p = pass.pr
    <3>1. pr'[p].st = "merged" /\ merges'[p] = 1 /\ merges[p] = 0
      BY <1>1, <1>2, <1>3, <1>4, <2>3 DEF Pull, NotYetMerged
    <3>2. log.sha[p] = 0 /\ verdict[p] = "none"
      <4>1. verdict[p] \in {"none", "verified", "failed"}
        BY DEF SafeInv, TypeOK
      <4> QED
        BY <2>1, <3>1, <4>1 DEF MergeFits
    <3>3. Contains(Len(main), p)'
      <4>1. CASE pr[p].st = "merged"
        BY <1>5, <2>1, <4>1, ContainsGrows DEF SafeInv, MergeFits
      <4>2. CASE pr[p].st # "merged"
        <5>1. main' = Landed(p) /\ p \in Number
          BY <1>3, <1>4, <2>3, <4>2
        <5> QED
          BY <5>1, LandedGrows DEF SafeInv
      <4> QED
        BY <4>1, <4>2
    <3> QED
      BY <1>3, <2>1, <3>1, <3>2, <3>3 DEF MergeFits
  <2> QED
    BY <2>2, <2>3
<1> QED
  BY <1>3, <1>6 DEF SafeInv, MergesFit

(* when an event is recorded,                                              *)
LEMMA EventKeepsMerges ==
  ASSUME SafeInv, RecordEvent
  PROVE  MergesFit'
<1>1. /\ todo # <<>> /\ todo[1].do = "event" /\ UNCHANGED <<pr, main, merges>>
      /\ log' = Logged(todo[1].kind)
  BY DEF RecordEvent, Doing, github
<1>1a. todo[1] \in Elements(todo) /\ todo[1] \in Steps
  BY <1>1, TailElements DEF SafeInv, TypeOK
<1>1b. todo[1].kind # "PR_MERGED" => SameLog
  BY <1>1, LoggedTypes DEF SafeInv, SameLog
<1>2. CASE verdict' = verdict /\ todo[1].kind # "PR_MERGED"
  BY <1>1, <1>1b, <1>2 DEF SafeInv, MergesFit, MergeFits, SameLog, Contains
<1>3. CASE todo[1].kind = "PR_MERGED"
  <2>1. verdict' = verdict
    BY <1>3 DEF RecordEvent, Outcome
  <2>2. todo[1] \in Report("PR_MERGED")
    BY <1>1, <1>1a, <1>3 DEF Report
  <2>3. Merging
    BY <1>1, <2>2, NextStep DEF SafeInv
  <2>4. PICK i \in 1 .. 9 : /\ todo = MergeTail(i) /\ pass.pr \in PR
                            /\ i \in 3 .. 8 => MergeOnMain
                            /\ i \in 4 .. 8 => HeadKnown
    BY <2>3 DEF Merging
  <2>5. i = 8
    <3>1. todo[1] = MergeSteps[i]
      BY <2>4, MergeTails
    <3>2. /\ MergeSteps[1].do # "event" /\ MergeSteps[2].do # "event"
          /\ MergeSteps[3].do # "event" /\ MergeSteps[4].do # "event"
          /\ MergeSteps[5].do # "event" /\ MergeSteps[6].do # "event"
          /\ MergeSteps[7].do # "event" /\ MergeSteps[9].do # "event"
      BY DEF MergeSteps, Move, Call, Do
    <3> QED
      BY <1>1, <3>1, <3>2
  <2>6. MergeOnMain /\ HeadKnown
    BY <2>4, <2>5
  <2>7. /\ log'.of = pass.pr /\ log'.sha = [log.sha EXCEPT ![pass.pr] = pass.sha]
        /\ log'.newer = [Older EXCEPT ![pass.pr] = 0]
    BY <1>1, <1>3 DEF Logged
  <2>8. log.sha \in [PR -> Nat] /\ pass.sha \in Nat /\ Len(main) \in Nat
    BY DEF SafeInv, TypeOK, Events
  <2>9. ASSUME NEW p \in PR PROVE MergeFits(p)'
    <3>1. MergeFits(p)
      BY DEF SafeInv, MergesFit
    <3>2. CASE p = pass.pr
      <4>1. log'.sha[p] = pass.sha /\ pass.sha \in 1 .. Len(main) /\ Contains(pass.sha, p)
        BY <2>6, <2>7, <2>8, <3>2 DEF HeadKnown
      <4>2. verdict[p] = "none" /\ merges[p] > 0
        BY <2>6, <3>1, <3>2 DEF MergeOnMain, MergeFits
      <4> QED
        BY <1>1, <2>1, <3>1, <4>1, <4>2 DEF MergeFits, Contains
    <3>3. CASE p # pass.pr
      <4>1. /\ log'.sha[p] = log.sha[p]
            /\ log.sha[p] = 0 => log'.newer[p] = log.newer[p]
        <5>1. log'.sha[p] = log.sha[p]
          BY <2>7, <2>8, <3>3
        <5>2. log'.newer[p] = Older[p]
          BY <2>7, <3>3 DEF Older
        <5>3. log.sha[p] = 0 => Older[p] = log.newer[p]
          BY DEF Older
        <5> QED
          BY <5>1, <5>2, <5>3
      <4> QED
        BY <1>1, <2>1, <3>1, <4>1 DEF MergeFits, Contains
    <3> QED
      BY <3>2, <3>3
  <2>10. log'.sha[log'.of] # 0
    BY <2>4, <2>6, <2>7, <2>8 DEF HeadKnown
  <2> QED
    BY <2>9, <2>10 DEF MergesFit
<1>4. CASE verdict' # verdict
  <2>1. /\ verdict' = [verdict EXCEPT ![log.of] = Outcome(todo[1].kind)]
        /\ todo[1].kind \in {"POST_MERGE_VERIFIED", "POST_MERGE_FAILED"}
    BY <1>4 DEF RecordEvent, Outcome
  <2>2. todo[1] \in Elements(todo) /\ todo[1] \in Steps
    BY <1>1a
  <2>3. Concluding
    <3>1. todo[1] \notin Plain
      BY <2>1, <1>1 DEF Plain, MergeKinds
    <3>2. ~PlainScript(todo)
      BY <2>2, <3>1 DEF PlainScript
    <3>3. ~Repairing
      BY <1>1, <2>2, StepDo DEF Repairing
    <3>4. ~Judging
      BY <1>1, <2>2, StepDo DEF Judging
    <3>5. ~Creating
      BY <1>1, <2>2, <3>1, StepDo DEF Creating
    <3>6. ~Pushing
      BY <1>1, <2>2, <3>1, StepDo DEF Pushing
    <3>7. ~Merging
      <4>1. ASSUME NEW i \in 1 .. 9, todo[1] = MergeSteps[i] PROVE FALSE
        <5>1. /\ MergeSteps[1].do # "event" /\ MergeSteps[2].do # "event"
              /\ MergeSteps[3].do # "event" /\ MergeSteps[4].do # "event"
              /\ MergeSteps[5].do # "event" /\ MergeSteps[6].do # "event"
              /\ MergeSteps[7].do # "event" /\ MergeSteps[8].kind = "PR_MERGED"
              /\ MergeSteps[9].do # "event"
          BY DEF MergeSteps, Move, Call, Do
        <5> QED
          BY <1>1, <2>1, <4>1, <5>1
      <4> QED
        BY <4>1, MergeTails DEF Merging
    <3> QED
      BY <3>2, <3>3, <3>4, <3>5, <3>6, <3>7 DEF SafeInv, ScriptFits
  <2>4. PICK kind \in {"POST_MERGE_VERIFIED", "POST_MERGE_FAILED"} :
               Elements(todo) \subseteq Plain \cup Report(kind) /\ Judged(kind)
    BY <2>3 DEF Concluding
  <2>5. todo[1].kind = kind
    BY <1>1, <2>1, <2>2, <2>4 DEF Plain, Report, MergeKinds
  <2>6. \A p \in PR : verdict'[p] = IF p = log.of THEN Outcome(kind) ELSE verdict[p]
    BY <2>1, <2>5 DEF SafeInv, TypeOK
  <2>7. /\ Outcome(kind) = "verified" => kind = "POST_MERGE_VERIFIED"
        /\ Outcome(kind) = "failed" => kind = "POST_MERGE_FAILED"
    BY DEF Outcome
  <2>8. SameLog
    BY <1>1b, <2>1
  <2>9. ASSUME NEW p \in PR PROVE MergeFits(p)'
    <3>1. MergeFits(p)
      BY DEF SafeInv, MergesFit
    <3>2. CASE p = log.of
      <4>1. log.sha[p] \in 1 .. Len(main) /\ verdict'[p] = Outcome(kind)
        BY <2>4, <2>6, <3>2 DEF Judged
      <4>2. /\ verdict'[p] = "verified" => main[log.sha[p]].runs = "passed"
            /\ verdict'[p] = "failed" => main[log.sha[p]].runs = "failed"
        BY <2>4, <2>7, <3>2, <4>1 DEF Judged, Runs
      <4> QED
        BY <1>1, <2>8, <3>1, <4>1, <4>2 DEF MergeFits, SameLog, Contains
    <3>3. CASE p # log.of
      <4>1. verdict'[p] = verdict[p]
        BY <2>6, <3>3
      <4> QED
        BY <1>1, <2>8, <3>1, <4>1 DEF MergeFits, SameLog, Contains
    <3> QED
      BY <3>2, <3>3
  <2> QED
    BY <2>8, <2>9 DEF SafeInv, MergesFit, SameLog
<1> QED
  BY <1>2, <1>3, <1>4

(* whatever others do,                                                     *)
LEMMA WorldKeepsMerges ==
  ASSUME SafeInv, TypeOK', \/ OutsiderLands \/ \E p \in PR : World(p)
                           \/ \E c \in Commit : MainReports(c)
  PROVE  MergesFit'
<1>1. pr \in [PR -> Pull] /\ \A p \in PR : pr[p] \in Pull
  BY PullTypes DEF SafeInv
<1>2. UNCHANGED <<log, merges, verdict>>
  BY DEF World, ChecksReport, HoldChanges, OutsiderPushes, OwnerMerges, OutsiderLands,
         MainReports, Elsewhere
<1>3. ASSUME MainGrows,
             \A p \in PR : pr[p].st = "merged" => pr'[p].st = "merged",
             \A p \in PR : pr'[p].st = "merged" =>
                           pr[p].st = "merged" \/ Contains(Len(main), p)'
      PROVE  MergesFit'
  <2>1. ASSUME NEW p \in PR PROVE MergeFits(p)'
    <3>1. MergeFits(p)
      BY DEF SafeInv, MergesFit
    <3>2. pr'[p].st = "merged" => Contains(Len(main), p)'
      BY <1>3, <3>1, ContainsGrows DEF SafeInv, MergeFits
    <3>3. log.sha[p] # 0 => log.sha[p] \in 1 .. Len(main') /\ Contains(log.sha[p], p)'
      BY <1>2, <1>3, <3>1, ContainsGrows DEF SafeInv, MergeFits, Contains
    <3> QED
      BY <1>2, <1>3, <3>1, <3>2, <3>3 DEF MergeFits, MainGrows
  <2> QED
    BY <1>2, <2>1 DEF SafeInv, MergesFit
<1>4. ASSUME NEW p \in PR, NEW r, Becomes(p, r), r.st = pr[p].st, main' = main
      PROVE  MergesFit'
  <2>1. \A q \in PR : pr'[q].st = pr[q].st
    BY <1>1, <1>4 DEF Becomes
  <2> QED
    BY <1>3, <1>4, <2>1, SameMainGrows DEF SafeInv
<1>5. ASSUME NEW p \in PR, ChecksReport(p) \/ HoldChanges(p) PROVE MergesFit'
  <2>1. PICK g \in {"held", "clean"} : Becomes(p, [pr[p] EXCEPT !.gate = g])
    BY <1>5 DEF ChecksReport, HoldChanges
  <2>2. [pr[p] EXCEPT !.gate = g].st = pr[p].st /\ main' = main
    BY <1>1, <1>5 DEF Pull, ChecksReport, HoldChanges
  <2> QED
    BY <1>4, <2>1, <2>2
<1>6. ASSUME NEW p \in PR, OutsiderPushes(p) PROVE MergesFit'
  <2>1. NewHead(pr[p]).st = pr[p].st
    BY <1>1 DEF NewHead, Pull
  <2> QED
    BY <1>4, <1>6, <2>1 DEF OutsiderPushes
<1>7. ASSUME NEW p \in PR, OwnerMerges(p) PROVE MergesFit'
  <2>1. /\ pr' = [pr EXCEPT ![p] = [pr[p] EXCEPT !.st = "merged"]]
        /\ main' = Landed(p) /\ p \in Number
    BY <1>7, BoundsAreSane DEF OwnerMerges, Becomes, PR, Number
  <2>2. [pr[p] EXCEPT !.st = "merged"].st = "merged"
    BY <1>1 DEF Pull
  <2>3. \A q \in PR : /\ q = p => pr'[q].st = "merged"
                      /\ q # p => pr'[q] = pr[q]
    BY <1>1, <2>1, <2>2
  <2>4. MainGrows /\ Contains(Len(main), p)'
    BY <2>1, LandedGrows DEF SafeInv
  <2> QED
    BY <1>3, <2>3, <2>4
<1>8. CASE OutsiderLands
  <2>1. 0 \in Number /\ main' = Landed(0) /\ pr' = pr
    BY <1>8, BoundsAreSane DEF OutsiderLands, Number
  <2>2. MainGrows
    BY <2>1, LandedGrows DEF SafeInv
  <2> QED
    BY <1>3, <2>1, <2>2
<1>9. ASSUME NEW c \in Commit, MainReports(c) PROVE MergesFit'
  <2>1. MainGrows /\ pr' = pr
    BY <1>9, ReportGrows DEF SafeInv, MainReports
  <2> QED
    BY <1>3, <2>1
<1> QED
  BY <1>5, <1>6, <1>7, <1>8, <1>9 DEF World

(* in steps that leave merges and verdicts alone,                          *)
LEMMA RestKeepsMerges ==
  ASSUME SafeInv, UNCHANGED <<main, merges, verdict>>, SameLog,
         \A p \in PR : pr'[p].st = "merged" <=> pr[p].st = "merged"
  PROVE  MergesFit'
<1>1. \A p \in PR : MergeFits(p) => MergeFits(p)'
  BY DEF MergeFits, SameLog, Contains
<1> QED
  BY <1>1 DEF SafeInv, MergesFit, SameLog

(* and in those that change a pull request.                                *)
LEMMA PassKeepsMerges ==
  ASSUME SafeInv, CreatePR \/ Push \/ MarkReady
  PROVE  MergesFit'
<1>1. /\ pr \in [PR -> Pull] /\ (\A p \in PR : pr[p] \in Pull)
      /\ UNCHANGED <<main, merges, verdict>> /\ SameLog
  BY PullTypes DEF SafeInv, CreatePR, Push, MarkReady, SameLog
<1>2. CASE CreatePR
  <2>1. PICK p \in PR : pr[p].st = "none" /\ pr' = [pr EXCEPT ![p].st = "draft"]
    BY <1>2 DEF CreatePR, Unused
  <2>2. \A q \in PR : /\ q # p => pr'[q] = pr[q]
                      /\ q = p => pr'[q].st = "draft"
    BY <1>1, <2>1 DEF Pull
  <2> QED
    BY <1>1, <2>1, <2>2, RestKeepsMerges
<1>3. CASE Push
  <2>1. pr' = pr \/ pr' = [pr EXCEPT ![pass.pr] = NewHead(@)]
    BY <1>3 DEF Push
  <2>2. \A q \in PR : NewHead(pr[q]).st = pr[q].st
    BY <1>1 DEF NewHead, Pull
  <2>3. \A q \in PR : pr'[q] \in {pr[q], NewHead(pr[q])}
    BY <1>1, <2>1
  <2> QED
    BY <1>1, <2>2, <2>3, RestKeepsMerges
<1>4. CASE MarkReady
  <2>1. pr' = pr \/ (pr[pass.pr].st = "draft" /\ pr' = [pr EXCEPT ![pass.pr].st = "ready"])
    BY <1>4 DEF MarkReady
  <2>2. \A q \in PR : pr'[q] = pr[q] \/ (pr[q].st = "draft" /\ pr'[q].st = "ready")
    BY <1>1, <2>1 DEF Pull
  <2> QED
    BY <1>1, <2>2, RestKeepsMerges
<1> QED
  BY <1>2, <1>3, <1>4

(* An empty store is safe.                                                 *)
LEMMA InitSafe ==
  ASSUME Init
  PROVE  SafeInv
<1>1. TypeOK
  <2>1. last \in [kind : Kinds, st : RunStates, same : BOOLEAN] /\ state \in RunStates
    BY DEF Init, Kinds, RunStates
  <2>2. log \in Events /\ main \in Seq(Commits) /\ active \in [pr : Number, status : Statuses]
        /\ (active.pr = 0 <=> active.status = "none")
    BY BoundsAreSane DEF Init, NoWork, Number, Statuses, Events, Commits
  <2>3. pr \in [PR -> [st : {"none", "draft", "ready", "merged"}, head : 0 .. MaxHead,
                       gate : {"pending", "held", "clean"}]]
    BY BoundsAreSane DEF Init
  <2>4. pass \in [ctx : {"none", "bare", "execute"}, pr : Number, head : 0 .. MaxHead,
                  sha : Nat, same : BOOLEAN, still : BOOLEAN, retry : BOOLEAN] /\ todo \in Seq(Steps)
    BY BoundsAreSane, Singles DEF Init, NoPass, Number, PlainScript
  <2>5. trouble \in [{"others", "mishaps", "unsent"} -> 0 .. MaxTrouble]
    BY BoundsAreSane DEF Init
  <2> QED
    BY <2>1, <2>2, <2>3, <2>4, <2>5 DEF Init, TypeOK
<1>2. ScriptFits
  BY Singles DEF Init, ScriptFits
<1>3. MergesFit
  BY DEF Init, MergesFit, MergeFits
<1> QED
  BY <1>1, <1>2, <1>3 DEF SafeInv

(* Every step keeps the invariant.                                         *)
LEMMA StepSafe ==
  ASSUME SafeInv, [Next]_vars
  PROVE  SafeInv'
<1>1. CASE DoMove
  <2>1. MergesFit'
    BY <1>1, RestKeepsMerges DEF DoMove, SameLog, github, history
  <2> QED
    BY <1>1, <2>1, MoveKeeps DEF SafeInv
<1>2. CASE RecordEvent
  BY <1>2, EventKeeps, EventKeepsMerges DEF SafeInv
<1>3. CASE Sent \/ ReadMainHead
  <2>1. MergesFit'
    BY <1>3, RestKeepsMerges DEF Sent, ReadMainHead, SameLog, store, github, history
  <2> QED
    BY <1>3, <2>1, SentKeeps, HeadKeeps DEF SafeInv
<1>4. CASE Unsent
  <2>1. SameLog
    BY <1>4, LoggedTypes DEF Unsent, SafeInv, SameLog
  <2>2. MergesFit'
    BY <1>4, <2>1, RestKeepsMerges DEF Unsent, github, history
  <2> QED
    BY <1>4, <2>2, UnsentKeeps DEF SafeInv
<1>5. CASE WriteActive
  <2>1. MergesFit'
    BY <1>5, RestKeepsMerges DEF WriteActive, SameLog, github, history
  <2> QED
    BY <1>5, <2>1, WriteKeeps DEF SafeInv
<1>6. CASE CreatePR
  BY <1>6, CreateKeeps, PassKeepsMerges DEF SafeInv
<1>7. CASE Push
  BY <1>7, PushKeeps, PassKeepsMerges DEF SafeInv
<1>8. CASE MarkReady
  BY <1>8, ReadyKeeps, PassKeepsMerges DEF SafeInv
<1>9. CASE Comment
  <2>1. MergesFit'
    BY <1>9, RestKeepsMerges DEF Comment, SameLog, github, history
  <2> QED
    BY <1>9, <2>1, CommentKeeps DEF SafeInv
<1>10. CASE Merge
  <2>1. TypeOK' /\ ScriptFits'
    BY <1>10, MergeKeeps
  <2>2. MergesFit'
    BY <1>10, <2>1, MergingKeepsMerges
  <2> QED
    BY <2>1, <2>2 DEF SafeInv
<1>11. CASE ReadPR
  <2>1. MergesFit'
    BY <1>11, RestKeepsMerges DEF ReadPR, SameLog, store, github, history
  <2> QED
    BY <1>11, <2>1, ReadKeeps DEF SafeInv
<1>12. CASE PushRejected \/ MoveRefused \/ CallFails \/ AskFails
  <2>1. MergesFit'
    BY <1>12, RestKeepsMerges
       DEF PushRejected, MoveRefused, CallFails, AskFails, Unmoved, SameLog, store, github, history
  <2> QED
    BY <1>12, <2>1, FailureKeeps DEF SafeInv
<1>13. CASE Crash
  <2>1. MergesFit'
    BY <1>13, RestKeepsMerges DEF Crash, SameLog, store, github, history
  <2> QED
    BY <1>13, <2>1, CrashKeeps DEF SafeInv
<1>14. CASE PlanEnds \/ PlanRepeats \/ PlanSelects
  <2>1. MergesFit'
    BY <1>14, RestKeepsMerges DEF PlanEnds, PlanRepeats, PlanSelects, Unmoved, SameLog, store, github
  <2> QED
    BY <1>14, <2>1, PlanKeeps DEF SafeInv
<1>15. CASE IssueChanges
  <2>1. MergesFit'
    BY <1>15, RestKeepsMerges DEF IssueChanges, SameLog, github
  <2> QED
    BY <1>15, <2>1, IssueKeeps DEF SafeInv
<1>16. CASE CoderAnswers \/ RepairAnswers \/ ReviewAnswers \/ FinalAnswers
  <2>1. MergesFit'
    BY <1>16, RestKeepsMerges
       DEF CoderAnswers, RepairAnswers, ReviewAnswers, FinalAnswers, Unmoved, SameLog, store, github
  <2> QED
    BY <1>16, <2>1, CoderKeeps, RepairKeeps, ReviewKeeps, FinalKeeps DEF SafeInv
<1>17. CASE Cycle \/ Watch
  <2>1. MergesFit'
    BY <1>17, RestKeepsMerges DEF Cycle, Watch, Begin, SameLog, store, github, history
  <2> QED
    BY <1>17, <2>1, BeginKeeps DEF SafeInv
<1>18. CASE OtherNews
  <2>1. MergesFit'
    BY <1>18, RestKeepsMerges DEF OtherNews, Elsewhere, SameLog, github
  <2> QED
    BY <1>18, <2>1, WorldKeeps DEF SafeInv
<1>19. CASE \/ OutsiderLands \/ \E p \in PR : World(p)
            \/ \E c \in Commit : MainReports(c)
  <2>1. TypeOK' /\ ScriptFits'
    BY <1>19, WorldKeeps
  <2>2. MergesFit'
    BY <1>19, <2>1, WorldKeepsMerges
  <2> QED
    BY <2>1, <2>2 DEF SafeInv
<1>20. CASE UNCHANGED vars
  <2>1. TypeOK'
    BY <1>20 DEF vars, store, github, history, SafeInv, TypeOK
  <2>2. MergesFit'
    BY <1>20, RestKeepsMerges DEF vars, store, github, history, SameLog
  <2>3. ScriptFits'
    BY <1>20 DEF vars, store, github, history, SafeInv, ScriptFits, Repairing, Judging,
                 Creating, Pushing, Merging, Concluding, NotYetMerged, MergeOnMain, HeadKnown,
                 Contains, Judged, Runs
  <2> QED
    BY <2>1, <2>2, <2>3 DEF SafeInv
<1> QED
  BY <1>1, <1>2, <1>3, <1>4, <1>5, <1>6, <1>7, <1>8, <1>9, <1>10, <1>11, <1>12, <1>13, <1>14,
     <1>15, <1>16, <1>17, <1>18, <1>19, <1>20 DEF Next, PassStep

(* The inductive invariant holds in every reachable state: scripts are     *)
(* rests of what the engine writes; a pull request is merged once by a     *)
(* pass; the commit its PR_MERGED event names contains the merge, although *)
(* others may have landed theirs before the pass looked; and its verdict   *)
(* is what the runs of that commit reported.                               *)
THEOREM DeliveryIsSafe == Spec => []SafeInv
BY InitSafe, StepSafe, PTL DEF Spec

(* The store, GitHub and the running pass keep their types: every pull     *)
(* request a step works on exists, every row of the active work is whole.  *)
THEOREM DeliveryTypes == Spec => []TypeOK
BY DeliveryIsSafe, PTL DEF SafeInv

(* No pull request is merged by two merge calls, however often a pass      *)
(* crashes between the merge and forgetting the active pull request.       *)
THEOREM MergesAreNotRepeated == Spec => []MergedOnce
<1>1. SafeInv => MergedOnce
  BY DEF SafeInv, MergesFit, MergeFits, MergedOnce
<1> QED
  BY <1>1, DeliveryIsSafe, PTL

(* A verdict recorded for a merge is what the runs of one commit reported, *)
(* the one that the pass found at the head of the default branch after its *)
(* merge, and that commit contains the merge, whoever else pushed or       *)
(* merged meanwhile.                                                       *)
THEOREM VerdictsAreTrue == Spec => []VerdictCoversMerge
<1>1. SafeInv => VerdictCoversMerge
  BY DEF SafeInv, TypeOK, MergesFit, MergeFits, VerdictCoversMerge
<1> QED
  BY <1>1, DeliveryIsSafe, PTL
=============================================================================
