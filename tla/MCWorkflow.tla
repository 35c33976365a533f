----------------------------- MODULE MCWorkflow -----------------------------
EXTENDS WorkflowReconcile

(* The planner decisions that the runs consider.                           *)
PlanOf(kind, auto, qa) == [kind |-> kind, auto |-> auto, qa |-> qa]
MergePlans == {PlanOf("review", TRUE, <<"library">>)}
EveryPlan == {PlanOf("issue", FALSE, <<>>), PlanOf("build", FALSE, <<"library">>),
              PlanOf("repair", FALSE, <<>>), PlanOf("review", FALSE, <<"library">>)}
             \cup {PlanOf("review", TRUE, <<>>)}

NoTrouble == [k \in Kinds |-> 0]
MoreForIssues == [k \in Kinds |-> IF k = "issue" THEN 2 ELSE 1]
=============================================================================
