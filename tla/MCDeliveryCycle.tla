-------------------------- MODULE MCDeliveryCycle --------------------------
(* Instances of DeliveryCycle for TLC.                                     *)
EXTENDS DeliveryCycle

MCAuto == {"auto_merge"}
MCOwner == {"owner_approval"}
MCBoth == MCAuto \cup MCOwner

MCAnswers == {"noContext", "suppressed", "planFails", "needsOwner", "denied", "report",
              "issue", "implement", "reviewPR", "changed", "workerBlocked", "ownerBlocked",
              "finished", "changes", "commentDecision", "approve", "decline", "fails"}
MCFew == {"report", "issue", "implement", "reviewPR", "changed", "workerBlocked",
          "finished", "changes", "commentDecision", "approve", "decline", "fails"}
MCSmooth == {"implement", "finished", "approve"}
=============================================================================
