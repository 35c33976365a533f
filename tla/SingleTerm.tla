----------------------------- MODULE SingleTerm -----------------------------
(***************************************************************************)
(* What a repository lease promises, without rows, clocks or processes: at *)
(* most one session at a time is entitled to mutate the repository, and    *)
(* the entitlement passes from one session to another only through a       *)
(* moment at which nobody has it.                                          *)
(***************************************************************************)
CONSTANT Session

VARIABLE entitled      \* the set of sessions inside an unexpired term

Init == entitled = {}

Begin(s) == /\ entitled = {}
            /\ entitled' = {s}

End(s) == /\ entitled = {s}
          /\ entitled' = {}

Next == \E s \in Session : Begin(s) \/ End(s)

Spec == Init /\ [][Next]_entitled
=============================================================================
