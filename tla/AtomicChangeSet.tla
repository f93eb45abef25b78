--------------------------- MODULE AtomicChangeSet ---------------------------
(***************************************************************************)
(* What History relies on when it calls ChangeSet.do or ChangeSet.undo:     *)
(* the call ends once, with one of the outcomes of Changes!Outcomes, and    *)
(* nothing of the run in between is seen.  ChangeSet implements it.         *)
(***************************************************************************)
EXTENDS Changes

CONSTANTS Scripts, InitTrees

VARIABLES tree, changes, mode, status

vars == <<tree, changes, mode, status>>

Init ==
    /\ tree \in InitTrees
    /\ changes = <<>> /\ mode = "do" /\ status = "idle"

CallDo ==
    /\ status = "idle"
    /\ \E script \in Scripts : changes' = Built(script, tree)
    /\ mode' = "do" /\ status' = "running"
    /\ UNCHANGED tree

CallAgain ==
    /\ status = "returned"
    /\ mode' = Opposite(mode) /\ status' = "running"
    /\ UNCHANGED <<tree, changes>>

End ==
    /\ status = "running"
    /\ \E outcome \in Outcomes(mode, changes, tree) :
         /\ tree' = outcome.tree
         /\ changes' = outcome.changes
         /\ status' = IF outcome.ok THEN "returned" ELSE "raised"
    /\ UNCHANGED mode

Next == CallDo \/ CallAgain \/ End

Spec == Init /\ [][Next]_vars
=============================================================================
