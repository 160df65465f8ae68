-------------------------------- MODULE Batch ---------------------------------
(***************************************************************************)
(* What a run promises about the domains it was given, as an operator sees *)
(* it: each is looked at, whatever becomes of the others; those that are   *)
(* due are renewed one by one; each ends up settled or failed, once; and   *)
(* the exit status is the verdict on all of them.  Only a run that gets no *)
(* ACME account may leave domains behind, and not before it has looked at  *)
(* all of them.                                                            *)
(***************************************************************************)
EXTENDS Naturals

VARIABLES
    ahead,      \* domains still to be looked at
    due,        \* domains to be renewed
    settled, failed, status

batch == <<ahead, due, settled, failed, status>>

Init ==
    /\ ahead \in Nat
    /\ due = 0 /\ settled = 0 /\ failed = 0 /\ status = "running"

\* A domain is concluded, one way or the other.
Counted ==
    \/ settled' = settled + 1 /\ UNCHANGED failed
    \/ failed' = failed + 1 /\ UNCHANGED settled

Examine ==
    /\ ahead > 0 /\ ahead' = ahead - 1
    /\ \/ Counted /\ UNCHANGED due
       \/ due' = due + 1 /\ UNCHANGED <<settled, failed>>
    /\ UNCHANGED status

Renew ==
    /\ ahead = 0 /\ due > 0 /\ due' = due - 1
    /\ Counted
    /\ UNCHANGED <<ahead, status>>

GetsNoAccount ==
    /\ ahead = 0 /\ due > 0
    /\ status' = "error"
    /\ UNCHANGED <<ahead, due, settled, failed>>

Finish ==
    /\ ahead = 0 /\ due = 0
    /\ status' = IF failed = 0 THEN "ok" ELSE "error"
    /\ UNCHANGED <<ahead, due, settled, failed>>

Next == status = "running" /\ (Examine \/ Renew \/ GetsNoAccount \/ Finish)

Spec == Init /\ [][Next]_batch
===============================================================================
