------------------------------- MODULE MCCluster -------------------------------
(***************************************************************************)
(* Instances of Cluster for TLC: two nodes, the designated one with a      *)
(* process for its local and one for the Shared domains.                   *)
(***************************************************************************)
EXTENDS Cluster

CONSTANTS n1, n2, p1, p2, p3, d1, d2

On == [p \in Process |-> IF p = p3 THEN n2 ELSE n1]
Same == [n \in Domain |-> n]

None == [local |-> FALSE, shared |-> FALSE, include |-> {}]
Local == [None EXCEPT !.local = TRUE]
OnlyTheShared == [None EXCEPT !.shared = TRUE]
Set(a, b, c) == [p \in Process |-> IF p = p1 THEN a ELSE IF p = p2 THEN b ELSE c]
Command(s) == [file |-> None, flags |-> s]

\* The documented roles, on the command line; only_local in a file all nodes
\* share, with --onlyshared on the designated one, which cancels out there; and a
\* second process that names its domains.
AllSetups == {
    Set(Command(Local), Command(OnlyTheShared), Command(Local)),
    Set([file |-> Local, flags |-> None], [file |-> Local, flags |-> OnlyTheShared],
        [file |-> Local, flags |-> None]),
    Set([file |-> [None EXCEPT !.include = {d1}], flags |-> None],
        [file |-> [None EXCEPT !.include = {d1}], flags |-> [None EXCEPT !.include = {d2}]],
        Command(None))}
===============================================================================
