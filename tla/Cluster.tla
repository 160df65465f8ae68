-------------------------------- MODULE Cluster --------------------------------
(***************************************************************************)
(* The tool on the nodes of a Dynamic Cluster, started by a timer once a   *)
(* period: which domains each process takes on (selectDomains), and what   *)
(* that means for the certificates over many periods.  The administrator   *)
(* makes a regular domain Shared, or a Shared one regular, at any moment,  *)
(* the one between the two reads of --onlylocal included.  What a process  *)
(* does with a domain is Run; here it gets through to the domain or fails. *)
(***************************************************************************)
EXTENDS Decision

CONSTANTS
    Node, Domain,
    Shared,         \* the home of a Shared domain
    Process,        \* the timer units of the cluster
    NodeOf,         \* the node each runs on
    Setups,         \* the file and the command line of each process
    Lifetime,       \* validity of a new certificate, in periods of the timer
    MaxMisses       \* periods in a row that may pass a domain by

Homes == Node \cup {Shared}
Selectors == [local : BOOLEAN, shared : BOOLEAN, include : SUBSET Domain]

\* Mutation of Effective: the command line's selector replaces the file's.
FlagsReplace(c) == IF c.flags.local \/ c.flags.shared THEN c.flags ELSE c.file
\* Flags can only be added to what the file says; a --domain list replaces its own.
Effective(c) ==
    [local   |-> c.file.local \/ c.flags.local,
     shared  |-> c.file.shared \/ c.flags.shared,
     include |-> IF c.flags.include # {} THEN c.flags.include ELSE c.file.include]

\* Mutation of OnlyLocal: --onlyshared does not cancel --onlylocal.
LocalOutranks(s) == s.local
OnlyLocal(s) == s.local /\ ~s.shared
OnlyShared(s) == s.shared /\ ~s.local

\* What the documentation of the selectors says a process on node n takes on.
Serves(c, n, d, h) ==
    LET local  == c.file.local \/ c.flags.local
        shared == c.file.shared \/ c.flags.shared
        listed == IF c.flags.include = {} THEN c.file.include ELSE c.flags.include
    IN  \/ shared /\ ~local /\ h = Shared
        \/ local /\ ~shared /\ h = n
        \/ (local <=> shared) /\ h \in {n, Shared} /\ (listed # {} => d \in listed)

\* A setup that leaves no domain out, wherever it is at home.
Complete(c) ==
    \A d \in Domain, h \in Homes : \E p \in Process : Serves(c[p], NodeOf[p], d, h)

ASSUME ClusterAssumption ==
    /\ Domain \subseteq Name /\ Shared \notin Node
    /\ NodeOf \in [Process -> Node]
    /\ Setups \subseteq [Process -> [file : Selectors, flags : Selectors]]
    /\ \A c \in Setups : Complete(c)
    /\ Lifetime \in Nat /\ MaxMisses \in Nat

\* The window must leave room for the periods that may pass a domain by.
ASSUME WindowAssumption ==
    LET window == (FractionNum * Lifetime) \div FractionDen
    IN  /\ MaxMisses + 1 < window \/ MaxMisses + 1 < RenewBefore
        /\ window <= Lifetime /\ RenewBefore <= Lifetime

VARIABLES
    home,       \* per domain, the node it is at home on, or Shared
    left,       \* per domain, the periods its certificate is still valid
    setup,      \* the configuration of the processes
    pc, todo,   \* of each process
    (* history *)
    seenBy,     \* per domain, the processes that got through to it this period
    moved,      \* domains that moved in this period
    missed      \* per domain, the periods in a row that passed it by

vars == <<home, left, setup, pc, todo, seenBy, moved, missed>>

TypeOK ==
    /\ home \in [Domain -> Homes]
    /\ left \in [Domain -> Int]
    /\ setup \in Setups
    /\ pc \in [Process -> {"waiting", "subtract", "work", "done"}]
    /\ todo \in [Process -> SUBSET Domain]
    /\ \A p \in Process : pc[p] \in {"waiting", "done"} => todo[p] = {}
    /\ seenBy \in [Domain -> SUBSET Process]
    /\ moved \in SUBSET Domain
    /\ missed \in [Domain -> Nat]

Init ==
    /\ home \in [Domain -> Homes]
    /\ left = [d \in Domain |-> Lifetime]
    /\ setup \in Setups
    /\ pc = [p \in Process |-> "waiting"]
    /\ todo = [p \in Process |-> {}]
    /\ seenBy = [d \in Domain |-> {}]
    /\ moved = {}
    /\ missed = [d \in Domain |-> 0]

-------------------------------------------------------------------------------
Selector(p) == Effective(setup[p])

\* LISTDOMAINS: all installed domains, the Shared ones among them.
Listed(p) == {d \in Domain : home[d] \in {NodeOf[p], Shared}}
\* LISTCONTROLLEDDOMAINS.
Controlled == {d \in Domain : home[d] = Shared}

Takes(p, next, domains) ==
    /\ pc[p] = "waiting"
    /\ pc' = [pc EXCEPT ![p] = next]
    /\ todo' = [todo EXCEPT ![p] = domains]
    /\ UNCHANGED <<home, left, setup, seenBy, moved, missed>>

SelectShared(p) == OnlyShared(Selector(p)) /\ Takes(p, "work", Controlled)

\* --onlylocal lists all first; Subtract takes the Shared ones out.
SelectLocal(p) == OnlyLocal(Selector(p)) /\ Takes(p, "subtract", Listed(p))

\* Neither, or both: the include list if there is one, else every domain.
SelectListed(p) ==
    LET s == Selector(p) IN
    /\ ~OnlyShared(s) /\ ~OnlyLocal(s)
    /\ Takes(p, "work", IF s.include # {} THEN s.include ELSE Listed(p))

\* Mutation of Subtract: the Shared list is not taken out.
SkipsSubtract(p) ==
    /\ pc[p] = "subtract"
    /\ pc' = [pc EXCEPT ![p] = "work"]
    /\ UNCHANGED <<home, left, setup, todo, seenBy, moved, missed>>

Subtract(p) ==
    /\ pc[p] = "subtract"
    /\ pc' = [pc EXCEPT ![p] = "work"]
    /\ todo' = [todo EXCEPT ![p] = @ \ Controlled]
    /\ UNCHANGED <<home, left, setup, seenBy, moved, missed>>

-------------------------------------------------------------------------------
(* The run over the selected domains. *)

\* The domain is checked, and renewed if its certificate is due.
Inspect(p) ==
    /\ pc[p] = "work"
    /\ \E d \in todo[p] :
        LET cert == [names |-> {d}, lifetime |-> Lifetime, left |-> left[d]] IN
        /\ todo' = [todo EXCEPT ![p] = @ \ {d}]
        /\ left' = IF CertificateDue({d}, cert) THEN [left EXCEPT ![d] = Lifetime] ELSE left
        /\ seenBy' = [seenBy EXCEPT ![d] = @ \cup {p}]
    /\ UNCHANGED <<home, setup, pc, moved, missed>>

\* What goes wrong goes wrong for at most MaxMisses periods in a row.
MayMiss(d) == seenBy[d] # {} \/ missed[d] < MaxMisses

\* Mutation of DomainFails: the first domain that fails ends the run.
FailureEndsRun(p) ==
    /\ pc[p] = "work"
    /\ \E d \in todo[p] :
        /\ MayMiss(d) \/ d \notin Listed(p)
        /\ todo' = [todo EXCEPT ![p] = @ \ {d}]
    /\ pc' = [pc EXCEPT ![p] = "done"]
    /\ UNCHANGED <<home, left, setup, seenBy, moved, missed>>

\* One domain fails; one that is not (any more) at home here may always.
DomainFails(p) ==
    /\ pc[p] = "work"
    /\ \E d \in todo[p] :
        /\ MayMiss(d) \/ d \notin Listed(p)
        /\ todo' = [todo EXCEPT ![p] = @ \ {d}]
    /\ UNCHANGED <<home, left, setup, pc, seenBy, moved, missed>>

\* The node is down, the server refuses the connection, a listing fails, or a
\* signal ends the run before its last domain.
RunFails(p) ==
    /\ pc[p] # "done"
    /\ \A d \in Domain :
        (d \in todo[p] \/ (pc[p] = "waiting" /\ Serves(setup[p], NodeOf[p], d, home[d])))
            => MayMiss(d)
    /\ pc' = [pc EXCEPT ![p] = "done"]
    /\ todo' = [todo EXCEPT ![p] = {}]
    /\ UNCHANGED <<home, left, setup, seenBy, moved, missed>>

Finish(p) ==
    /\ pc[p] = "work" /\ todo[p] = {}
    /\ pc' = [pc EXCEPT ![p] = "done"]
    /\ UNCHANGED <<home, left, setup, todo, seenBy, moved, missed>>

-------------------------------------------------------------------------------
\* A domain becomes Shared, or regular on some node; once per period.  The runs
\* of the period may all pass it by, as if it had failed.
Move ==
    \E d \in Domain \ moved, h \in Homes :
        /\ h # home[d] /\ MayMiss(d)
        /\ home' = [home EXCEPT ![d] = h]
        /\ moved' = moved \cup {d}
        /\ UNCHANGED <<left, setup, pc, todo, seenBy, missed>>

\* The timer elapses: the unit does not start while its last run is active.
NextPeriod ==
    /\ \A p \in Process : pc[p] = "done"
    /\ left' = [d \in Domain |-> left[d] - 1]
    /\ missed' = [d \in Domain |-> IF seenBy[d] # {} THEN 0 ELSE missed[d] + 1]
    /\ pc' = [p \in Process |-> "waiting"]
    /\ seenBy' = [d \in Domain |-> {}]
    /\ moved' = {}
    /\ UNCHANGED <<home, setup, todo>>

ProcessStep(p) ==
    \/ SelectShared(p) \/ SelectLocal(p) \/ SelectListed(p) \/ Subtract(p)
    \/ Inspect(p) \/ DomainFails(p) \/ RunFails(p) \/ Finish(p)

Next == (\E p \in Process : ProcessStep(p)) \/ Move \/ NextPeriod

Spec == Init /\ [][Next]_vars

-------------------------------------------------------------------------------
(* Properties *)

\* The documented roles: every process has one selector in effect, no node two
\* local ones, and the cluster one for the Shared domains (README.md 203-206).
Roles ==
    \A p, q \in Process :
        /\ OnlyLocal(Selector(p)) \/ OnlyShared(Selector(p))
        /\ (OnlyLocal(Selector(p)) /\ OnlyLocal(Selector(q)) /\ NodeOf[p] = NodeOf[q]) => p = q
        /\ (OnlyShared(Selector(p)) /\ OnlyShared(Selector(q))) => p = q

\* In the documented roles no two nodes renew the same domain in one period,
\* unless it moved in between: two runs at once on one domain draw challenge
\* files from each other's authorizations (domains.go 30-42).
OneOwner ==
    Roles => \A d \in Domain \ moved : \A p, q \in seenBy[d] : p = q

\* Whatever selectors file and flags combine, those that cancel out included, no
\* domain is passed by for longer than its failures and moves account for
\* (domains.go 27-47, main.go 197-208).
Attended == \A d \in Domain : missed[d] <= MaxMisses

\* So no certificate runs out: the window is counted from the timer's period
\* (go-cgp-acme.timer), not from the expiry (check.go 93-98, 138-144).
NeverExpires == \A d \in Domain : left[d] > 0
===============================================================================
