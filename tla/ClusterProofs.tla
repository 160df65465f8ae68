----------------------------- MODULE ClusterProofs -----------------------------
(***************************************************************************)
(* Theorems about Cluster, for any number of nodes, processes and domains, *)
(* any complete setup and any window that leaves room for the misses.      *)
(***************************************************************************)
EXTENDS Cluster, TLAPS

Threshold == RenewalThreshold(Lifetime)

\* The window leaves room for the misses, whichever of its two parts is larger.
LEMMA ThresholdBounds ==
    Threshold \in Nat /\ MaxMisses + 1 < Threshold /\ Threshold <= Lifetime
  <1>1. (FractionNum * Lifetime) \div FractionDen \in Int
    BY ClusterAssumption, DecisionAssumption
  <1>2. MaxMisses \in Nat /\ RenewBefore \in Nat /\ Lifetime \in Nat
    BY ClusterAssumption, DecisionAssumption
  <1> QED
    BY <1>1, <1>2, WindowAssumption DEF Threshold, RenewalThreshold

\* What a configuration selects is what its documentation says.
LEMMA SelectsWhatItServes ==
    ASSUME NEW p \in Process, NEW d \in Domain, NEW h
    PROVE  Serves(setup[p], NodeOf[p], d, h) <=>
               \/ OnlyShared(Selector(p)) /\ h = Shared
               \/ OnlyLocal(Selector(p)) /\ h = NodeOf[p]
               \/ /\ ~OnlyShared(Selector(p)) /\ ~OnlyLocal(Selector(p))
                  /\ h \in {NodeOf[p], Shared}
                  /\ Selector(p).include # {} => d \in Selector(p).include
  BY DEF Serves, Selector, Effective, OnlyShared, OnlyLocal

-------------------------------------------------------------------------------
(***************************************************************************)
(* The inductive invariant of attendance: a domain that may not be missed  *)
(* any more is still before a process that serves it.                      *)
(***************************************************************************)
Awaits(p, d) ==
    /\ Serves(setup[p], NodeOf[p], d, home[d])
    /\ pc[p] = "waiting" \/ d \in todo[p]
AllCovered == \A d \in Domain : MayMiss(d) \/ \E p \in Process : Awaits(p, d)
LocalSubtracts == \A p \in Process : pc[p] = "subtract" => OnlyLocal(Selector(p))

\* How long a certificate is valid at least.
InWindow ==
    \A d \in Domain :
        /\ left[d] >= Threshold - 1 - missed[d]
        /\ seenBy[d] # {} => left[d] >= Threshold

Covered == TypeOK /\ AllCovered /\ LocalSubtracts /\ Attended /\ InWindow

LEMMA TypeOKStep == TypeOK /\ [Next]_vars => TypeOK'
  <1> SUFFICES ASSUME TypeOK, [Next]_vars PROVE TypeOK'
    OBVIOUS
  <1>a. Shared \in Homes /\ \A p \in Process : NodeOf[p] \in Homes
    BY ClusterAssumption DEF Homes
  <1>b. \A p \in Process : Selector(p).include \subseteq Domain
    BY ClusterAssumption DEF TypeOK, Selector, Effective, Selectors
  <1> USE <1>a DEF TypeOK
  <1>1. CASE UNCHANGED vars
    BY <1>1 DEF vars
  <1>2. ASSUME NEW p \in Process, SelectShared(p) \/ SelectLocal(p) \/ SelectListed(p)
        PROVE  TypeOK'
    <2>1. PICK next \in {"subtract", "work"}, domains \in SUBSET Domain : Takes(p, next, domains)
      BY <1>2, <1>b DEF SelectShared, SelectLocal, SelectListed, Listed, Controlled
    <2> QED
      BY <2>1 DEF Takes
  <1>3. ASSUME NEW p \in Process, Subtract(p) PROVE TypeOK'
    BY <1>3 DEF Subtract
  <1>4. ASSUME NEW p \in Process, Inspect(p) PROVE TypeOK'
    <2>1. PICK d \in todo[p] : /\ todo' = [todo EXCEPT ![p] = @ \ {d}]
                               /\ left' = [left EXCEPT ![d] = Lifetime] \/ left' = left
                               /\ seenBy' = [seenBy EXCEPT ![d] = @ \cup {p}]
      BY <1>4 DEF Inspect
    <2>2. Lifetime \in Int
      BY ClusterAssumption
    <2> QED
      BY <1>4, <2>1, <2>2 DEF Inspect
  <1>5. ASSUME NEW p \in Process, DomainFails(p) PROVE TypeOK'
    BY <1>5 DEF DomainFails
  <1>6. ASSUME NEW p \in Process, RunFails(p) PROVE TypeOK'
    BY <1>6 DEF RunFails
  <1>7. ASSUME NEW p \in Process, Finish(p) PROVE TypeOK'
    BY <1>7 DEF Finish
  <1>8. CASE Move
    BY <1>8 DEF Move
  <1>9. CASE NextPeriod
    BY <1>9 DEF NextPeriod
  <1> QED
    BY <1>1, <1>2, <1>3, <1>4, <1>5, <1>6, <1>7, <1>8, <1>9 DEF Next, ProcessStep

\* A process drops a domain from its list only once it got through to it, the
\* domain may be missed, or another process serves it.
LEMMA AllCoveredStep == Covered /\ [Next]_vars => AllCovered' /\ LocalSubtracts'
  <1> SUFFICES ASSUME Covered, [Next]_vars PROVE AllCovered' /\ LocalSubtracts'
    OBVIOUS
  <1> USE DEF Covered
  <1>0. TypeOK /\ AllCovered /\ LocalSubtracts
    OBVIOUS
  <1>1. CASE UNCHANGED vars
    BY <1>1 DEF vars, AllCovered, LocalSubtracts, MayMiss, Awaits, Selector
  <1>2. ASSUME NEW p \in Process, NEW next \in {"subtract", "work"}, NEW domains,
               Takes(p, next, domains), next = "subtract" => OnlyLocal(Selector(p)),
               \A d \in Domain : Serves(setup[p], NodeOf[p], d, home[d]) => d \in domains
        PROVE  AllCovered' /\ LocalSubtracts'
    BY <1>0, <1>2 DEF Takes, TypeOK, AllCovered, LocalSubtracts, MayMiss, Awaits, Selector
  <1>3. ASSUME NEW p \in Process, SelectShared(p) PROVE AllCovered' /\ LocalSubtracts'
    <2>1. \A d \in Domain : Serves(setup[p], NodeOf[p], d, home[d]) => d \in Controlled
      BY <1>3, SelectsWhatItServes DEF SelectShared, Controlled, OnlyShared, OnlyLocal
    <2> QED
      BY <1>2, <1>3, <2>1 DEF SelectShared
  <1>4. ASSUME NEW p \in Process, SelectLocal(p) PROVE AllCovered' /\ LocalSubtracts'
    <2>1. \A d \in Domain : Serves(setup[p], NodeOf[p], d, home[d]) => d \in Listed(p)
      BY <1>4, SelectsWhatItServes DEF SelectLocal, Listed, OnlyShared, OnlyLocal
    <2> QED
      BY <1>2, <1>4, <2>1 DEF SelectLocal
  <1>5. ASSUME NEW p \in Process, SelectListed(p) PROVE AllCovered' /\ LocalSubtracts'
    <2>1. \A d \in Domain : Serves(setup[p], NodeOf[p], d, home[d]) =>
              d \in IF Selector(p).include # {} THEN Selector(p).include ELSE Listed(p)
      BY <1>5, SelectsWhatItServes DEF SelectListed, Listed
    <2> QED
      BY <1>2, <1>5, <2>1 DEF SelectListed
  <1>6. ASSUME NEW p \in Process, Subtract(p) PROVE AllCovered' /\ LocalSubtracts'
    <2>1. OnlyLocal(Selector(p)) /\ ~OnlyShared(Selector(p)) /\ NodeOf[p] # Shared
      BY <1>0, <1>6, ClusterAssumption DEF Subtract, LocalSubtracts, OnlyShared, OnlyLocal
    <2>2. \A d \in Domain : Serves(setup[p], NodeOf[p], d, home[d]) => d \notin Controlled
      BY <2>1, SelectsWhatItServes DEF Controlled
    <2> QED
      BY <1>0, <1>6, <2>2
         DEF Subtract, TypeOK, AllCovered, LocalSubtracts, MayMiss, Awaits, Selector
  <1>7. ASSUME NEW p \in Process, Inspect(p) PROVE AllCovered' /\ LocalSubtracts'
    <2>1. PICK d \in todo[p] : /\ todo' = [todo EXCEPT ![p] = @ \ {d}]
                               /\ seenBy' = [seenBy EXCEPT ![d] = @ \cup {p}]
      BY <1>7 DEF Inspect
    <2>2. UNCHANGED <<home, setup, pc, missed>> /\ d \in Domain
      BY <1>0, <1>7 DEF Inspect, TypeOK
    <2>3. MayMiss(d)' /\ \A e \in Domain : MayMiss(e) => MayMiss(e)'
      BY <1>0, <2>1, <2>2 DEF MayMiss, TypeOK
    <2>4. \A e \in Domain \ {d}, q \in Process : Awaits(q, e) => Awaits(q, e)'
      BY <1>0, <2>1, <2>2 DEF Awaits, TypeOK
    <2> QED
      BY <1>0, <2>2, <2>3, <2>4 DEF AllCovered, LocalSubtracts, Selector
  <1>8. ASSUME NEW p \in Process, DomainFails(p) PROVE AllCovered' /\ LocalSubtracts'
    <2>1. PICK d \in todo[p] : /\ MayMiss(d) \/ d \notin Listed(p)
                               /\ todo' = [todo EXCEPT ![p] = @ \ {d}]
      BY <1>8 DEF DomainFails
    <2>2. d \in Domain
      BY <1>0 DEF TypeOK
    <2>3. MayMiss(d) \/ ~Awaits(p, d)
      BY <2>1, <2>2, SelectsWhatItServes DEF Listed, Awaits
    <2> QED
      BY <1>0, <1>8, <2>1, <2>3
         DEF DomainFails, TypeOK, AllCovered, LocalSubtracts, MayMiss, Awaits, Selector
  <1>9. ASSUME NEW p \in Process, RunFails(p) PROVE AllCovered' /\ LocalSubtracts'
    BY <1>0, <1>9 DEF RunFails, TypeOK, AllCovered, LocalSubtracts, MayMiss, Awaits, Selector
  <1>10. ASSUME NEW p \in Process, Finish(p) PROVE AllCovered' /\ LocalSubtracts'
    BY <1>0, <1>10 DEF Finish, TypeOK, AllCovered, LocalSubtracts, MayMiss, Awaits, Selector
  <1>11. CASE Move
    BY <1>0, <1>11 DEF Move, TypeOK, AllCovered, LocalSubtracts, MayMiss, Awaits, Selector
  <1>12. CASE NextPeriod
    <2>1. \A d \in Domain : \E p \in Process : Serves(setup[p], NodeOf[p], d, home[d])
      BY <1>0, ClusterAssumption DEF TypeOK, Complete
    <2> QED
      BY <1>0, <1>12, <2>1
         DEF NextPeriod, TypeOK, AllCovered, LocalSubtracts, Awaits, Selector
  <1> QED
    BY <1>1, <1>3, <1>4, <1>5, <1>6, <1>7, <1>8, <1>9, <1>10, <1>11, <1>12
       DEF Next, ProcessStep

\* At the end of a period all lists are empty, so what was not seen may be missed.
LEMMA AttendedStep == Covered /\ [Next]_vars => Attended' /\ InWindow'
  <1> SUFFICES ASSUME Covered, [Next]_vars PROVE Attended' /\ InWindow'
    OBVIOUS
  <1>0. TypeOK /\ AllCovered /\ Attended /\ InWindow /\ TypeOK'
    BY TypeOKStep DEF Covered
  <1>1. CASE UNCHANGED <<left, seenBy, missed>>
    BY <1>0, <1>1 DEF Attended, InWindow
  <1>2. ASSUME NEW p \in Process, Inspect(p) PROVE Attended' /\ InWindow'
    <2>1. PICK d \in todo[p] :
              /\ left' = IF CertificateDue({d}, [names |-> {d}, lifetime |-> Lifetime, left |-> left[d]])
                         THEN [left EXCEPT ![d] = Lifetime] ELSE left
              /\ seenBy' = [seenBy EXCEPT ![d] = @ \cup {p}]
      BY <1>2 DEF Inspect
    <2>2. d \in Domain /\ missed' = missed
      BY <1>0, <1>2 DEF Inspect, TypeOK
    <2>3. left'[d] >= Threshold
      BY <1>0, <2>1, <2>2, ThresholdBounds, ClusterAssumption DEF CertificateDue, Threshold, TypeOK
    <2>4. \A e \in Domain \ {d} : left'[e] = left[e] /\ seenBy'[e] = seenBy[e]
      BY <1>0, <2>1, <2>2 DEF TypeOK
    <2>5. left'[d] \in Int /\ missed[d] \in Nat
      BY <1>0, <2>2 DEF TypeOK
    <2>6. left'[d] >= Threshold - 1 - missed'[d]
      BY <2>2, <2>3, <2>5, ThresholdBounds
    <2> QED
      BY <1>0, <2>2, <2>3, <2>4, <2>6 DEF Attended, InWindow
  <1>3. CASE NextPeriod
    <2>1. \A d \in Domain : seenBy[d] # {} \/ missed[d] < MaxMisses
      BY <1>0, <1>3 DEF NextPeriod, AllCovered, Awaits, MayMiss, TypeOK
    <2>2. Attended'
      BY <1>0, <1>3, <2>1, ClusterAssumption DEF NextPeriod, Attended, TypeOK
    <2>3. ASSUME NEW d \in Domain
          PROVE  left'[d] >= Threshold - 1 - missed'[d] /\ seenBy'[d] = {}
      <3>1. left[d] \in Int /\ missed[d] \in Nat /\ left'[d] = left[d] - 1 /\ seenBy'[d] = {}
        BY <1>0, <1>3 DEF NextPeriod, TypeOK
      <3>2. CASE seenBy[d] # {}
        <4>1. missed'[d] = 0 /\ left[d] >= Threshold
          BY <1>0, <1>3, <3>2 DEF NextPeriod, InWindow
        <4> QED
          BY <3>1, <4>1, ThresholdBounds
      <3>3. CASE seenBy[d] = {}
        <4>1. missed'[d] = missed[d] + 1 /\ left[d] >= Threshold - 1 - missed[d]
          BY <1>0, <1>3, <3>3 DEF NextPeriod, InWindow
        <4> QED
          BY <3>1, <4>1, ThresholdBounds
      <3> QED
        BY <3>2, <3>3
    <2> QED
      BY <2>2, <2>3 DEF InWindow
  <1> QED
    BY <1>1, <1>2, <1>3 DEF Next, ProcessStep, SelectShared, SelectLocal, SelectListed, Takes,
                            Subtract, DomainFails, RunFails, Finish, Move, vars

LEMMA InitCovered == Init => Covered
  <1> SUFFICES ASSUME Init PROVE Covered
    OBVIOUS
  <1>1. TypeOK
    BY ClusterAssumption DEF Init, TypeOK
  <1>2. AllCovered /\ LocalSubtracts
    BY <1>1, ClusterAssumption DEF Init, AllCovered, LocalSubtracts, Awaits, Complete, TypeOK
  <1>3. Attended /\ InWindow
    BY ThresholdBounds, ClusterAssumption DEF Init, Attended, InWindow
  <1> QED
    BY <1>1, <1>2, <1>3 DEF Covered

LEMMA AlwaysCovered == Spec => []Covered
  <1>1. Covered /\ [Next]_vars => Covered'
    BY TypeOKStep, AllCoveredStep, AttendedStep DEF Covered
  <1> QED
    BY <1>1, InitCovered, PTL DEF Spec

-------------------------------------------------------------------------------
(***************************************************************************)
(* Who renews what, as long as it does not move: only those that serve it. *)
(***************************************************************************)
Owned ==
    Roles => \A p \in Process, d \in Domain \ moved :
        /\ p \in seenBy[d] => Serves(setup[p], NodeOf[p], d, home[d])
        /\ d \in todo[p] =>
            \/ pc[p] = "subtract" /\ OnlyLocal(Selector(p)) /\ d \in Listed(p)
            \/ pc[p] = "work" /\ Serves(setup[p], NodeOf[p], d, home[d])

LEMMA OwnedStep == TypeOK /\ Owned /\ [Next]_vars => Owned'
  <1> SUFFICES ASSUME TypeOK, Owned, [Next]_vars, Roles' PROVE Owned'
    BY DEF Owned
  <1>r. setup' = setup /\ Roles
    BY DEF Next, ProcessStep, SelectShared, SelectLocal, SelectListed, Takes, Subtract, Inspect,
           DomainFails, RunFails, Finish, Move, NextPeriod, vars, Roles, Selector
  <1>1. CASE UNCHANGED vars
    BY <1>1 DEF vars, Owned, Selector, Listed, Roles
  <1> USE <1>r DEF TypeOK
  <1>2. ASSUME NEW p \in Process, SelectShared(p) PROVE Owned'
    <2>1. \A d \in Controlled : Serves(setup[p], NodeOf[p], d, home[d])
      BY <1>2, SelectsWhatItServes DEF SelectShared, Controlled
    <2> QED
      BY <1>2, <2>1 DEF SelectShared, Takes, Owned, Selector, Listed, Roles
  <1>3. ASSUME NEW p \in Process, SelectLocal(p) PROVE Owned'
    BY <1>3 DEF SelectLocal, Takes, Owned, Selector, Listed, Roles
  <1>4. ASSUME NEW p \in Process, SelectListed(p) PROVE Owned'
    BY <1>4 DEF SelectListed, Roles
  <1>5. ASSUME NEW p \in Process, Subtract(p) PROVE Owned'
    <2>1. \A d \in todo[p] \ (Controlled \cup moved) : Serves(setup[p], NodeOf[p], d, home[d])
      BY <1>5, SelectsWhatItServes DEF Subtract, Owned, Listed, Controlled
    <2> QED
      BY <1>5, <2>1 DEF Subtract, Owned, Selector, Listed, Roles
  <1>6. ASSUME NEW p \in Process, Inspect(p) PROVE Owned'
    <2>1. PICK d \in todo[p] : /\ todo' = [todo EXCEPT ![p] = @ \ {d}]
                               /\ seenBy' = [seenBy EXCEPT ![d] = @ \cup {p}]
      BY <1>6 DEF Inspect
    <2>2. UNCHANGED <<home, pc, moved>> /\ pc[p] = "work"
      BY <1>6 DEF Inspect
    <2>3. d \notin moved => Serves(setup[p], NodeOf[p], d, home[d])
      BY <2>1, <2>2 DEF Owned
    <2> QED
      BY <2>1, <2>2, <2>3 DEF Owned, Selector, Listed
  <1>7. ASSUME NEW p \in Process, DomainFails(p) \/ RunFails(p) \/ Finish(p) PROVE Owned'
    BY <1>7 DEF DomainFails, RunFails, Finish, Owned, Selector, Listed, Roles
  <1>8. CASE Move
    BY <1>8 DEF Move, Owned, Selector, Listed, Roles
  <1>9. CASE NextPeriod
    BY <1>9 DEF NextPeriod, Owned
  <1> QED
    BY <1>1, <1>2, <1>3, <1>4, <1>5, <1>6, <1>7, <1>8, <1>9 DEF Next, ProcessStep

LEMMA OwnedIsOneOwner == TypeOK /\ Owned => OneOwner
  <1> SUFFICES ASSUME TypeOK, Owned, Roles, NEW d \in Domain \ moved,
                      NEW p \in seenBy[d], NEW q \in seenBy[d]
               PROVE  p = q
    BY DEF OneOwner
  <1>1. p \in Process /\ q \in Process /\ NodeOf[p] # Shared /\ NodeOf[q] # Shared
    BY ClusterAssumption DEF TypeOK
  <1>2. Serves(setup[p], NodeOf[p], d, home[d]) /\ Serves(setup[q], NodeOf[q], d, home[d])
    BY <1>1 DEF Owned
  <1>3. /\ OnlyLocal(Selector(p)) \/ OnlyShared(Selector(p))
        /\ OnlyLocal(Selector(q)) \/ OnlyShared(Selector(q))
    BY <1>1 DEF Roles
  <1> QED
    BY <1>1, <1>2, <1>3, SelectsWhatItServes DEF Roles

-------------------------------------------------------------------------------
(* Theorems *)

\* The state of the cluster keeps its type, whoever fails and whatever moves.
THEOREM ClusterTyped == Spec => []TypeOK
  BY AlwaysCovered, PTL DEF Covered

\* In any complete setup no domain is passed by for longer than the misses allow.
THEOREM ClusterAttends == Spec => []Attended
  BY AlwaysCovered, PTL DEF Covered

\* So no certificate expires, however many nodes, processes and domains there are.
THEOREM CertificatesLast == Spec => []NeverExpires
  <1>1. Covered => NeverExpires
    <2> SUFFICES ASSUME Covered, NEW d \in Domain PROVE left[d] > 0
      BY DEF NeverExpires
    <2>1. left[d] \in Int /\ missed[d] \in Nat /\ missed[d] <= MaxMisses
          /\ left[d] >= Threshold - 1 - missed[d]
      BY DEF Covered, TypeOK, Attended, InWindow
    <2> QED
      BY <2>1, ThresholdBounds, ClusterAssumption
  <1> QED
    BY <1>1, AlwaysCovered, PTL

\* With the documented roles a domain that does not move has one process at most.
THEOREM RolesDoNotOverlap == Spec => []OneOwner
  <1>1. Init => Owned
    BY DEF Init, Owned
  <1>2. TypeOK /\ Owned => OneOwner
    BY OwnedIsOneOwner
  <1> QED
    BY <1>1, <1>2, OwnedStep, ClusterTyped, PTL DEF Spec
===============================================================================
