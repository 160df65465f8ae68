------------------------------ MODULE RunProofs -------------------------------
(***************************************************************************)
(* Theorems about Run, for every server, list, configuration and schedule. *)
(***************************************************************************)
EXTENDS Run, DecisionProofs, SequenceTheorems, FiniteSetTheorems,
        NaturalsInduction, WellFoundedInduction, TLAPS

-------------------------------------------------------------------------------
(***************************************************************************)
(* The inductive invariant of the tally: where every domain is, and which  *)
(* steps of the run follow each other.                                     *)
(***************************************************************************)
Tallied == TypeOK /\ StepsInPhase /\ TallyConserved /\ ZeroMeansAllSettled

\* One domain more is counted, in one of the counters.
CountsOne ==
    \/ settled' = settled + 1 /\ UNCHANGED <<unchecked, blocked, failed>>
    \/ unchecked' = unchecked + 1 /\ UNCHANGED <<settled, blocked, failed>>
    \/ blocked' = blocked + 1 /\ UNCHANGED <<settled, unchecked, failed>>
    \/ failed' = failed + 1 /\ UNCHANGED <<settled, unchecked, blocked>>
CountersTyped == settled \in Nat /\ unchecked \in Nat /\ blocked \in Nat /\ failed \in Nat

\* The decision at hand is one.
LEMMA CurrentTyped ==
    ASSUME TypeOK, todo # <<>>
    PROVE  Head(todo) \in Decisions /\ Current \in Domain /\ Head(todo).sans \in SUBSET Name
  <1>1. Head(todo) \in Decisions
    BY HeadTailProperties DEF TypeOK
  <1>2. QED
    BY <1>1 DEF Decisions, Current

\* The lengths the tally is made of.
LEMMA LengthsTyped ==
    ASSUME TypeOK
    PROVE  Len(list) \in Nat /\ Len(todo) \in Nat /\ Len(kept) \in Nat
  BY LenProperties DEF TypeOK

\* Concluding a domain takes one decision off the list.
LEMMA ConcludeTakesOne ==
    ASSUME TypeOK, todo # <<>>, Conclude
    PROVE  todo' \in Seq(Decisions) /\ Len(todo') = Len(todo) - 1 /\ step' = "next"
  <1>1. Tail(todo) \in Seq(Decisions) /\ Len(Tail(todo)) = Len(todo) - 1
    BY HeadTailProperties DEF TypeOK
  <1>2. QED
    BY <1>1 DEF Conclude

\* A decision handed on is one more.
LEMMA HandedOn ==
    ASSUME TypeOK, NEW d \in Decisions
    PROVE  Append(kept, d) \in Seq(Decisions) /\ Len(Append(kept, d)) = Len(kept) + 1
  BY AppendProperties DEF TypeOK

\* A domain concluded and counted once leaves the tally as it was.
LEMMA CountedOnce ==
    ASSUME Tallied, todo # <<>>, Conclude, list' = list, kept' = kept, CountsOne
    PROVE  TallyConserved'
  <1>1. CountersTyped /\ TallyConserved /\ TypeOK
    BY DEF Tallied, TypeOK, CountersTyped
  <1>2. Len(todo') = Len(todo) - 1
    BY <1>1, ConcludeTakesOne
  <1>3. Len(list) \in Nat /\ Len(todo) \in Nat /\ Len(kept) \in Nat
    BY <1>1, LengthsTyped
  <1>4. CASE settled' = settled + 1 /\ UNCHANGED <<unchecked, blocked, failed>>
    BY <1>1, <1>2, <1>3, <1>4 DEF CountersTyped, TallyConserved
  <1>5. CASE unchecked' = unchecked + 1 /\ UNCHANGED <<settled, blocked, failed>>
    BY <1>1, <1>2, <1>3, <1>5 DEF CountersTyped, TallyConserved
  <1>6. CASE blocked' = blocked + 1 /\ UNCHANGED <<settled, unchecked, failed>>
    BY <1>1, <1>2, <1>3, <1>6 DEF CountersTyped, TallyConserved
  <1>7. CASE failed' = failed + 1 /\ UNCHANGED <<settled, unchecked, blocked>>
    BY <1>1, <1>2, <1>3, <1>7 DEF CountersTyped, TallyConserved
  <1>8. QED
    BY <1>4, <1>5, <1>6, <1>7 DEF CountsOne

\* So does one concluded and handed on.
LEMMA KeptOnce ==
    ASSUME Tallied, todo # <<>>, Conclude, list' = list,
           NEW d \in Decisions, kept' = Append(kept, d), UNCHANGED <<tally, settled>>
    PROVE  TallyConserved'
  <1>1. CountersTyped /\ TallyConserved /\ TypeOK
    BY DEF Tallied, TypeOK, CountersTyped
  <1>2. Len(todo') = Len(todo) - 1 /\ Len(kept') = Len(kept) + 1
    BY <1>1, ConcludeTakesOne, HandedOn
  <1>3. settled' = settled /\ unchecked' = unchecked /\ blocked' = blocked /\ failed' = failed
    BY DEF tally
  <1>4. Len(list) \in Nat /\ Len(todo) \in Nat /\ Len(kept) \in Nat
    BY <1>1, LengthsTyped
  <1>5. Len(todo') + Len(kept') = Len(todo) + Len(kept)
    BY <1>2, <1>4
  <1>6. QED
    BY <1>1, <1>3, <1>4, <1>5 DEF CountersTyped, TallyConserved

LEMMA InitTallied == Init => Tallied
  <1> SUFFICES ASSUME Init PROVE Tallied
    OBVIOUS
  <1>1. list \in Seq(Domain) /\ aliases \in [Domain -> SUBSET Name]
        /\ conf.exclude \in SUBSET Name /\ conf \in Configs
        /\ settings \in [Domain -> Settings] /\ answers \in SUBSET Name
    BY RunAssumption DEF Init, Configs
  <1>2. Len(list) \in Nat /\ \A i \in 1..Len(list) : list[i] \in Domain
    BY <1>1, LenProperties, ElementOfSeq
  <1>3. todo \in [1..Len(list) -> Decisions]
    BY <1>2 DEF Init, Decisions
  <1>4. todo \in Seq(Decisions) /\ Len(todo) = Len(list)
    BY <1>2, <1>3, SeqDef, LenProperties
  <1>5. kept \in Seq(Decisions) /\ Len(kept) = 0
    BY EmptySeq DEF Init
  <1>6. TypeOK
    BY <1>1, <1>4, <1>5 DEF Init, TypeOK
  <1>7. StepsInPhase /\ ZeroMeansAllSettled
    BY DEF Init, StepsInPhase, ZeroMeansAllSettled
  <1>8. TallyConserved
    BY <1>2, <1>4, <1>5 DEF Init, TallyConserved
  <1>9. QED
    BY <1>6, <1>7, <1>8 DEF Tallied

-------------------------------------------------------------------------------
(* One lemma per loop of the run. *)

\* The check loop, and checkDomain wherever it is called.
LEMMA CheckTallied ==
    ASSUME Tallied, SkipExcluded \/ ReadAliases \/ ReadSettings \/ DomainFails
    PROVE  Tallied'
  <1>. TypeOK /\ StepsInPhase /\ TallyConserved /\ ZeroMeansAllSettled
    BY DEF Tallied
  <1>1. CASE SkipExcluded
    <2>1. todo # <<>> /\ Conclude /\ phase = "check"
      BY <1>1 DEF SkipExcluded, At, StepsInPhase
    <2>2. todo' \in Seq(Decisions) /\ step' = "next"
      BY <2>1, ConcludeTakesOne
    <2>3. CountersTyped' /\ CountsOne /\ list' = list /\ kept' = kept
      BY <1>1 DEF SkipExcluded, TypeOK, CountersTyped, CountsOne, fixed, tally
    <2>4. TypeOK'
      BY <1>1, <2>2, <2>3 DEF TypeOK, CountersTyped, SkipExcluded, server, fixed, tally, edits
    <2>5. StepsInPhase'
      BY <1>1, <2>1, <2>2 DEF StepsInPhase, SkipExcluded
    <2>6. TallyConserved'
      BY <2>1, <2>3, CountedOnce
    <2>7. ZeroMeansAllSettled'
      BY <1>1, <2>1 DEF StepsInPhase, ZeroMeansAllSettled, SkipExcluded
    <2>8. QED
      BY <2>4, <2>5, <2>6, <2>7 DEF Tallied
  <1>2. CASE ReadAliases
    <2>1. todo # <<>> /\ phase \in {"check", "rehearse"}
      BY <1>2 DEF ReadAliases, CheckBegins, At, StepsInPhase
    <2>2. Current \in Domain
      BY <2>1, CurrentTyped
    <2>3. aliases[Current] \in SUBSET Name /\ excluded \in SUBSET Name
      BY <2>2 DEF TypeOK
    <2>4. sans' \in SUBSET Name
      BY <1>2, <2>2, <2>3, NamesTyped, RunAssumption DEF ReadAliases
    <2>5. TypeOK'
      BY <1>2, <2>4 DEF TypeOK, ReadAliases, server, fixed, tally, edits
    <2>6. StepsInPhase'
      BY <1>2, <2>1 DEF StepsInPhase, ReadAliases
    <2>7. TallyConserved' /\ ZeroMeansAllSettled'
      BY <1>2 DEF TallyConserved, ZeroMeansAllSettled, ReadAliases, fixed, tally
    <2>8. QED
      BY <2>5, <2>6, <2>7 DEF Tallied
  <1>3. CASE ReadSettings
    <2>1. todo # <<>> /\ Conclude /\ phase \in {"check", "rehearse"}
      BY <1>3 DEF ReadSettings, StepsInPhase
    <2>2. todo' \in Seq(Decisions) /\ step' = "next"
      BY <2>1, ConcludeTakesOne
    <2>3. list' = list /\ UNCHANGED tally
      BY <1>3 DEF ReadSettings, fixed
    <2>4. ASSUME NEW d, d = [domain |-> Current, sans |-> sans],
                 kept' = Append(kept, d), settled' = settled
          PROVE  kept' \in Seq(Decisions) /\ settled' \in Nat /\ TallyConserved'
      <3>1. d \in Decisions
        BY <2>1, <2>4, CurrentTyped DEF TypeOK, Decisions
      <3>2. QED
        BY <2>1, <2>3, <2>4, <3>1, HandedOn, KeptOnce DEF TypeOK
    <2>5. ASSUME settled' = settled + 1, kept' = kept
          PROVE  kept' \in Seq(Decisions) /\ settled' \in Nat /\ TallyConserved'
      <3>1. CountersTyped' /\ CountsOne
        BY <2>3, <2>5 DEF TypeOK, CountersTyped, CountsOne, tally
      <3>2. QED
        BY <2>1, <2>3, <2>5, <3>1, CountedOnce DEF TypeOK, CountersTyped
    <2>6. kept' \in Seq(Decisions) /\ settled' \in Nat /\ TallyConserved'
      BY <1>3, <2>4, <2>5 DEF ReadSettings
    <2>7. TypeOK'
      BY <1>3, <2>2, <2>6 DEF TypeOK, ReadSettings, server, fixed, tally, edits
    <2>8. StepsInPhase'
      BY <1>3, <2>1, <2>2 DEF StepsInPhase, ReadSettings
    <2>9. ZeroMeansAllSettled'
      BY <1>3, <2>1 DEF StepsInPhase, ZeroMeansAllSettled, ReadSettings
    <2>10. QED
      BY <2>6, <2>7, <2>8, <2>9 DEF Tallied
  <1>4. CASE DomainFails
    <2>1. todo # <<>> /\ Conclude /\ phase \in {"check", "rehearse"}
      BY <1>4 DEF DomainFails, CheckBegins, At, StepsInPhase
    <2>2. todo' \in Seq(Decisions) /\ step' = "next"
      BY <2>1, ConcludeTakesOne
    <2>3. CountersTyped' /\ CountsOne /\ list' = list /\ kept' = kept
      BY <1>4 DEF DomainFails, TypeOK, CountersTyped, CountsOne, fixed, tally
    <2>4. TypeOK'
      BY <1>4, <2>2, <2>3 DEF TypeOK, CountersTyped, DomainFails, server, fixed, edits
    <2>5. StepsInPhase'
      BY <1>4, <2>1, <2>2 DEF StepsInPhase, DomainFails
    <2>6. TallyConserved'
      BY <2>1, <2>3, CountedOnce
    <2>7. ZeroMeansAllSettled'
      BY <1>4, <2>1 DEF StepsInPhase, ZeroMeansAllSettled, DomainFails
    <2>8. QED
      BY <2>4, <2>5, <2>6, <2>7 DEF Tallied
  <1>5. QED
    BY <1>1, <1>2, <1>3, <1>4

\* The rehearsal.
LEMMA RehearsalTallied ==
    ASSUME Tallied, \/ StartRehearsal \/ ProbeName \/ ProbeInterrupted
                    \/ RehearsalBlocks \/ RehearsalPasses \/ Reconsider
    PROVE  Tallied'
  <1>. TypeOK /\ StepsInPhase /\ TallyConserved /\ ZeroMeansAllSettled
    BY DEF Tallied
  <1>1. CASE StartRehearsal
    <2>1. toProbe' \in SUBSET Name
      BY <1>1, CurrentTyped DEF StartRehearsal, At
    <2>5. TypeOK'
      BY <1>1, <2>1 DEF TypeOK, StartRehearsal, server, fixed, tally, edits
    <2>6. StepsInPhase'
      BY <1>1 DEF StepsInPhase, StartRehearsal, At
    <2>7. TallyConserved' /\ ZeroMeansAllSettled'
      BY <1>1 DEF TallyConserved, ZeroMeansAllSettled, StartRehearsal, fixed, tally
    <2>8. QED
      BY <2>5, <2>6, <2>7 DEF Tallied
  <1>2. CASE ProbeName
    <2>5. TypeOK'
      BY <1>2 DEF TypeOK, ProbeName, server, fixed, tally, edits
    <2>6. StepsInPhase'
      BY <1>2 DEF StepsInPhase, ProbeName, At
    <2>7. TallyConserved' /\ ZeroMeansAllSettled'
      BY <1>2 DEF TallyConserved, ZeroMeansAllSettled, ProbeName, fixed, tally
    <2>8. QED
      BY <2>5, <2>6, <2>7 DEF Tallied
  <1>3. CASE ProbeInterrupted
    <2>5. TypeOK'
      BY <1>3 DEF TypeOK, ProbeInterrupted, server, fixed, tally, edits
    <2>6. StepsInPhase'
      BY <1>3 DEF StepsInPhase, ProbeInterrupted, At
    <2>7. TallyConserved' /\ ZeroMeansAllSettled'
      BY <1>3 DEF TallyConserved, ZeroMeansAllSettled, ProbeInterrupted, fixed, tally
    <2>8. QED
      BY <2>5, <2>6, <2>7 DEF Tallied
  <1>4. CASE RehearsalBlocks
    <2>1. todo # <<>> /\ Conclude /\ phase = "rehearse"
      BY <1>4 DEF RehearsalBlocks, At, StepsInPhase
    <2>2. todo' \in Seq(Decisions) /\ step' = "next"
      BY <2>1, ConcludeTakesOne
    <2>3. CountersTyped' /\ CountsOne /\ list' = list /\ kept' = kept
      BY <1>4 DEF RehearsalBlocks, TypeOK, CountersTyped, CountsOne, fixed, tally
    <2>4. TypeOK'
      BY <1>4, <2>2, <2>3 DEF TypeOK, CountersTyped, RehearsalBlocks, server, fixed, edits
    <2>5. StepsInPhase'
      BY <1>4, <2>1, <2>2 DEF StepsInPhase, RehearsalBlocks
    <2>6. TallyConserved'
      BY <2>1, <2>3, CountedOnce
    <2>7. ZeroMeansAllSettled'
      BY <1>4, <2>1 DEF StepsInPhase, ZeroMeansAllSettled, RehearsalBlocks
    <2>8. QED
      BY <2>4, <2>5, <2>6, <2>7 DEF Tallied
  <1>5. CASE RehearsalPasses
    <2>1. todo # <<>> /\ Conclude /\ phase = "rehearse"
      BY <1>5 DEF RehearsalPasses, At, StepsInPhase
    <2>2. todo' \in Seq(Decisions) /\ step' = "next"
      BY <2>1, ConcludeTakesOne
    <2>3. kept' \in Seq(Decisions) /\ TallyConserved'
      BY <1>5, <2>1, CurrentTyped, HandedOn, KeptOnce DEF RehearsalPasses, fixed
    <2>4. TypeOK'
      BY <1>5, <2>2, <2>3 DEF TypeOK, RehearsalPasses, server, fixed, tally, edits
    <2>5. StepsInPhase'
      BY <1>5, <2>1, <2>2 DEF StepsInPhase, RehearsalPasses
    <2>6. ZeroMeansAllSettled'
      BY <1>5, <2>1 DEF StepsInPhase, ZeroMeansAllSettled, RehearsalPasses
    <2>7. QED
      BY <2>3, <2>4, <2>5, <2>6 DEF Tallied
  <1>6. CASE Reconsider
    <2>5. TypeOK'
      BY <1>6 DEF TypeOK, Reconsider, BadAliases, server, fixed, tally, edits
    <2>6. StepsInPhase'
      BY <1>6 DEF StepsInPhase, Reconsider, At
    <2>7. TallyConserved' /\ ZeroMeansAllSettled'
      BY <1>6 DEF TallyConserved, ZeroMeansAllSettled, Reconsider, fixed, tally
    <2>8. QED
      BY <2>5, <2>6, <2>7 DEF Tallied
  <1>7. QED
    BY <1>1, <1>2, <1>3, <1>4, <1>5, <1>6

\* The renewals.
LEMMA RenewalTallied ==
    ASSUME Tallied, PlaceOrder \/ Issued \/ Install \/ RenewFails
    PROVE  Tallied'
  <1>. TypeOK /\ StepsInPhase /\ TallyConserved /\ ZeroMeansAllSettled
    BY DEF Tallied
  <1>1. CASE PlaceOrder
    <2>1. Head(todo) \in Decisions
      BY <1>1, CurrentTyped DEF PlaceOrder, At
    <2>5. TypeOK'
      BY <1>1, <2>1 DEF TypeOK, PlaceOrder, server, fixed, tally, edits
    <2>6. StepsInPhase'
      BY <1>1 DEF StepsInPhase, PlaceOrder, At
    <2>7. TallyConserved' /\ ZeroMeansAllSettled'
      BY <1>1 DEF TallyConserved, ZeroMeansAllSettled, PlaceOrder, fixed, tally
    <2>8. QED
      BY <2>5, <2>6, <2>7 DEF Tallied
  <1>2. CASE Issued /\ conf.staging
    <2>1. todo # <<>> /\ Conclude /\ phase = "renew"
      BY <1>2 DEF Issued, At, StepsInPhase
    <2>2. todo' \in Seq(Decisions) /\ step' = "next"
      BY <2>1, ConcludeTakesOne
    <2>3. CountersTyped' /\ CountsOne /\ list' = list /\ kept' = kept
      BY <1>2 DEF Issued, TypeOK, CountersTyped, CountsOne, fixed, tally
    <2>4. TypeOK'
      BY <1>2, <2>2, <2>3 DEF TypeOK, CountersTyped, Issued, server, fixed, tally, edits
    <2>5. StepsInPhase'
      BY <1>2, <2>1, <2>2 DEF StepsInPhase, Issued
    <2>6. TallyConserved'
      BY <2>1, <2>3, CountedOnce
    <2>7. ZeroMeansAllSettled'
      BY <1>2, <2>1 DEF StepsInPhase, ZeroMeansAllSettled, Issued
    <2>8. QED
      BY <2>4, <2>5, <2>6, <2>7 DEF Tallied
  <1>3. CASE Issued /\ ~conf.staging
    <2>1. TypeOK'
      BY <1>3 DEF TypeOK, Issued, server, fixed, tally, edits
    <2>2. StepsInPhase'
      BY <1>3 DEF StepsInPhase, Issued, At
    <2>3. TallyConserved' /\ ZeroMeansAllSettled'
      BY <1>3 DEF TallyConserved, ZeroMeansAllSettled, Issued, fixed, tally
    <2>4. QED
      BY <2>1, <2>2, <2>3 DEF Tallied
  <1>4. CASE Install
    <2>1. todo # <<>> /\ Conclude /\ phase = "renew"
      BY <1>4 DEF Install, At, StepsInPhase
    <2>2. todo' \in Seq(Decisions) /\ step' = "next"
      BY <2>1, ConcludeTakesOne
    <2>3. CountersTyped' /\ CountsOne /\ list' = list /\ kept' = kept
      <3>1. /\ unchecked' = unchecked /\ blocked' = blocked /\ list' = list /\ kept' = kept
            /\ \/ settled' = settled + 1 /\ failed' = failed
               \/ failed' = failed + 1 /\ settled' = settled
        BY <1>4 DEF Install, fixed
      <3>2. settled \in Nat /\ unchecked \in Nat /\ blocked \in Nat /\ failed \in Nat
        BY DEF TypeOK
      <3>3. QED
        BY <3>1, <3>2 DEF CountersTyped, CountsOne
    <2>4. Installed(Current, Head(todo).sans) \in Settings
      BY <2>1, CurrentTyped, RunAssumption, DecisionAssumption
         DEF Installed, Settings, Certificate
    <2>5. settings' \in [Domain -> Settings]
      BY <1>4, <2>4 DEF Install, TypeOK
    <2>6. TypeOK'
      BY <1>4, <2>2, <2>3, <2>5 DEF TypeOK, CountersTyped, Install, fixed, edits
    <2>7. StepsInPhase'
      BY <1>4, <2>1, <2>2 DEF StepsInPhase, Install
    <2>8. TallyConserved'
      BY <2>1, <2>3, CountedOnce
    <2>9. ZeroMeansAllSettled'
      BY <1>4, <2>1 DEF StepsInPhase, ZeroMeansAllSettled, Install
    <2>10. QED
      BY <2>6, <2>7, <2>8, <2>9 DEF Tallied
  <1>5. CASE RenewFails
    <2>1. todo # <<>> /\ Conclude /\ phase = "renew"
      BY <1>5 DEF RenewFails, At, StepsInPhase
    <2>2. todo' \in Seq(Decisions) /\ step' = "next"
      BY <2>1, ConcludeTakesOne
    <2>3. CountersTyped' /\ CountsOne /\ list' = list /\ kept' = kept
      BY <1>5 DEF RenewFails, TypeOK, CountersTyped, CountsOne, fixed, tally
    <2>4. TypeOK'
      BY <1>5, <2>2, <2>3 DEF TypeOK, CountersTyped, RenewFails, server, fixed, edits
    <2>5. StepsInPhase'
      BY <1>5, <2>1, <2>2 DEF StepsInPhase, RenewFails
    <2>6. TallyConserved'
      BY <2>1, <2>3, CountedOnce
    <2>7. ZeroMeansAllSettled'
      BY <1>5, <2>1 DEF StepsInPhase, ZeroMeansAllSettled, RenewFails
    <2>8. QED
      BY <2>4, <2>5, <2>6, <2>7 DEF Tallied
  <1>6. QED
    BY <1>1, <1>2, <1>3, <1>4, <1>5

\* With no decision left, a run that reports success has settled its list.
LEMMA SuccessMeansSettled ==
    ASSUME Tallied, todo = <<>>, kept = <<>>, ExitStatus = "ok"
    PROVE  settled = Len(list)
  <1>1. CountersTyped /\ TallyConserved /\ TypeOK
    BY DEF Tallied, TypeOK, CountersTyped
  <1>2. unchecked = 0 /\ blocked = 0 /\ failed = 0
    BY <1>1 DEF CountersTyped, ExitStatus
  <1>3. Len(todo) = 0 /\ Len(kept) = 0 /\ Len(list) \in Nat
    BY <1>1, EmptySeq, LengthsTyped
  <1>4. QED
    BY <1>1, <1>2, <1>3 DEF CountersTyped, TallyConserved

\* The ends of the loops, and the ACME account in between.
LEMMA PhasesTallied ==
    ASSUME Tallied, FinishPass \/ NewACMEClient \/ FinishRun
    PROVE  Tallied'
  <1>. TypeOK /\ StepsInPhase /\ TallyConserved /\ ZeroMeansAllSettled
    BY DEF Tallied
  <1>1. CASE FinishPass
    <2>1. todo = <<>> /\ todo' = kept /\ kept' = <<>> /\ step' = "next"
      BY <1>1 DEF FinishPass
    <2>2. TypeOK'
      BY <1>1, <2>1, EmptySeq DEF TypeOK, FinishPass, ExitStatus, server, fixed, tally, edits
    <2>3. StepsInPhase'
      BY <1>1, <2>1 DEF StepsInPhase, FinishPass, ExitStatus
    <2>4. TallyConserved'
      <3>1. Len(todo) = 0 /\ Len(kept') = 0 /\ Len(kept) \in Nat /\ Len(todo') = Len(kept)
        BY <2>1, EmptySeq, LengthsTyped
      <3>2. UNCHANGED <<list, settled, unchecked, blocked, failed>>
        BY <1>1 DEF FinishPass, fixed, tally
      <3>3. Len(todo') + Len(kept') = Len(todo) + Len(kept)
        BY <3>1
      <3>4. CountersTyped
        BY DEF TypeOK, CountersTyped
      <3>5. QED
        BY <3>1, <3>2, <3>3, <3>4 DEF TallyConserved, CountersTyped
    <2>5. ZeroMeansAllSettled'
      <3>1. CASE kept = <<>> /\ status' = ExitStatus
        BY <1>1, <2>1, <3>1, SuccessMeansSettled DEF ZeroMeansAllSettled, FinishPass, fixed
      <3>2. CASE UNCHANGED status
        BY <1>1, <3>2 DEF ZeroMeansAllSettled, FinishPass, fixed
      <3>3. QED
        BY <1>1, <3>1, <3>2 DEF FinishPass
    <2>6. QED
      BY <2>2, <2>3, <2>4, <2>5 DEF Tallied
  <1>2. CASE NewACMEClient
    <2>1. TypeOK'
      BY <1>2 DEF TypeOK, NewACMEClient, server, fixed, tally, edits
    <2>2. StepsInPhase'
      BY <1>2 DEF StepsInPhase, NewACMEClient
    <2>3. TallyConserved' /\ ZeroMeansAllSettled'
      BY <1>2 DEF TallyConserved, ZeroMeansAllSettled, NewACMEClient, fixed, tally
    <2>4. QED
      BY <2>1, <2>2, <2>3 DEF Tallied
  <1>3. CASE FinishRun
    <2>1. TypeOK'
      BY <1>3 DEF TypeOK, FinishRun, ExitStatus, server, fixed, tally, edits
    <2>2. StepsInPhase'
      BY <1>3 DEF StepsInPhase, FinishRun, ExitStatus
    <2>3. TallyConserved'
      BY <1>3 DEF TallyConserved, FinishRun, fixed, tally
    <2>4. todo = <<>> /\ kept = <<>>
      BY <1>3 DEF FinishRun, StepsInPhase
    <2>5. ZeroMeansAllSettled'
      BY <1>3, <2>4, SuccessMeansSettled DEF ZeroMeansAllSettled, FinishRun, fixed
    <2>6. QED
      BY <2>1, <2>2, <2>3, <2>5 DEF Tallied
  <1>4. QED
    BY <1>1, <1>2, <1>3

\* What others do while the run is at work, and the time after it.
LEMMA EnvironmentTallied ==
    ASSUME Tallied, Cancel \/ AddAlias \/ DisablePKI \/ UNCHANGED vars
    PROVE  Tallied'
  <1>. TypeOK /\ StepsInPhase /\ TallyConserved /\ ZeroMeansAllSettled
    BY DEF Tallied
  <1>1. CASE Cancel
    BY <1>1 DEF Tallied, TypeOK, StepsInPhase, TallyConserved, ZeroMeansAllSettled,
                Cancel, server, fixed, run, tally, edits
  <1>2. CASE AddAlias
    <2>1. aliases' \in [Domain -> SUBSET Name] /\ added' \in SUBSET Name
      <3>1. PICK d \in Domain : \E a \in LateAliases[d] \ aliases[d] :
                /\ aliases' = [aliases EXCEPT ![d] = @ \cup {a}]
                /\ added' = added \cup ({ToASCII[a]} \cap Name)
        BY <1>2 DEF AddAlias
      <3>2. PICK a \in LateAliases[d] :
                /\ aliases' = [aliases EXCEPT ![d] = @ \cup {a}]
                /\ added' = added \cup ({ToASCII[a]} \cap Name)
        BY <3>1
      <3>3. aliases[d] \cup {a} \in SUBSET Name
        BY RunAssumption DEF TypeOK
      <3>4. QED
        BY <3>2, <3>3 DEF TypeOK
    <2>2. TypeOK'
      BY <1>2, <2>1 DEF TypeOK, AddAlias, fixed, run, tally
    <2>3. StepsInPhase' /\ TallyConserved' /\ ZeroMeansAllSettled'
      BY <1>2 DEF StepsInPhase, TallyConserved, ZeroMeansAllSettled,
                  AddAlias, fixed, run, tally
    <2>4. QED
      BY <2>2, <2>3 DEF Tallied
  <1>3. CASE DisablePKI
    <2>1. PICK d \in LateDisable \ disabled :
              /\ settings' = [settings EXCEPT ![d].certType = "NO"]
              /\ disabled' = disabled \cup {d}
      BY <1>3 DEF DisablePKI
    <2>2. d \in Domain /\ [settings[d] EXCEPT !.certType = "NO"] \in Settings
      <3>1. d \in Domain /\ settings[d] \in Settings
        BY <2>1, RunAssumption DEF TypeOK
      <3> QED
        BY <3>1 DEF Settings
    <2>3. settings' \in [Domain -> Settings] /\ disabled' \in SUBSET Domain
      BY <2>1, <2>2 DEF TypeOK
    <2>4. TypeOK'
      BY <1>3, <2>3 DEF TypeOK, DisablePKI, fixed, run, tally
    <2>5. StepsInPhase' /\ TallyConserved' /\ ZeroMeansAllSettled'
      BY <1>3 DEF StepsInPhase, TallyConserved, ZeroMeansAllSettled,
                  DisablePKI, fixed, run, tally
    <2>6. QED
      BY <2>4, <2>5 DEF Tallied
  <1>4. CASE UNCHANGED vars
    BY <1>4 DEF Tallied, TypeOK, StepsInPhase, TallyConserved, ZeroMeansAllSettled,
                vars, server, fixed, tally, edits
  <1>5. QED
    BY <1>1, <1>2, <1>3, <1>4

LEMMA StepTallied == Tallied /\ [Next]_vars => Tallied'
  BY CheckTallied, RehearsalTallied, RenewalTallied, PhasesTallied, EnvironmentTallied
     DEF Next, RunStep, Exited

LEMMA AlwaysTallied == Spec => []Tallied
  BY InitTallied, StepTallied, PTL DEF Spec

-------------------------------------------------------------------------------
(***************************************************************************)
(* Run implements Batch.  What a step does to Ahead, Due and the counters  *)
(* is what the lemmas of the tally say of Conclude and Append.             *)
(***************************************************************************)
Failures == unchecked + blocked + failed
Lengths == Len(todo) \in Nat /\ Len(kept) \in Nat /\ Len(todo') \in Nat /\ Len(kept') \in Nat

LEMMA LengthsStep ==
    ASSUME Tallied, Tallied'
    PROVE  Lengths /\ CountersTyped /\ CountersTyped'
  BY LengthsTyped DEF Tallied, TypeOK, Lengths, CountersTyped

\* A domain counted in a pass over the list was examined, in the renewal loop
\* renewed.
LEMMA CountedIsAStep ==
    ASSUME Tallied, Tallied', todo # <<>>, Conclude, CountsOne, kept' = kept,
           phase' = phase, phase \in {"check", "rehearse", "renew"}, status' = status
    PROVE  Promise!Next
  <1>1. Lengths /\ CountersTyped /\ Len(todo') = Len(todo) - 1 /\ status = "running"
    BY LengthsStep, ConcludeTakesOne DEF Tallied, StepsInPhase
  <1>2. Promise!Counted
    BY <1>1 DEF Promise!Counted, CountsOne, CountersTyped
  <1>3. CASE phase \in {"check", "rehearse"}
    <2>1. Ahead > 0 /\ Ahead' = Ahead - 1 /\ Due' = Due
      BY <1>1, <1>3 DEF Ahead, Due, Lengths
    <2> QED
      BY <1>1, <1>2, <2>1 DEF Promise!Next, Promise!Examine
  <1>4. CASE phase = "renew"
    <2>1. Ahead = 0 /\ Ahead' = Ahead /\ Due > 0 /\ Due' = Due - 1
      BY <1>1, <1>4 DEF Ahead, Due, Lengths
    <2> QED
      BY <1>1, <1>2, <2>1 DEF Promise!Next, Promise!Renew
  <1> QED
    BY <1>3, <1>4

\* A decision handed on: in the check loop the domain is still to be rehearsed,
\* after the rehearsal it is due.
LEMMA KeptIsAStep ==
    ASSUME Tallied, Tallied', todo # <<>>, Conclude, Len(kept') = Len(kept) + 1,
           phase' = phase, phase \in {"check", "rehearse"}, UNCHANGED <<tally, settled, status>>
    PROVE  Promise!Next \/ UNCHANGED Promise!batch
  <1>1. Lengths /\ CountersTyped /\ Len(todo') = Len(todo) - 1 /\ status = "running"
    BY LengthsStep, ConcludeTakesOne DEF Tallied, StepsInPhase
  <1>2. Failures' = Failures /\ settled' = settled /\ status' = status
    BY DEF Failures, tally
  <1>3. CASE phase = "check"
    <2>1. Ahead' = Ahead /\ Due' = Due
      BY <1>1, <1>3 DEF Ahead, Due, Lengths
    <2> QED
      BY <1>2, <2>1 DEF Promise!batch, Failures
  <1>4. CASE phase = "rehearse"
    <2>1. Ahead > 0 /\ Ahead' = Ahead - 1 /\ Due' = Due + 1
      BY <1>1, <1>4 DEF Ahead, Due, Lengths
    <2> QED
      BY <1>1, <1>2, <2>1 DEF Promise!Next, Promise!Examine, Failures
  <1> QED
    BY <1>3, <1>4

\* Steps between two conclusions are none of the promise.
LEMMA InBetween ==
    ASSUME UNCHANGED <<phase, todo, kept, tally, settled, status>>
    PROVE  UNCHANGED Promise!batch
  <1>1. Ahead' = Ahead /\ Due' = Due
    BY DEF Ahead, Due
  <1> QED
    BY <1>1 DEF Promise!batch, tally

\* What the end of a phase, and of the run, is to the promise.
LEMMA PhaseIsAStep ==
    ASSUME Tallied, Tallied', FinishPass \/ NewACMEClient \/ FinishRun
    PROVE  Promise!Next \/ UNCHANGED Promise!batch
  <1>1. Lengths /\ CountersTyped /\ StepsInPhase
    BY LengthsStep DEF Tallied
  <1>2. Len(<<>>) = 0
    OBVIOUS
  <1>3. CASE FinishPass
    <2>1. status = "running" /\ todo = <<>> /\ todo' = kept /\ kept' = <<>>
          /\ UNCHANGED <<settled, unchecked, blocked, failed>>
      BY <1>1, <1>3 DEF FinishPass, StepsInPhase, tally
    <2>2. CASE kept = <<>> /\ phase' = "exit" /\ status' = ExitStatus
      <3>1. Ahead = 0 /\ Due = 0 /\ Ahead' = 0 /\ Due' = 0
        BY <1>1, <1>2, <1>3, <2>1, <2>2 DEF FinishPass, Ahead, Due
      <3> QED
        BY <2>1, <2>2, <3>1 DEF Promise!Next, Promise!Finish, ExitStatus
    <2>3. CASE kept # <<>> /\ UNCHANGED status
               /\ phase' = IF phase = "check" THEN "rehearse" ELSE "account"
      <3>1. Ahead' = Ahead /\ Due' = Due
        BY <1>1, <1>2, <1>3, <2>1, <2>3 DEF FinishPass, Ahead, Due, Lengths
      <3> QED
        BY <2>1, <2>3, <3>1 DEF Promise!batch
    <2> QED
      BY <1>3, <2>2, <2>3 DEF FinishPass
  <1>4. CASE NewACMEClient
    <2>1. status = "running" /\ UNCHANGED <<todo, kept, settled, unchecked, blocked, failed>>
          /\ phase = "account" /\ phase' \in {"renew", "exit"}
      BY <1>1, <1>4 DEF NewACMEClient, StepsInPhase, tally
    <2>2. Ahead = 0 /\ Ahead' = Ahead /\ Due' = Due /\ Due = Len(todo)
      BY <2>1 DEF Ahead, Due
    <2>3. CASE UNCHANGED status
      BY <2>1, <2>2, <2>3 DEF Promise!batch
    <2>4. CASE status' = "error"
      <3>1. todo # <<>> /\ todo \in Seq(Decisions)
        BY <1>1, <2>1 DEF StepsInPhase, Tallied, TypeOK
      <3>2. Due > 0
        BY <1>1, <2>2, <3>1 DEF Lengths
      <3> QED
        BY <2>1, <2>2, <2>4, <3>2 DEF Promise!Next, Promise!GetsNoAccount
    <2> QED
      BY <1>4, <2>3, <2>4 DEF NewACMEClient
  <1>5. CASE FinishRun
    <2>1. status = "running" /\ todo = <<>> /\ phase = "renew" /\ phase' = "exit"
          /\ UNCHANGED <<todo, kept, settled, unchecked, blocked, failed>>
          /\ status' = ExitStatus
      BY <1>1, <1>5 DEF FinishRun, StepsInPhase, tally
    <2>2. Ahead = 0 /\ Due = 0 /\ Ahead' = 0 /\ Due' = 0
      BY <1>2, <2>1 DEF Ahead, Due
    <2> QED
      BY <2>1, <2>2 DEF Promise!Next, Promise!Finish, ExitStatus
  <1> QED
    BY <1>3, <1>4, <1>5

LEMMA StepImplementsBatch ==
    Tallied /\ Tallied' /\ [Next]_vars => [Promise!Next]_(Promise!batch)
  <1> SUFFICES ASSUME Tallied, Tallied', [Next]_vars
               PROVE  Promise!Next \/ UNCHANGED Promise!batch
    OBVIOUS
  <1>1. TypeOK /\ TypeOK' /\ StepsInPhase /\ CountersTyped
    BY LengthsStep DEF Tallied
  <1>2. CASE SkipExcluded \/ DomainFails \/ RehearsalBlocks \/ Install \/ RenewFails
             \/ (Issued /\ conf.staging)
    <2>1. /\ todo # <<>> /\ Conclude /\ kept' = kept /\ phase' = phase /\ status' = status
          /\ phase \in {"check", "rehearse", "renew"}
      BY <1>1, <1>2 DEF SkipExcluded, DomainFails, RehearsalBlocks, Install, RenewFails, Issued,
                        CheckBegins, At, StepsInPhase
    <2>2. CountsOne
      BY <1>2 DEF SkipExcluded, DomainFails, RehearsalBlocks, Install, RenewFails, Issued,
                  CountsOne, tally
    <2> QED
      BY <2>1, <2>2, CountedIsAStep
  <1>3. CASE ReadSettings
    <2>1. /\ todo # <<>> /\ Conclude /\ phase' = phase /\ status' = status
          /\ phase \in {"check", "rehearse"} /\ UNCHANGED tally
      BY <1>1, <1>3 DEF ReadSettings, StepsInPhase
    <2>2. CASE settled' = settled + 1 /\ kept' = kept
      BY <2>1, <2>2, CountedIsAStep DEF CountsOne, tally
    <2>3. CASE settled' = settled /\ kept' = Append(kept, [domain |-> Current, sans |-> sans])
      <3>1. Len(kept') = Len(kept) + 1
        BY <1>1, <2>1, <2>3, CurrentTyped, HandedOn DEF TypeOK, Decisions
      <3> QED
        BY <2>1, <2>3, <3>1, KeptIsAStep
    <2> QED
      BY <1>3, <2>2, <2>3 DEF ReadSettings
  <1>4. CASE RehearsalPasses
    <2>1. todo # <<>> /\ Conclude /\ phase' = phase /\ phase = "rehearse"
          /\ UNCHANGED <<tally, settled, status>> /\ kept' = Append(kept, Head(todo))
      BY <1>4 DEF RehearsalPasses, At, StepsInPhase, Tallied
    <2>2. Len(kept') = Len(kept) + 1
      BY <1>1, <2>1, CurrentTyped, HandedOn
    <2> QED
      BY <2>1, <2>2, KeptIsAStep
  <1>5. CASE FinishPass \/ NewACMEClient \/ FinishRun
    BY <1>5, PhaseIsAStep
  <1>6. CASE \/ ReadAliases \/ StartRehearsal \/ ProbeName \/ ProbeInterrupted
             \/ Reconsider \/ PlaceOrder \/ (Issued /\ ~conf.staging)
             \/ Cancel \/ AddAlias \/ DisablePKI \/ UNCHANGED vars
    <2>1. UNCHANGED <<phase, todo, kept, tally, settled, status>>
      BY <1>6 DEF ReadAliases, StartRehearsal, ProbeName, ProbeInterrupted, Reconsider,
                  PlaceOrder, Issued, Cancel, AddAlias, DisablePKI, run, vars
    <2> QED
      BY <2>1, InBetween
  <1> QED
    BY <1>2, <1>3, <1>4, <1>5, <1>6 DEF Next, RunStep, Exited

LEMMA InitImplementsBatch == Init => Promise!Init
  <1> SUFFICES ASSUME Init PROVE Promise!Init
    OBVIOUS
  <1>1. Tallied /\ Len(todo) \in Nat /\ Len(kept) \in Nat
    BY InitTallied, LengthsTyped DEF Tallied
  <1>2. Ahead \in Nat /\ Due = 0
    BY <1>1 DEF Init, Ahead, Due
  <1> QED
    BY <1>2 DEF Init, Promise!Init

-------------------------------------------------------------------------------
(* Theorems *)

\* Every state of a run is well formed, whatever it finds on the server.
THEOREM RunTyped == Spec => []TypeOK
  BY AlwaysTallied, PTL DEF Tallied

\* No domain of the list is lost or counted twice, however commands fail.
THEOREM RunConservesTally == Spec => []TallyConserved
  BY AlwaysTallied, PTL DEF Tallied

\* A run that exits 0 has settled every domain of its list.
THEOREM ZeroIsSuccess == Spec => []ZeroMeansAllSettled
  BY AlwaysTallied, PTL DEF Tallied

\* A run keeps the promise of Batch, for every list and every schedule.
THEOREM RunImplementsBatch == Spec => ImplementsBatch
  BY AlwaysTallied, InitImplementsBatch, StepImplementsBatch, PTL
     DEF Spec, ImplementsBatch, Promise!Spec

-------------------------------------------------------------------------------
(***************************************************************************)
(* What a run may do to a domain: what it orders was rehearsed, what it    *)
(* installs was wanted.  Both are facts about the decisions that are       *)
(* handed from one phase to the next while others edit what they were made *)
(* of.                                                                     *)
(***************************************************************************)
Elements(s) == {s[i] : i \in 1..Len(s)}

\* The decisions to renew; of these, the ones that have been rehearsed.
Chosen == Elements(kept) \cup (IF phase = "check" THEN {} ELSE Elements(todo))
Ready == IF phase = "check" THEN {}
         ELSE IF phase = "rehearse" THEN Elements(kept) ELSE Elements(todo)

\* What certificateNames would return now.
NamesNow(d) == CertificateNames(d, aliases[d], excluded) \cap Name

-------------------------------------------------------------------------------
(* The inductive invariant, by the part of the run it is about.            *)

\* A chosen domain had its PKI Services enabled, or not disabled yet.
Willing == \A o \in Chosen : settings[o.domain].certType = "NO" => o.domain \in disabled

\* A decision covers what it would cover now, but for late aliases.
Covering == \A o \in Chosen : NamesNow(o.domain) \subseteq o.sans \cup added

Rehearsed == \A o \in Ready \cup orders : o.sans \subseteq passed \cup added

Reports == conf.staging => step # "install"

Probed ==
    (phase = "rehearse" /\ step = "probe") => Head(todo).sans \subseteq passed \cup bad \cup toProbe

\* The names that reconsider will find passed.
Reconsidered == step = "aliases" => NamesNow(Current) \subseteq passed \cup added

\* The names checkDomain has in hand between its two reads.
InHand ==
    step = "settings" =>
        /\ NamesNow(Current) \subseteq sans \cup added
        /\ phase = "rehearse" => sans \subseteq passed \cup added

OfDecisions == Willing /\ Covering /\ Rehearsed
OfStep == Reports /\ Probed /\ Reconsidered /\ InHand
Sound == Tallied /\ OfDecisions /\ OfStep

-------------------------------------------------------------------------------
(* Lists of decisions *)

LEMMA HeadIsElement ==
    ASSUME TypeOK, todo # <<>>
    PROVE  Head(todo) \in Elements(todo)
  <1>1. Len(todo) \in Nat /\ Len(todo) # 0 /\ Head(todo) = todo[1]
    BY EmptySeq, LenProperties DEF TypeOK
  <1> QED
    BY <1>1 DEF Elements

LEMMA ChosenTyped ==
    ASSUME TypeOK
    PROVE  \A o \in Chosen : o.domain \in Domain
  <1>1. \A i \in 1..Len(kept) : kept[i] \in Decisions
    BY ElementOfSeq DEF TypeOK
  <1>2. \A i \in 1..Len(todo) : todo[i] \in Decisions
    BY ElementOfSeq DEF TypeOK
  <1> QED
    BY <1>1, <1>2 DEF Chosen, Elements, Decisions

LEMMA ConcludeKeepsRest ==
    ASSUME TypeOK, todo # <<>>, Conclude
    PROVE  Elements(todo') \subseteq Elements(todo)
  <1>1. /\ todo' = Tail(todo) /\ Len(todo) \in Nat /\ Len(Tail(todo)) = Len(todo) - 1
        /\ \A i \in 1..Len(Tail(todo)) : Tail(todo)[i] = todo[i + 1]
    BY HeadTailProperties, LenProperties DEF TypeOK, Conclude
  <1> QED
    BY <1>1 DEF Elements

LEMMA AppendAddsOne ==
    ASSUME TypeOK, NEW d \in Decisions, kept' = Append(kept, d)
    PROVE  Elements(kept') \subseteq Elements(kept) \cup {d}
  <1>1. /\ Len(kept) \in Nat /\ Len(kept') = Len(kept) + 1
        /\ \A i \in 1..Len(kept) : kept'[i] = kept[i]
        /\ kept'[Len(kept) + 1] = d
    BY AppendProperties, LenProperties DEF TypeOK
  <1>2. \A i \in 1..Len(kept') : i \in 1..Len(kept) \/ i = Len(kept) + 1
    BY <1>1
  <1> QED
    BY <1>1, <1>2 DEF Elements

LEMMA NothingInEmpty == Elements(<<>>) = {}
  BY EmptySeq DEF Elements

\* A step that decides nothing new keeps what is known of the decisions.
LEMMA NothingDecided ==
    ASSUME OfDecisions, UNCHANGED <<server, excluded, orders, edits>>,
           Chosen' \subseteq Chosen, Ready' \subseteq Ready, passed \subseteq passed'
    PROVE  OfDecisions'
  <1>1. UNCHANGED <<aliases, settings, excluded, orders, added, disabled>>
    BY DEF server, edits
  <1>2. Willing'
    BY <1>1 DEF OfDecisions, Willing
  <1>3. Covering'
    BY <1>1 DEF OfDecisions, Covering, NamesNow
  <1>4. Rehearsed'
    BY <1>1 DEF OfDecisions, Rehearsed
  <1> QED
    BY <1>2, <1>3, <1>4 DEF OfDecisions

\* So does the end of a domain's turn, which is also no longer in hand.
LEMMA TurnEnds ==
    ASSUME Sound, todo # <<>>, Conclude, phase' = phase, conf' = conf, kept' = kept,
           UNCHANGED <<server, excluded, orders, edits, passed>>
    PROVE  OfDecisions' /\ OfStep'
  <1>1. Elements(todo') \subseteq Elements(todo) /\ step' = "next"
    BY ConcludeKeepsRest DEF Sound, Tallied, Conclude
  <1>2. Chosen' \subseteq Chosen /\ Ready' \subseteq Ready
    BY <1>1 DEF Chosen, Ready
  <1>3. OfDecisions'
    BY <1>2, NothingDecided DEF Sound
  <1>4. OfStep'
    BY <1>1 DEF OfStep, Reports, Probed, Reconsidered, InHand
  <1> QED
    BY <1>3, <1>4

-------------------------------------------------------------------------------
(* One lemma per loop of the run. *)

\* A domain whose turn ends without a decision.
LEMMA LeavesSound ==
    ASSUME Sound, \/ SkipExcluded \/ DomainFails \/ RehearsalBlocks \/ RenewFails
                  \/ Issued /\ conf.staging
    PROVE  OfDecisions' /\ OfStep'
  <1>1. /\ todo # <<>> /\ Conclude /\ phase' = phase /\ conf' = conf /\ kept' = kept
        /\ UNCHANGED <<server, excluded, orders, edits, passed>>
    BY DEF Sound, Tallied, StepsInPhase, At, CheckBegins, fixed,
           SkipExcluded, DomainFails, RehearsalBlocks, RenewFails, Issued
  <1> QED
    BY <1>1, TurnEnds

\* checkDomain: what it reads of the aliases, and what it decides.
LEMMA ReadAliasesSound ==
    ASSUME Sound, ReadAliases
    PROVE  OfDecisions' /\ OfStep'
  <1>1. todo # <<>> /\ phase \in {"check", "rehearse"} /\ (phase = "rehearse" => step = "aliases")
    BY DEF Sound, Tallied, StepsInPhase, ReadAliases, CheckBegins, At
  <1>2. sans' = NamesNow(Current)
    <2>1. Current \in Domain /\ aliases[Current] \in SUBSET Name /\ excluded \in SUBSET Name
      BY <1>1, CurrentTyped DEF Sound, Tallied, TypeOK
    <2>2. CertificateNames(Current, aliases[Current], excluded) \in SUBSET Name
      BY <2>1, NamesTyped, RunAssumption DEF ReadAliases
    <2> QED
      BY <2>2 DEF ReadAliases, NamesNow
  <1>3. UNCHANGED <<aliases, excluded, todo, phase, passed, added, conf>> /\ step' = "settings"
    BY DEF ReadAliases, server, fixed, edits
  <1>4. InHand'
    <2>1. phase = "rehearse" => NamesNow(Current) \subseteq passed \cup added
      BY <1>1 DEF Sound, OfStep, Reconsidered
    <2>2. NamesNow(Current)' = NamesNow(Current)
      BY <1>3 DEF NamesNow, Current
    <2> QED
      BY <1>2, <1>3, <2>1, <2>2 DEF InHand
  <1>5. Chosen' = Chosen /\ Ready' = Ready
    BY DEF ReadAliases, Chosen, Ready
  <1>6. OfDecisions'
    BY <1>5, NothingDecided DEF Sound, ReadAliases
  <1> QED
    BY <1>3, <1>4, <1>6 DEF OfStep, Reports, Probed, Reconsidered

LEMMA ReadSettingsSound ==
    ASSUME Sound, ReadSettings
    PROVE  OfDecisions' /\ OfStep'
  <1>1. todo # <<>> /\ phase \in {"check", "rehearse"} /\ Conclude /\ phase' = phase
        /\ UNCHANGED <<server, conf, excluded, orders, edits, passed>>
    BY DEF Sound, Tallied, StepsInPhase, ReadSettings, fixed
  <1>2. CASE kept' = kept
    BY <1>1, <1>2, TurnEnds
  <1>3. CASE Verdict(sans, settings[Current], Forced) = "renew"
             /\ kept' = Append(kept, [domain |-> Current, sans |-> sans])
    <2> DEFINE new == [domain |-> Current, sans |-> sans]
    <2>1. new \in Decisions
      BY <1>1, CurrentTyped DEF Sound, Tallied, TypeOK, Decisions
    <2>2. Elements(kept') \subseteq Elements(kept) \cup {new}
      BY <1>3, <2>1, AppendAddsOne DEF Sound, Tallied
    <2>3. Elements(todo') \subseteq Elements(todo)
      BY <1>1, ConcludeKeepsRest DEF Sound, Tallied
    <2>4. Chosen' \subseteq Chosen \cup {new}
      BY <1>1, <2>2, <2>3 DEF Chosen
    <2>5. Ready' \subseteq Ready \cup (IF phase = "rehearse" THEN {new} ELSE {})
      BY <1>1, <2>2, <2>3 DEF Ready
    <2>6. UNCHANGED <<aliases, settings, excluded, orders, passed, added, disabled>>
      BY <1>1 DEF server, edits
    <2>7. settings[new.domain].certType # "NO"
      BY <1>3 DEF Verdict
    <2>8. NamesNow(new.domain) \subseteq new.sans \cup added
          /\ (phase = "rehearse" => new.sans \subseteq passed \cup added)
      BY DEF Sound, OfStep, InHand, ReadSettings
    <2>9. Willing'
      BY <2>4, <2>6, <2>7 DEF Sound, OfDecisions, Willing
    <2>10. Covering'
      BY <2>4, <2>6, <2>8 DEF Sound, OfDecisions, Covering, NamesNow
    <2>11. Rehearsed'
      BY <2>5, <2>6, <2>8 DEF Sound, OfDecisions, Rehearsed
    <2>12. OfStep'
      BY <1>1 DEF Conclude, OfStep, Reports, Probed, Reconsidered, InHand
    <2> QED
      BY <2>9, <2>10, <2>11, <2>12 DEF OfDecisions
  <1> QED
    BY <1>2, <1>3 DEF ReadSettings

\* The probes of one decision.
LEMMA ProbesSound ==
    ASSUME Sound, StartRehearsal \/ ProbeName \/ ProbeInterrupted
    PROVE  OfDecisions' /\ OfStep'
  <1>1. /\ phase = "rehearse" /\ phase' = phase /\ step' = "probe" /\ todo' = todo
        /\ kept' = kept /\ passed \subseteq passed'
        /\ UNCHANGED <<server, excluded, orders, edits, conf>>
    BY DEF StartRehearsal, ProbeName, ProbeInterrupted, Probing, At, fixed
  <1>2. Chosen' = Chosen /\ Ready' = Ready
    BY <1>1 DEF Chosen, Ready
  <1>3. OfDecisions'
    BY <1>1, <1>2, NothingDecided DEF Sound
  <1>4. Probed'
    <2>1. CASE StartRehearsal
      BY <1>1, <2>1 DEF StartRehearsal, Probed
    <2>2. CASE ProbeName
      <3>1. Head(todo).sans \subseteq passed \cup bad \cup toProbe
        BY <2>2 DEF ProbeName, Probing, At, Sound, OfStep, Probed
      <3>2. PICK n \in toProbe :
              /\ toProbe' = toProbe \ {n}
              /\ \/ passed' = passed \cup {n} /\ UNCHANGED <<bad, blamed>>
                 \/ bad' = bad \cup {n} /\ blamed' = blamed \cup {n} /\ UNCHANGED passed
        BY <2>2 DEF ProbeName
      <3>3. passed \cup bad \cup toProbe \subseteq passed' \cup bad' \cup toProbe'
        BY <3>2
      <3> QED
        BY <1>1, <3>1, <3>3 DEF Probed
    <2>3. CASE ProbeInterrupted
      <3>1. Head(todo).sans \subseteq passed \cup bad \cup toProbe
        BY <2>3 DEF ProbeInterrupted, Probing, At, Sound, OfStep, Probed
      <3> QED
        BY <1>1, <2>3, <3>1 DEF ProbeInterrupted, Probed
    <2> QED
      BY <2>1, <2>2, <2>3
  <1> QED
    BY <1>1, <1>3, <1>4 DEF OfStep, Reports, Reconsidered, InHand

LEMMA PassesSound ==
    ASSUME Sound, RehearsalPasses
    PROVE  OfDecisions' /\ OfStep'
  <1>1. /\ todo # <<>> /\ Conclude /\ phase = "rehearse" /\ phase' = phase
        /\ kept' = Append(kept, Head(todo))
        /\ UNCHANGED <<aliases, settings, excluded, orders, passed, added, disabled, conf>>
    BY DEF Sound, Tallied, StepsInPhase, RehearsalPasses, At, fixed, server, edits
  <1>2. Head(todo) \in Elements(todo) /\ Elements(todo') \subseteq Elements(todo)
        /\ Elements(kept') \subseteq Elements(kept) \cup {Head(todo)}
    BY <1>1, HeadIsElement, ConcludeKeepsRest, CurrentTyped, AppendAddsOne DEF Sound, Tallied
  <1>3. Head(todo).sans \subseteq passed
    BY DEF RehearsalPasses, At, Sound, OfStep, Probed
  <1>4. Chosen' \subseteq Chosen /\ Ready' \subseteq Ready \cup {Head(todo)}
    BY <1>1, <1>2 DEF Chosen, Ready
  <1>5. Willing'
    BY <1>1, <1>4 DEF Sound, OfDecisions, Willing
  <1>6. Covering'
    BY <1>1, <1>4 DEF Sound, OfDecisions, Covering, NamesNow
  <1>7. Rehearsed'
    BY <1>1, <1>3, <1>4 DEF Sound, OfDecisions, Rehearsed
  <1>8. OfStep'
    BY <1>1 DEF Conclude, OfStep, Reports, Probed, Reconsidered, InHand
  <1> QED
    BY <1>5, <1>6, <1>7, <1>8 DEF OfDecisions

\* What is left of a decision without its failing aliases has passed.
LEMMA ReconsiderSound ==
    ASSUME Sound, Reconsider
    PROVE  OfDecisions' /\ OfStep'
  <1>1. /\ todo # <<>> /\ phase = "rehearse" /\ phase' = phase /\ toProbe = {}
        /\ Current \notin bad /\ excluded' = excluded \cup (bad \ {Current})
        /\ step' = "aliases" /\ todo' = todo /\ kept' = kept
        /\ UNCHANGED <<aliases, settings, orders, passed, added, disabled, conf>>
    BY DEF Sound, Tallied, StepsInPhase, Reconsider, Blocked, BadAliases, At, fixed, server, edits
  <1>2. Chosen' = Chosen /\ Ready' = Ready /\ Head(todo) \in Chosen
    BY <1>1, HeadIsElement DEF Chosen, Ready, Sound, Tallied
  <1>3. ASSUME NEW d
        PROVE  NamesNow(d)' \subseteq NamesNow(d) \cap ({d} \cup (NamesNow(d) \ (bad \ {Current})))
    <2>1. /\ aliases' = aliases
          /\ CertificateNames(d, aliases[d], excluded')
               \subseteq CertificateNames(d, aliases[d], excluded)
                   \cap ({d} \cup (CertificateNames(d, aliases[d], excluded) \ (bad \ {Current})))
      BY <1>1 DEF CertificateNames, AliasNames
    <2> QED
      BY <2>1 DEF NamesNow
  <1>4. Willing' /\ Rehearsed'
    BY <1>1, <1>2 DEF Sound, OfDecisions, Willing, Rehearsed
  <1>5. Covering'
    BY <1>1, <1>2, <1>3 DEF Sound, OfDecisions, Covering
  <1>6. Reconsidered'
    <2>1. NamesNow(Current) \subseteq Head(todo).sans \cup added
      BY <1>2 DEF Sound, OfDecisions, Covering, Current
    <2>2. Head(todo).sans \subseteq passed \cup bad
      BY <1>1 DEF Reconsider, At, Sound, OfStep, Probed
    <2>3. NamesNow(Current)' \subseteq NamesNow(Current) \ bad
      <3>1. Current' = Current
        BY <1>1 DEF Current
      <3>2. CertificateNames(Current, aliases[Current], excluded')
              \subseteq CertificateNames(Current, aliases[Current], excluded) \ bad
        BY <1>1 DEF CertificateNames, AliasNames
      <3> QED
        BY <1>1, <3>1, <3>2 DEF NamesNow
    <2> QED
      BY <1>1, <2>1, <2>2, <2>3 DEF Reconsidered
  <1> QED
    BY <1>1, <1>4, <1>5, <1>6 DEF OfDecisions, OfStep, Reports, Probed, InHand
\* The ends of the phases: a list becomes the next phase's.
LEMMA PhasesSound ==
    ASSUME Sound, FinishPass \/ NewACMEClient \/ FinishRun
    PROVE  OfDecisions' /\ OfStep'
  <1>1. UNCHANGED <<server, excluded, orders, edits, passed, conf, step>>
    BY DEF FinishPass, NewACMEClient, FinishRun, fixed
  <1>2. Chosen' \subseteq Chosen /\ Ready' \subseteq Ready
    <2>1. CASE FinishPass
      <3>1. todo' = kept /\ Elements(kept') = {} /\ phase \in {"check", "rehearse"}
        BY <2>1, NothingInEmpty DEF FinishPass
      <3>2. phase = "check" => phase' = "rehearse" \/ Elements(kept) = {}
        BY <2>1, NothingInEmpty DEF FinishPass
      <3>3. phase' # "check"
        BY <2>1 DEF FinishPass
      <3> QED
        BY <3>1, <3>2, <3>3 DEF Chosen, Ready
    <2>2. CASE NewACMEClient \/ FinishRun
      <3>1. UNCHANGED <<todo, kept>> /\ phase \in {"account", "renew"} /\ phase' \in {"renew", "exit"}
        BY <2>2 DEF NewACMEClient, FinishRun
      <3> QED
        BY <3>1 DEF Chosen, Ready
    <2> QED
      BY <2>1, <2>2
  <1>3. OfDecisions'
    BY <1>1, <1>2, NothingDecided DEF Sound
  <1>4. step \in {"next", "issue", "install"}
    BY DEF Sound, Tallied, StepsInPhase, TypeOK, FinishPass, NewACMEClient, FinishRun
  <1>5. OfStep'
    BY <1>1, <1>4 DEF Sound, OfStep, Reports, Probed, Reconsidered, InHand
  <1> QED
    BY <1>3, <1>5

\* The renewals.
LEMMA RenewalSound ==
    ASSUME Sound, PlaceOrder \/ (Issued /\ ~conf.staging) \/ Install
    PROVE  OfDecisions' /\ OfStep'
  <1>1. /\ phase = "renew" /\ phase' = phase /\ todo # <<>> /\ conf' = conf /\ kept' = kept
        /\ step' \in {"issue", "install", "next"}
        /\ UNCHANGED <<aliases, excluded, passed, added, disabled>>
    BY DEF Sound, Tallied, StepsInPhase, PlaceOrder, Issued, Install, Conclude, At, fixed, server, edits
  <1>2. Head(todo) \in Chosen \cap Ready
    BY <1>1, HeadIsElement DEF Chosen, Ready, Sound, Tallied
  <1>3. Chosen' \subseteq Chosen /\ Ready' \subseteq Ready
    <2>1. todo' = todo \/ Conclude
      BY DEF PlaceOrder, Issued, Install
    <2>2. Elements(todo') \subseteq Elements(todo)
      BY <1>1, <2>1, ConcludeKeepsRest DEF Sound, Tallied
    <2> QED
      BY <1>1, <2>2 DEF Chosen, Ready
  <1>4. OfDecisions'
    <2>1. orders' \subseteq orders \cup {Head(todo)}
      BY DEF PlaceOrder, Issued, Install
    <2>2. Rehearsed'
      BY <1>1, <1>2, <1>3, <2>1 DEF Sound, OfDecisions, Rehearsed
    <2>3. Covering'
      BY <1>1, <1>3 DEF Sound, OfDecisions, Covering, NamesNow
    <2>4. Willing'
      <3>1. CASE settings' = settings
        BY <1>1, <1>3, <3>1 DEF Sound, OfDecisions, Willing
      <3>2. CASE Install
        <4>1. settings' = [settings EXCEPT ![Current] = Installed(Current, Head(todo).sans)]
              /\ settings \in [Domain -> Settings]
          BY <3>2 DEF Install, Sound, Tallied, TypeOK
        <4>2. \A o \in Chosen : o.domain \in Domain
          BY ChosenTyped DEF Sound, Tallied
        <4>3. \A d \in Domain : settings'[d] = settings[d] \/ settings'[d].certType = "YES"
          BY <4>1 DEF Installed
        <4> QED
          BY <1>1, <1>3, <4>2, <4>3 DEF Sound, OfDecisions, Willing
      <3> QED
        BY <3>1, <3>2 DEF PlaceOrder, Issued, server
    <2> QED
      BY <2>2, <2>3, <2>4 DEF OfDecisions
  <1>5. Reports'
    BY <1>1 DEF PlaceOrder, Issued, Install, Conclude, Reports
  <1> QED
    BY <1>1, <1>4, <1>5 DEF OfStep, Probed, Reconsidered, InHand

\* What others do while the run is at work, and the time after it.
LEMMA EnvironmentSound ==
    ASSUME Sound, Cancel \/ AddAlias \/ DisablePKI \/ UNCHANGED vars
    PROVE  OfDecisions' /\ OfStep'
  <1>1. UNCHANGED <<phase, step, todo, kept, excluded, sans, toProbe, bad, passed, orders, conf>>
    BY DEF Cancel, AddAlias, DisablePKI, vars, run, fixed
  <1>2. Chosen' = Chosen /\ Ready' = Ready
    BY <1>1 DEF Chosen, Ready
  <1>3. CASE UNCHANGED <<server, edits>>
    <2>1. OfDecisions'
      BY <1>1, <1>2, <1>3, NothingDecided DEF Sound
    <2>2. OfStep'
      BY <1>1, <1>3
         DEF Sound, OfStep, Reports, Probed, Reconsidered, InHand, NamesNow, Current, server, edits
    <2> QED
      BY <2>1, <2>2
  <1>4. CASE AddAlias
    <2>1. UNCHANGED <<settings, disabled>> /\ added \subseteq added'
      BY <1>4 DEF AddAlias
    <2>2. ASSUME NEW d
          PROVE  NamesNow(d)' \subseteq NamesNow(d) \cup added'
      <3>1. PICK e \in Domain : \E a \in LateAliases[e] \ aliases[e] :
                /\ aliases' = [aliases EXCEPT ![e] = @ \cup {a}]
                /\ added' = added \cup ({ToASCII[a]} \cap Name)
        BY <1>4 DEF AddAlias
      <3>2. PICK a \in LateAliases[e] :
                /\ aliases' = [aliases EXCEPT ![e] = @ \cup {a}]
                /\ added' = added \cup ({ToASCII[a]} \cap Name)
        BY <3>1
      <3>3. aliases'[d] = aliases[d] \/ aliases'[d] = aliases[d] \cup {a}
        BY <3>2 DEF Sound, Tallied, TypeOK
      <3>4. CASE aliases'[d] = aliases[d]
        BY <1>1, <3>4 DEF NamesNow
      <3>5. CASE aliases'[d] = aliases[d] \cup {a}
        BY <1>1, <3>2, <3>5, AliasWidens DEF NamesNow
      <3> QED
        BY <3>3, <3>4, <3>5
    <2>3. Willing' /\ Rehearsed'
      BY <1>1, <1>2, <2>1 DEF Sound, OfDecisions, Willing, Rehearsed
    <2>4. Covering'
      BY <1>2, <2>1, <2>2 DEF Sound, OfDecisions, Covering
    <2>5. Current' = Current /\ NamesNow(Current)' \subseteq NamesNow(Current) \cup added'
      <3>1. Current' = Current
        BY <1>1 DEF Current
      <3> QED
        BY <2>2, <3>1 DEF NamesNow
    <2>6. OfStep'
      BY <1>1, <2>1, <2>5 DEF Sound, OfStep, Reports, Probed, Reconsidered, InHand
    <2> QED
      BY <2>3, <2>4, <2>6 DEF OfDecisions
  <1>5. CASE DisablePKI
    <2>1. UNCHANGED <<aliases, added>>
      BY <1>5 DEF DisablePKI
    <2>2. PICK d \in LateDisable \ disabled :
            /\ settings' = [settings EXCEPT ![d].certType = "NO"]
            /\ disabled' = disabled \cup {d}
      BY <1>5 DEF DisablePKI
    <2>3. \A e \in Domain : e # d => settings'[e] = settings[e]
      BY <2>2 DEF Sound, Tallied, TypeOK
    <2>4. Willing'
      BY <1>2, <2>2, <2>3, ChosenTyped DEF Sound, Tallied, OfDecisions, Willing
    <2>5. Covering' /\ Rehearsed'
      BY <1>1, <1>2, <2>1 DEF Sound, OfDecisions, Covering, Rehearsed, NamesNow
    <2>6. OfStep'
      BY <1>1, <2>1
         DEF Sound, OfStep, Reports, Probed, Reconsidered, InHand, NamesNow, Current
    <2> QED
      BY <2>4, <2>5, <2>6 DEF OfDecisions
  <1> QED
    BY <1>3, <1>4, <1>5 DEF Cancel, vars, server, edits

LEMMA StepSound == Sound /\ [Next]_vars => Sound'
  <1> SUFFICES ASSUME Sound, [Next]_vars PROVE Sound'
    OBVIOUS
  <1>1. Tallied'
    BY StepTallied DEF Sound
  <1>2. OfDecisions' /\ OfStep'
    <2>1. CASE RunStep
      <3>1. Issued => (Issued /\ conf.staging) \/ (Issued /\ ~conf.staging)
        OBVIOUS
      <3> QED
        BY <2>1, <3>1, LeavesSound, ReadAliasesSound, ReadSettingsSound, ProbesSound,
           PassesSound, ReconsiderSound, PhasesSound, RenewalSound DEF RunStep
    <2>2. CASE Cancel \/ AddAlias \/ DisablePKI \/ UNCHANGED vars
      BY <2>2, EnvironmentSound
    <2> QED
      BY <2>1, <2>2 DEF Next, Exited
  <1> QED
    BY <1>1, <1>2 DEF Sound

LEMMA InitSound == Init => Sound
  <1> SUFFICES ASSUME Init PROVE Sound
    OBVIOUS
  <1>1. Tallied
    BY InitTallied
  <1>2. Chosen = {} /\ Ready = {} /\ orders = {}
    BY NothingInEmpty DEF Init, Chosen, Ready
  <1>3. OfDecisions
    BY <1>2 DEF OfDecisions, Willing, Covering, Rehearsed
  <1>4. OfStep
    BY DEF Init, OfStep, Reports, Probed, Reconsidered, InHand
  <1> QED
    BY <1>1, <1>3, <1>4 DEF Sound

LEMMA AlwaysSound == Spec => []Sound
  BY InitSound, StepSound, PTL DEF Spec

-------------------------------------------------------------------------------
\* Nothing is ordered that the rehearsal of this run did not find answering,
\* whatever the second check reads, unless it appeared while the run was at work.
THEOREM OrdersAreRehearsed == Spec => []OrdersOnlyRehearsed
  <1>1. Sound => OrdersOnlyRehearsed
    BY DEF Sound, OfDecisions, Rehearsed, OrdersOnlyRehearsed
  <1> QED
    BY <1>1, AlwaysSound, PTL

CertificatesStay == conf.staging => \A d \in Domain : settings'[d].cert = settings[d].cert
DisabledStay ==
    \A d \in Domain \ disabled : settings[d].certType = "NO" => settings'[d] = settings[d]

\* Who changes settings, and how.
LEMMA SettingsStep ==
    ASSUME Sound, [Next]_vars
    PROVE  \/ settings' = settings
           \/ Install /\ Current \in Domain /\ todo # <<>> /\ phase = "renew"
           \/ \E d \in Domain : settings' = [settings EXCEPT ![d].certType = "NO"]
  <1>1. CASE Install
    BY <1>1, CurrentTyped DEF Install, At, Sound, Tallied, StepsInPhase
  <1>2. CASE DisablePKI
    BY <1>2, RunAssumption DEF DisablePKI
  <1>3. CASE UNCHANGED settings
    BY <1>3
  <1> QED
    BY <1>1, <1>2, <1>3
       DEF Next, RunStep, SkipExcluded, ReadAliases, ReadSettings, DomainFails, StartRehearsal,
           ProbeName, ProbeInterrupted, RehearsalBlocks, RehearsalPasses, Reconsider, FinishPass,
           NewACMEClient, FinishRun, PlaceOrder, Issued, RenewFails, Cancel, AddAlias, Exited,
           vars, server

\* A staging run leaves every certificate where it is, on every path.
THEOREM StagingInstallsNothing == Spec => StagingTouchesNothing
  <1>1. Sound /\ [Next]_vars => [CertificatesStay]_vars
    <2> SUFFICES ASSUME Sound, [Next]_vars, conf.staging
                 PROVE  \A d \in Domain : settings'[d].cert = settings[d].cert
      BY DEF CertificatesStay
    <2>1. ~Install
      BY DEF Install, At, Sound, OfStep, Reports
    <2>2. ASSUME NEW d \in Domain, settings' = [settings EXCEPT ![d].certType = "NO"]
          PROVE  \A e \in Domain : settings'[e].cert = settings[e].cert
      BY <2>2 DEF Sound, Tallied, TypeOK, Settings
    <2> QED
      BY <2>1, <2>2, SettingsStep
  <1> QED
    BY <1>1, AlwaysSound, PTL DEF Spec, StagingTouchesNothing, CertificatesStay

\* PKI Services found disabled stay disabled, with --force and after a rehearsal.
THEOREM DisabledIsRespected == Spec => DisabledStaysDisabled
  <1>1. Sound /\ [Next]_vars => [DisabledStay]_vars
    <2> SUFFICES ASSUME Sound, [Next]_vars,
                        NEW d \in Domain \ disabled, settings[d].certType = "NO"
                 PROVE  settings'[d] = settings[d]
      BY DEF DisabledStay
    <2>1. CASE Install /\ Current \in Domain /\ todo # <<>> /\ phase = "renew"
      <3>1. Current # d
        BY <2>1, HeadIsElement DEF Sound, Tallied, OfDecisions, Willing, Chosen, Current
      <3> QED
        BY <2>1, <3>1 DEF Install, Sound, Tallied, TypeOK
    <2>2. CASE \E e \in Domain : settings' = [settings EXCEPT ![e].certType = "NO"]
      <3>1. PICK e \in Domain : settings' = [settings EXCEPT ![e].certType = "NO"]
        BY <2>2
      <3>2. settings[d] \in Settings /\ settings \in [Domain -> Settings]
        BY DEF Sound, Tallied, TypeOK
      <3>3. [settings[d] EXCEPT !.certType = "NO"] = settings[d]
        BY <3>2 DEF Settings
      <3> QED
        BY <3>1, <3>2, <3>3
    <2> QED
      BY <2>1, <2>2, SettingsStep
  <1> QED
    BY <1>1, AlwaysSound, PTL DEF Spec, DisabledStaysDisabled, DisabledStay

-------------------------------------------------------------------------------
(* That a run ends at all: no step of it goes back. *)

\* One decision fewer in a phase that goes on.
LEMMA FewerAdvances ==
    ASSUME Tallied, todo # <<>>, Conclude, phase' = phase
    PROVE  Advances
  <1>1. Len(todo) \in Nat /\ Len(todo') = Len(todo) - 1
    BY LengthsTyped, ConcludeTakesOne DEF Tallied
  <1> QED
    BY <1>1 DEF Advances

LEMMA StepAdvances ==
    ASSUME Tallied, RunStep
    PROVE  Advances
  <1>1. StepsInPhase /\ TypeOK
    BY DEF Tallied
  <1>2. CASE \/ SkipExcluded \/ ReadSettings \/ DomainFails \/ RehearsalBlocks \/ RehearsalPasses
             \/ Install \/ RenewFails
    BY <1>1, <1>2, FewerAdvances
       DEF StepsInPhase, SkipExcluded, ReadSettings, DomainFails, CheckBegins, RehearsalBlocks,
           RehearsalPasses, Install, RenewFails, At
  <1>3. CASE ReadAliases \/ StartRehearsal \/ Reconsider \/ PlaceOrder
    BY <1>1, <1>3 DEF StepsInPhase, ReadAliases, CheckBegins, StartRehearsal, Reconsider, PlaceOrder,
                      At, Advances, StepRank
  <1>4. CASE ProbeName \/ ProbeInterrupted
    BY <1>4 DEF ProbeName, ProbeInterrupted, Advances
  <1>5. CASE Issued
    <2>1. CASE Conclude
      BY <1>1, <1>5, <2>1, FewerAdvances DEF StepsInPhase, Issued, At
    <2>2. CASE step' = "install" /\ UNCHANGED todo
      BY <1>5, <2>2 DEF Issued, At, Advances, StepRank
    <2> QED
      BY <1>5, <2>1, <2>2 DEF Issued
  <1>6. CASE FinishPass \/ NewACMEClient \/ FinishRun
    BY <1>6 DEF FinishPass, NewACMEClient, FinishRun, Advances, PhaseRank
  <1> QED
    BY <1>2, <1>3, <1>4, <1>5, <1>6 DEF RunStep

Onward == RunStep => Advances

\* No step of a run undoes another, and none leaves the run where it was
\* (main.go 288-375, selftest.go 348-381).
THEOREM EveryStepAdvances == Spec => RunAdvances
  <1>1. Tallied /\ [Next]_vars => [Onward]_vars
    BY StepAdvances DEF Onward
  <1> QED
    BY <1>1, AlwaysTallied, PTL DEF Spec, RunAdvances, Onward

-------------------------------------------------------------------------------
\* Once a name that answers every time is blamed, the signal is there to stay.
BlamedInVain == (blamed \cap answers) \ Unsteady # {} => ctx = "done"
BlameStep == (blamed' \cap answers) \ Unsteady # {} => ctx' = "done" /\ orders' = orders

\* A name that answers every time is only blamed by a signal, and then nothing is ordered.
THEOREM BlameTakesASignal == Spec => BlameNeedsSignal
  <1>1. Init => BlamedInVain
    BY DEF Init, BlamedInVain
  <1>2. BlamedInVain /\ [Next]_vars => BlamedInVain' /\ [BlameStep]_vars
    <2> SUFFICES ASSUME BlamedInVain, [Next]_vars PROVE BlamedInVain' /\ BlameStep
      OBVIOUS
    <2>1. CASE ProbeName
      BY <2>1 DEF ProbeName, Verdicts, Probing, BlamedInVain, BlameStep, fixed
    <2>2. CASE ProbeInterrupted
      BY <2>2 DEF ProbeInterrupted, BlamedInVain, BlameStep, fixed
    <2>3. CASE PlaceOrder
      BY <2>3 DEF PlaceOrder, BlamedInVain, BlameStep, fixed
    <2>4. CASE Cancel
      BY <2>4 DEF Cancel, BlamedInVain, BlameStep, fixed, run
    <2>5. CASE UNCHANGED <<blamed, ctx, orders, answers>>
      BY <2>5 DEF BlamedInVain, BlameStep
    <2> QED
      BY <2>1, <2>2, <2>3, <2>4, <2>5
         DEF Next, RunStep, SkipExcluded, ReadAliases, ReadSettings, DomainFails, StartRehearsal,
             RehearsalBlocks, RehearsalPasses, Reconsider, FinishPass, NewACMEClient, FinishRun,
             Issued, Install, RenewFails, AddAlias, DisablePKI, Exited, vars, run, fixed
  <1> QED
    BY <1>1, <1>2, PTL DEF Spec, BlameNeedsSignal, BlameStep

-------------------------------------------------------------------------------
(***************************************************************************)
(* What a run without a failure leaves behind: every domain of its list is *)
(* still before it, or in order, and what is in order stays so while the   *)
(* exclusions grow and the domain may come up a second time.               *)
(***************************************************************************)
InOrder(d) == Verdict(NamesNow(d), settings[d], FALSE) \in {"skipped", "current"}
Orderly == {d \in Domain : InOrder(d)}
Pending == {o.domain : o \in Elements(todo) \cup Elements(kept)}
Wanted == {list[i] : i \in 1..Len(list)} \ conf.exclude

Smooth == /\ unchecked = 0 /\ blocked = 0 /\ failed = 0
          /\ ~conf.staging /\ added = {} /\ RenewBefore <= Lifetime

FirstLook == phase = "check" => excluded = conf.exclude
Accounted == Smooth => Wanted \subseteq Pending \cup Orderly
Settling == Sound /\ FirstLook /\ Accounted

\* What is in order for more names is in order for fewer.
LEMMA OrderStays ==
    ASSUME settings' = settings, \A d \in Domain : NamesNow(d)' \subseteq NamesNow(d)
    PROVE  Orderly \subseteq Orderly'
  <1> SUFFICES ASSUME NEW d \in Domain, InOrder(d) PROVE InOrder(d)'
    BY DEF Orderly
  <1>1. NamesNow(d)' \subseteq NamesNow(d) /\ settings'[d] = settings[d]
    OBVIOUS
  <1>2. Verdict(NamesNow(d), settings[d], FALSE) \in {"skipped", "current"}
    BY DEF InOrder
  <1>3. Verdict(NamesNow(d)', settings[d], FALSE) \in {"skipped", "current"}
    BY <1>1, <1>2 DEF Verdict, CertificateDue
  <1> QED
    BY <1>1, <1>3 DEF InOrder

LEMMA OrderUnchanged ==
    ASSUME UNCHANGED <<aliases, settings>>, excluded \subseteq excluded'
    PROVE  Orderly \subseteq Orderly'
  <1>1. \A d \in Domain : NamesNow(d)' \subseteq NamesNow(d)
    BY ExcludingNarrows DEF NamesNow
  <1> QED
    BY <1>1, OrderStays

\* The end of a turn takes one domain off those before the run.
LEMMA TurnTakesOne ==
    ASSUME TypeOK, todo # <<>>, Conclude,
           kept' = kept \/ \E o \in Decisions : kept' = Append(kept, o) /\ o.domain = Current
    PROVE  /\ Pending \subseteq Pending' \cup {Current}
           /\ kept' # kept => Pending \subseteq Pending'
  <1>1. /\ todo' = Tail(todo) /\ Len(todo) \in Nat \ {0} /\ Len(Tail(todo)) = Len(todo) - 1
        /\ \A i \in 1..Len(Tail(todo)) : Tail(todo)[i] = todo[i + 1]
        /\ Head(todo) = todo[1]
    BY HeadTailProperties, LenProperties, EmptySeq DEF TypeOK, Conclude
  <1>2. Elements(todo) \subseteq Elements(todo') \cup {Head(todo)}
    <2> SUFFICES ASSUME NEW i \in 1..Len(todo), i # 1 PROVE todo[i] \in Elements(todo')
      BY <1>1 DEF Elements
    <2>1. i - 1 \in 1..Len(todo') /\ todo'[i - 1] = todo[(i - 1) + 1] /\ (i - 1) + 1 = i
      BY <1>1
    <2> QED
      BY <2>1 DEF Elements
  <1>3. CASE kept' = kept
    BY <1>2, <1>3 DEF Pending, Current
  <1>4. CASE \E o \in Decisions : kept' = Append(kept, o) /\ o.domain = Current
    <2>1. PICK o \in Decisions : kept' = Append(kept, o) /\ o.domain = Current
      BY <1>4
    <2>2. /\ Len(kept) \in Nat /\ Len(kept') = Len(kept) + 1 /\ kept'[Len(kept) + 1] = o
          /\ \A i \in 1..Len(kept) : kept'[i] = kept[i]
      BY <2>1, AppendProperties, LenProperties DEF TypeOK
    <2>3. Elements(kept) \cup {o} \subseteq Elements(kept')
      BY <2>2 DEF Elements
    <2> QED
      BY <1>2, <2>1, <2>3 DEF Pending, Current
  <1> QED
    BY <1>3, <1>4

\* Failures, late aliases and the configuration do not go away.
LEMMA SmoothBefore ==
    ASSUME Sound, [Next]_vars
    PROVE  UNCHANGED <<list, conf>> /\ (Smooth' => Smooth)
  <1>1. UNCHANGED <<list, conf>>
    BY DEF Next, RunStep, SkipExcluded, ReadAliases, ReadSettings, DomainFails, StartRehearsal,
           ProbeName, ProbeInterrupted, RehearsalBlocks, RehearsalPasses, Reconsider, FinishPass,
           NewACMEClient, FinishRun, PlaceOrder, Issued, Install, RenewFails, Cancel, AddAlias,
           DisablePKI, Exited, vars, fixed
  <1>2. added \subseteq added'
    BY DEF Next, RunStep, SkipExcluded, ReadAliases, ReadSettings, DomainFails, StartRehearsal,
           ProbeName, ProbeInterrupted, RehearsalBlocks, RehearsalPasses, Reconsider, FinishPass,
           NewACMEClient, FinishRun, PlaceOrder, Issued, Install, RenewFails, Cancel, AddAlias,
           DisablePKI, Exited, vars, edits
  <1>3. /\ unchecked' \in {unchecked, unchecked + 1} /\ blocked' \in {blocked, blocked + 1}
        /\ failed' \in {failed, failed + 1}
    BY DEF Next, RunStep, SkipExcluded, ReadAliases, ReadSettings, DomainFails, StartRehearsal,
           ProbeName, ProbeInterrupted, RehearsalBlocks, RehearsalPasses, Reconsider, FinishPass,
           NewACMEClient, FinishRun, PlaceOrder, Issued, Install, RenewFails, Cancel, AddAlias,
           DisablePKI, Exited, vars, tally, run
  <1>4. unchecked \in Nat /\ blocked \in Nat /\ failed \in Nat
    BY DEF Sound, Tallied, TypeOK
  <1> QED
    BY <1>1, <1>2, <1>3, <1>4 DEF Smooth

\* A step at whose end nobody before the run was lost.
LEMMA StillAccounted ==
    ASSUME Settling, [Next]_vars, Smooth' => Orderly \subseteq Orderly',
           Smooth' => Pending \subseteq Pending' \cup Orderly' \cup conf.exclude
    PROVE  Accounted'
  <1> SUFFICES ASSUME Smooth' PROVE Wanted' \subseteq (Pending \cup Orderly)'
    BY DEF Accounted
  <1>1. Smooth /\ list' = list /\ conf' = conf
    BY SmoothBefore DEF Settling
  <1>2. Wanted' = Wanted
    BY <1>1 DEF Wanted
  <1>3. Wanted \subseteq Pending \cup Orderly /\ Wanted \cap conf.exclude = {}
    BY <1>1 DEF Settling, Accounted, Wanted
  <1> QED
    BY <1>2, <1>3

\* The turn of a domain that is in order, or excluded, ends.
LEMMA TurnAccounted ==
    ASSUME Settling, [Next]_vars, todo # <<>>, Conclude, kept' = kept,
           Smooth' => Orderly \subseteq Orderly',
           Smooth' => Current \in Orderly' \cup conf.exclude
    PROVE  Accounted'
  <1>1. Pending \subseteq Pending' \cup {Current}
    BY TurnTakesOne DEF Settling, Sound, Tallied
  <1> QED
    BY <1>1, StillAccounted

\* The domains that are counted, one way or the other.
LEMMA CountedAccounted ==
    ASSUME Settling, SkipExcluded \/ ReadSettings \/ DomainFails \/ RehearsalBlocks \/ RenewFails
    PROVE  Accounted' /\ FirstLook'
  <1>a. [Next]_vars
    BY DEF Next, RunStep
  <1>b. TypeOK /\ Sound /\ Tallied
    BY DEF Settling, Sound, Tallied
  <1>1. /\ todo # <<>> /\ Conclude
        /\ UNCHANGED <<aliases, settings, excluded, phase, conf, added>>
    BY <1>b DEF Tallied, StepsInPhase, At, CheckBegins, SkipExcluded, ReadSettings, DomainFails,
                RehearsalBlocks, RenewFails, server, fixed, edits
  <1>2. Orderly \subseteq Orderly'
    BY <1>1, OrderUnchanged
  <1>3. FirstLook'
    BY <1>1 DEF Settling, FirstLook
  <1>4. CASE SkipExcluded
    <2>1. Current \in conf.exclude /\ kept' = kept
      BY <1>4 DEF SkipExcluded, At, Settling, FirstLook
    <2> QED
      BY <1>a, <1>1, <1>2, <1>3, <2>1, TurnAccounted
  <1>5. CASE DomainFails \/ RehearsalBlocks \/ RenewFails
    <2>1. ~Smooth'
      BY <1>5, <1>b DEF DomainFails, RehearsalBlocks, RenewFails, Smooth, TypeOK
    <2> QED
      BY <1>3, <2>1 DEF Accounted
  <1>6. CASE ReadSettings /\ kept' = kept
    <2>1. ASSUME Smooth' PROVE Current \in Orderly
      <3>1. added = {}
        BY <1>1, <2>1 DEF Smooth
      <3>2. Current \in Domain
        BY <1>1, <1>b, CurrentTyped
      <3>3. NamesNow(Current) \subseteq sans
        BY <1>6, <1>b, <3>1 DEF ReadSettings, Sound, OfStep, InHand
      <3>4. Verdict(sans, settings[Current], Forced) \in {"skipped", "current"}
        <4>1. Len(kept) \in Nat /\ Len(Append(kept, [domain |-> Current, sans |-> sans])) = Len(kept) + 1
          <5>1. [domain |-> Current, sans |-> sans] \in Decisions
            BY <1>b, <3>2 DEF Decisions, TypeOK
          <5> QED
            BY <1>b, <5>1, AppendProperties, LenProperties DEF TypeOK
        <4> QED
          BY <1>6, <4>1 DEF ReadSettings
      <3>5. Verdict(NamesNow(Current), settings[Current], FALSE) \in {"skipped", "current"}
        BY <3>3, <3>4 DEF Verdict, CertificateDue
      <3> QED
        BY <3>2, <3>5 DEF Orderly, InOrder
    <2> QED
      BY <1>a, <1>1, <1>2, <1>3, <1>6, <2>1, TurnAccounted
  <1>7. CASE ReadSettings /\ kept' # kept
    <2>1. kept' = Append(kept, [domain |-> Current, sans |-> sans])
      BY <1>7 DEF ReadSettings
    <2>2. [domain |-> Current, sans |-> sans] \in Decisions
      BY <1>1, <1>b, CurrentTyped DEF Decisions, TypeOK
    <2>3. \E o \in Decisions : kept' = Append(kept, o) /\ o.domain = Current
      BY <2>1, <2>2
    <2>4. Pending \subseteq Pending'
      BY <1>1, <1>7, <1>b, <2>3, TurnTakesOne
    <2> QED
      BY <1>a, <1>2, <1>3, <2>4, StillAccounted
  <1> QED
    BY <1>4, <1>5, <1>6, <1>7

\* A domain that gets its certificate is in order, and no other is disturbed.
LEMMA InstallAccounted ==
    ASSUME Settling, Install
    PROVE  Accounted' /\ FirstLook'
  <1>a. [Next]_vars
    BY DEF Next, RunStep
  <1>b. TypeOK /\ Sound
    BY DEF Settling, Sound, Tallied
  <1>1. /\ todo # <<>> /\ Conclude /\ phase = "renew" /\ kept' = kept
        /\ settings' = [settings EXCEPT ![Current] = Installed(Current, Head(todo).sans)]
        /\ UNCHANGED <<aliases, excluded, phase, conf, added>>
    BY <1>b DEF Sound, Tallied, StepsInPhase, Install, At, fixed, edits
  <1>2. Current \in Domain /\ settings \in [Domain -> Settings] /\ Head(todo).sans \in SUBSET Name
    BY <1>1, <1>b, CurrentTyped DEF TypeOK
  <1>3. \A d : NamesNow(d)' = NamesNow(d)
    BY <1>1 DEF NamesNow
  <1>4. ASSUME Smooth' PROVE Current \in Orderly'
    <2> DEFINE names == Head(todo).sans
               cert == [names |-> names, lifetime |-> Lifetime, left |-> Lifetime]
    <2>1. NamesNow(Current) \subseteq names
      BY <1>1, <1>4, <1>b, HeadIsElement DEF Smooth, Sound, OfDecisions, Covering, Chosen, Current
    <2>2. Lifetime \in Nat /\ RenewBefore <= Lifetime
      BY <1>4, RunAssumption DEF Smooth
    <2>3. ~(Lifetime < RenewalThreshold(Lifetime))
      BY <2>2, ThresholdWithin
    <2>4. cert \in Certificate /\ cert # NoCert /\ cert # Garbled
      BY <1>2, <2>2, DecisionAssumption DEF Certificate
    <2>5. Verdict(names, [certType |-> "YES", cert |-> cert], FALSE) = "current"
      BY <2>3, <2>4 DEF Verdict, CertificateDue
    <2>6. Verdict(NamesNow(Current), [certType |-> "YES", cert |-> cert], FALSE)
            \in {"skipped", "current"}
      BY <2>1, <2>5 DEF Verdict, CertificateDue
    <2>7. settings'[Current] = [certType |-> "YES", cert |-> cert]
      BY <1>1, <1>2 DEF Installed
    <2>8. \A d : d = Current => InOrder(d)'
      BY <1>3, <2>6, <2>7 DEF InOrder
    <2> QED
      BY <1>2, <2>8 DEF Orderly
  <1>5. ASSUME Smooth' PROVE Orderly \subseteq Orderly'
    <2>1. ASSUME NEW d \in Domain, InOrder(d), d # Current PROVE InOrder(d)'
      <3>1. settings'[d] = settings[d]
        BY <1>1, <1>2, <2>1
      <3> QED
        BY <1>3, <2>1, <3>1 DEF InOrder
    <2> QED
      BY <1>4, <1>5, <2>1 DEF Orderly
  <1>6. FirstLook'
    BY <1>1 DEF FirstLook
  <1> QED
    BY <1>a, <1>1, <1>4, <1>5, <1>6, TurnAccounted

\* Steps that neither begin nor end a turn, and the ends of the passes.
LEMMA OthersAccounted ==
    ASSUME Settling, [Next]_vars, ~Install,
           ~(SkipExcluded \/ ReadSettings \/ DomainFails \/ RehearsalBlocks \/ RenewFails)
    PROVE  Accounted' /\ FirstLook'
  <1>b. TypeOK /\ Sound /\ Tallied
    BY DEF Settling, Sound, Tallied
  <1>1. CASE RehearsalPasses
    <2>1. /\ todo # <<>> /\ Conclude /\ kept' = Append(kept, Head(todo))
          /\ UNCHANGED <<aliases, settings, excluded, phase, conf>>
      BY <1>1, <1>b DEF RehearsalPasses, At, Tallied, StepsInPhase, server, fixed
    <2>2. Head(todo) \in Decisions /\ Head(todo).domain = Current
      BY <2>1, <1>b, CurrentTyped DEF Current
    <2>3. \E o \in Decisions : kept' = Append(kept, o) /\ o.domain = Current
      BY <2>1, <2>2
    <2>4. Len(kept) \in Nat /\ Len(kept') = Len(kept) + 1
      BY <2>1, <2>2, <1>b, AppendProperties, LenProperties DEF TypeOK
    <2>5. Pending \subseteq Pending'
      BY <2>1, <2>3, <2>4, <1>b, TurnTakesOne
    <2>6. Orderly \subseteq Orderly'
      BY <2>1, OrderUnchanged
    <2> QED
      BY <2>1, <2>5, <2>6, StillAccounted DEF Settling, FirstLook
  <1>2. CASE Issued /\ conf.staging
    <2>1. UNCHANGED <<conf, phase, excluded>>
      BY <1>2 DEF Issued, fixed
    <2>2. ~Smooth'
      BY <1>2, <2>1 DEF Smooth
    <2> QED
      BY <2>1, <2>2 DEF Accounted, Settling, FirstLook
  <1>3. CASE FinishPass
    <2>1. /\ todo = <<>> /\ todo' = kept /\ kept' = <<>> /\ phase' # "check"
          /\ UNCHANGED <<aliases, settings, excluded, conf>>
      BY <1>3 DEF FinishPass, server, fixed
    <2>2. Pending \subseteq Pending'
      BY <2>1, NothingInEmpty DEF Pending
    <2>3. Orderly \subseteq Orderly'
      BY <2>1, OrderUnchanged
    <2> QED
      BY <2>1, <2>2, <2>3, StillAccounted DEF FirstLook
  <1>4. CASE AddAlias
    <2>1. UNCHANGED <<settings, todo, kept, excluded, phase, conf>>
      BY <1>4 DEF AddAlias, run, fixed
    <2>2. ASSUME Smooth' PROVE \A d \in Domain : NamesNow(d)' \subseteq NamesNow(d)
      <3>1. PICK e \in Domain : \E a \in LateAliases[e] \ aliases[e] :
                /\ aliases' = [aliases EXCEPT ![e] = @ \cup {a}]
                /\ added' = added \cup ({ToASCII[a]} \cap Name)
        BY <1>4 DEF AddAlias
      <3>2. PICK a \in LateAliases[e] :
                /\ aliases' = [aliases EXCEPT ![e] = @ \cup {a}]
                /\ added' = added \cup ({ToASCII[a]} \cap Name)
        BY <3>1
      <3>3. ToASCII[a] \notin Name
        BY <2>2, <3>2 DEF Smooth
      <3>4. ASSUME NEW d \in Domain PROVE NamesNow(d)' \subseteq NamesNow(d)
        <4>1. aliases'[d] = aliases[d] \/ aliases'[d] = aliases[d] \cup {a}
          BY <3>2, <1>b DEF TypeOK
        <4>2. CASE aliases'[d] = aliases[d]
          BY <2>1, <4>2 DEF NamesNow
        <4>3. CASE aliases'[d] = aliases[d] \cup {a}
          BY <2>1, <3>3, <4>3, AliasWidens DEF NamesNow
        <4> QED
          BY <4>1, <4>2, <4>3
      <3> QED
        BY <3>4
    <2>3. Smooth' => Orderly \subseteq Orderly'
      BY <2>1, <2>2, OrderStays
    <2>4. Pending' = Pending
      BY <2>1 DEF Pending
    <2> QED
      BY <2>1, <2>3, <2>4, StillAccounted DEF Settling, FirstLook
  <1>5. CASE DisablePKI
    <2>1. UNCHANGED <<aliases, todo, kept, excluded, phase, conf>>
      BY <1>5 DEF DisablePKI, run, fixed
    <2>2. PICK e \in LateDisable : settings' = [settings EXCEPT ![e].certType = "NO"]
      BY <1>5 DEF DisablePKI
    <2>3. ASSUME NEW d \in Domain, InOrder(d) PROVE InOrder(d)'
      <3>1. settings'[d] = settings[d] \/ settings'[d].certType = "NO"
        BY <2>2, <1>b DEF TypeOK, Settings
      <3>2. NamesNow(d)' = NamesNow(d)
        BY <2>1 DEF NamesNow
      <3>3. CASE settings'[d] = settings[d]
        BY <2>3, <3>2, <3>3 DEF InOrder
      <3>4. CASE settings'[d].certType = "NO"
        BY <3>4 DEF InOrder, Verdict
      <3> QED
        BY <3>1, <3>3, <3>4
    <2>4. Orderly \subseteq Orderly'
      BY <2>3 DEF Orderly
    <2>5. Pending' = Pending
      BY <2>1 DEF Pending
    <2> QED
      BY <2>1, <2>4, <2>5, StillAccounted DEF Settling, FirstLook
  <1>6. CASE \/ ReadAliases \/ StartRehearsal \/ ProbeName \/ ProbeInterrupted \/ Reconsider
             \/ NewACMEClient \/ FinishRun \/ PlaceOrder \/ (Issued /\ ~conf.staging)
             \/ Cancel \/ UNCHANGED vars
    <2>1. /\ UNCHANGED <<aliases, settings, todo, kept, conf>> /\ excluded \subseteq excluded'
          /\ phase' = "check" => phase = "check" /\ excluded' = excluded
      BY <1>6 DEF ReadAliases, StartRehearsal, ProbeName, ProbeInterrupted, Reconsider,
                  NewACMEClient, FinishRun, PlaceOrder, Issued, Cancel, vars, run, server, fixed, At
    <2>2. Orderly \subseteq Orderly' /\ Pending' = Pending
      BY <2>1, OrderUnchanged DEF Pending
    <2> QED
      BY <2>1, <2>2, StillAccounted DEF Settling, FirstLook
  <1> QED
    BY <1>1, <1>2, <1>3, <1>4, <1>5, <1>6 DEF Next, RunStep, Exited

LEMMA StepSettling == Settling /\ [Next]_vars => Settling'
  <1> SUFFICES ASSUME Settling, [Next]_vars PROVE Settling'
    OBVIOUS
  <1>1. Sound'
    BY StepSound DEF Settling
  <1> QED
    BY <1>1, CountedAccounted, InstallAccounted, OthersAccounted DEF Settling

LEMMA InitSettling == Init => Settling
  <1> SUFFICES ASSUME Init PROVE Settling
    OBVIOUS
  <1>1. Sound
    BY InitSound
  <1>2. FirstLook
    BY DEF Init, FirstLook
  <1>3. \A i \in 1..Len(list) : list[i] \in Pending
    <2> SUFFICES ASSUME NEW i \in 1..Len(list)
                 PROVE  \E o \in Elements(todo) : o.domain = list[i]
      BY DEF Pending
    <2>1. todo[i] = [domain |-> list[i], sans |-> {}]
      BY DEF Init
    <2>2. Len(list) \in Nat /\ Len(todo) = Len(list)
      <3>1. Len(list) \in Nat /\ Len(todo) \in Nat /\ DOMAIN todo = 1..Len(todo)
        BY <1>1, LenProperties DEF Sound, Tallied, TypeOK
      <3>2. DOMAIN todo = 1..Len(list)
        BY DEF Init
      <3> QED
        BY <3>1, <3>2
    <2> QED
      BY <2>1, <2>2 DEF Elements
  <1> QED
    BY <1>1, <1>2, <1>3 DEF Settling, Accounted, Wanted

\* A run that exits with 0 leaves every domain of its list in order, by the same
\* decision chain that the next run goes through.
THEOREM SuccessLasts == Spec => []SuccessSettles
  <1>1. Settling => SuccessSettles
    <2> SUFFICES ASSUME Settling, status = "ok", ~conf.staging, added = {}, RenewBefore <= Lifetime,
                        NEW i \in 1..Len(list), list[i] \notin conf.exclude,
                        Convertible(aliases[list[i]], excluded)
                 PROVE  Verdict(CertificateNames(list[i], aliases[list[i]], excluded),
                                settings[list[i]], FALSE) \in {"skipped", "current"}
      BY DEF SuccessSettles
    <2>1. TypeOK /\ Tallied
      BY DEF Settling, Sound, Tallied
    <2>2. /\ Len(list) \in Nat /\ Len(todo) \in Nat /\ Len(kept) \in Nat
          /\ unchecked \in Nat /\ blocked \in Nat /\ failed \in Nat
      BY <2>1, LengthsTyped DEF TypeOK
    <2>3. Len(todo) = 0 /\ Len(kept) = 0 /\ unchecked = 0 /\ blocked = 0 /\ failed = 0
      BY <2>1, <2>2 DEF Tallied, TallyConserved, ZeroMeansAllSettled, TypeOK
    <2>4. todo = <<>> /\ kept = <<>>
      BY <2>1, <2>3, EmptySeq DEF TypeOK
    <2>5. Pending = {}
      BY <2>4, NothingInEmpty DEF Pending
    <2>6. list[i] \in Orderly
      BY <2>3, <2>5 DEF Settling, Accounted, Smooth, Wanted
    <2>7. CertificateNames(list[i], aliases[list[i]], excluded) \in SUBSET Name
      <3>1. list[i] \in Domain
        BY <2>6 DEF Orderly
      <3> QED
        BY <2>1, <3>1, NamesTyped, RunAssumption DEF TypeOK
    <2>8. NamesNow(list[i]) = CertificateNames(list[i], aliases[list[i]], excluded)
      BY <2>7 DEF NamesNow
    <2> QED
      BY <2>6, <2>8 DEF Orderly, InOrder
  <1> QED
    BY <1>1, InitSettling, StepSettling, PTL DEF Spec

-------------------------------------------------------------------------------
(***************************************************************************)
(* What is excluded stays out of the orders: what the operator excluded is *)
(* in no decision from its first day, and what the only rehearsal of a     *)
(* domain found failing is in none by the time orders are placed.  The two *)
(* rehearsals of a domain that is listed twice need not agree.             *)
(***************************************************************************)
\* The decisions whose names are aliases that were not excluded, in either spelling.
Drawn(d, names) ==
    \A n \in names \ {d} :
        /\ n \notin conf.exclude
        /\ \E a \in aliases[d] \ conf.exclude : ToASCII[a] = n
Clear == {o \in Decisions : o.domain \notin conf.exclude /\ Drawn(o.domain, o.sans)}
AtHand == [domain |-> Current, sans |-> sans]

Cleared ==
    /\ conf.exclude \subseteq excluded
    /\ Chosen \cup orders \subseteq Clear
    /\ step = "settings" => AtHand \in Clear

\* Who is blamed, and for what: a name of the decision that is being rehearsed.
Blaming ==
    /\ \A n \in blamed : n \in Domain \/ ToASCII[n] = n
    /\ \A n \in excluded \ conf.exclude : n \in blamed /\ ToASCII[n] = n
    /\ step = "probe" => toProbe \cup bad \subseteq Head(todo).sans /\ bad \subseteq blamed

Excluding == Sound /\ Cleared /\ Blaming

\* Whatever happens, the configuration and the network stay, and the aliases and
\* the exclusions only grow.
LEMMA OnlyGrows ==
    ASSUME Sound, [Next]_vars
    PROVE  /\ UNCHANGED <<conf, list, answers>>
           /\ \A d \in Domain : aliases[d] \subseteq aliases'[d]
           /\ excluded \subseteq excluded'
  <1>1. UNCHANGED <<conf, list, answers>>
    BY DEF Next, RunStep, SkipExcluded, ReadAliases, ReadSettings, DomainFails, StartRehearsal,
           ProbeName, ProbeInterrupted, RehearsalBlocks, RehearsalPasses, Reconsider, FinishPass,
           NewACMEClient, FinishRun, PlaceOrder, Issued, Install, RenewFails, Cancel, AddAlias,
           DisablePKI, Exited, vars, fixed
  <1>2. \A d \in Domain : aliases[d] \subseteq aliases'[d]
    <2>1. CASE AddAlias
      <3>1. PICK e \in Domain : \E a \in LateAliases[e] \ aliases[e] :
                aliases' = [aliases EXCEPT ![e] = @ \cup {a}]
        BY <2>1 DEF AddAlias
      <3> QED
        BY <3>1 DEF Sound, Tallied, TypeOK
    <2>2. CASE UNCHANGED aliases
      BY <2>2
    <2> QED
      BY <2>1, <2>2
         DEF Next, RunStep, SkipExcluded, ReadAliases, ReadSettings, DomainFails, StartRehearsal,
             ProbeName, ProbeInterrupted, RehearsalBlocks, RehearsalPasses, Reconsider, FinishPass,
             NewACMEClient, FinishRun, PlaceOrder, Issued, Install, RenewFails, Cancel,
             DisablePKI, Exited, vars, server
  <1>3. excluded \subseteq excluded'
    BY DEF Next, RunStep, SkipExcluded, ReadAliases, ReadSettings, DomainFails, StartRehearsal,
           ProbeName, ProbeInterrupted, RehearsalBlocks, RehearsalPasses, Reconsider, FinishPass,
           NewACMEClient, FinishRun, PlaceOrder, Issued, Install, RenewFails, Cancel, AddAlias,
           DisablePKI, Exited, vars, run
  <1> QED
    BY <1>1, <1>2, <1>3

LEMMA ClearGrows ==
    ASSUME Sound, [Next]_vars
    PROVE  Clear \subseteq Clear'
  <1>1. conf' = conf /\ \A d \in Domain : aliases[d] \subseteq aliases'[d]
    BY OnlyGrows
  <1> QED
    BY <1>1 DEF Clear, Drawn, Decisions

\* A decision is chosen when checkDomain has made it, and comes from nowhere else.
LEMMA ChosenStep ==
    ASSUME Sound, [Next]_vars
    PROVE  /\ Chosen' \subseteq Chosen \cup (IF step = "settings" THEN {AtHand} ELSE {})
           /\ orders' \subseteq orders \cup Chosen
           /\ orders' # orders => PlaceOrder
  <1> DEFINE Turn == Conclude /\ todo # <<>> /\ phase' = phase /\ kept' = kept /\ orders' = orders
             Idle == UNCHANGED <<todo, kept, orders>> /\ (phase' = "check" <=> phase = "check")
  <1>a. TypeOK /\ StepsInPhase
    BY DEF Sound, Tallied
  <1>1. CASE Turn
    <2>1. Elements(todo') \subseteq Elements(todo)
      BY <1>a, <1>1, ConcludeKeepsRest
    <2> QED
      BY <1>1, <2>1 DEF Chosen
  <1>2. CASE ReadSettings /\ kept' # kept
    <2>1. /\ step = "settings" /\ todo # <<>> /\ Conclude /\ phase' = phase /\ orders' = orders
          /\ kept' = Append(kept, AtHand)
      BY <1>a, <1>2 DEF ReadSettings, StepsInPhase, AtHand
    <2>2. AtHand \in Decisions
      BY <1>a, <2>1, CurrentTyped DEF AtHand, Decisions, TypeOK
    <2>3. Elements(todo') \subseteq Elements(todo) /\ Elements(kept') \subseteq Elements(kept) \cup {AtHand}
      BY <1>a, <2>1, <2>2, ConcludeKeepsRest, AppendAddsOne
    <2> QED
      BY <2>1, <2>3 DEF Chosen
  <1>3. CASE RehearsalPasses
    <2>1. /\ todo # <<>> /\ Conclude /\ phase = "rehearse" /\ phase' = phase /\ orders' = orders
          /\ kept' = Append(kept, Head(todo))
      BY <1>a, <1>3 DEF RehearsalPasses, At, StepsInPhase
    <2>2. Head(todo) \in Decisions /\ Head(todo) \in Elements(todo)
      BY <1>a, <2>1, CurrentTyped, HeadIsElement
    <2>3. Elements(todo') \subseteq Elements(todo) /\ Elements(kept') \subseteq Elements(kept) \cup {Head(todo)}
      BY <1>a, <2>1, <2>2, ConcludeKeepsRest, AppendAddsOne
    <2> QED
      BY <2>1, <2>2, <2>3 DEF Chosen
  <1>4. CASE PlaceOrder
    <2>1. /\ todo # <<>> /\ phase = "renew" /\ UNCHANGED <<todo, kept, phase>>
          /\ orders' = orders \cup {Head(todo)}
      BY <1>4 DEF PlaceOrder, At
    <2> QED
      BY <1>4, <1>a, <2>1, HeadIsElement DEF Chosen
  <1>5. CASE FinishPass
    <2>1. /\ todo = <<>> /\ todo' = kept /\ kept' = <<>> /\ orders' = orders
      BY <1>5 DEF FinishPass
    <2> QED
      BY <2>1, NothingInEmpty DEF Chosen
  <1>6. CASE Idle
    BY <1>6 DEF Chosen
  <1>7. SkipExcluded \/ DomainFails \/ RehearsalBlocks \/ RenewFails \/ Install => Turn
    BY <1>a DEF SkipExcluded, DomainFails, RehearsalBlocks, RenewFails, Install, CheckBegins, At, StepsInPhase
  <1>8. ReadSettings /\ kept' = kept => Turn
    BY <1>a DEF ReadSettings, StepsInPhase
  <1>9. Issued => Turn \/ Idle
    BY <1>a DEF Issued, At, StepsInPhase
  <1>10. (\/ ReadAliases \/ StartRehearsal \/ ProbeName \/ ProbeInterrupted \/ Reconsider
          \/ NewACMEClient \/ FinishRun \/ Cancel \/ AddAlias \/ DisablePKI \/ UNCHANGED vars)
         => Idle
    BY DEF ReadAliases, StartRehearsal, ProbeName, ProbeInterrupted, Reconsider,
           NewACMEClient, FinishRun, Cancel, AddAlias, DisablePKI, vars, run
  <1> HIDE DEF Turn, Idle
  <1>11. Turn \/ Idle \/ (ReadSettings /\ kept' # kept) \/ RehearsalPasses \/ PlaceOrder \/ FinishPass
    BY <1>7, <1>8, <1>9, <1>10 DEF Next, RunStep, Exited
  <1> QED
    BY <1>1, <1>2, <1>3, <1>4, <1>5, <1>6, <1>11

\* Only checkDomain has anything in hand.
LEMMA AtHandStep ==
    ASSUME Sound, [Next]_vars, step' = "settings", ~ReadAliases
    PROVE  step = "settings" /\ AtHand' = AtHand
  <1>1. step = "settings" /\ UNCHANGED <<todo, sans>>
    BY DEF Next, RunStep, SkipExcluded, ReadSettings, DomainFails, StartRehearsal,
           ProbeName, ProbeInterrupted, RehearsalBlocks, RehearsalPasses, Reconsider, FinishPass,
           NewACMEClient, FinishRun, PlaceOrder, Issued, Install, RenewFails, Cancel, AddAlias,
           DisablePKI, Exited, vars, run, Conclude, At
  <1> QED
    BY <1>1 DEF AtHand, Current

\* The names checkDomain reads are of aliases that are not excluded.
LEMMA ReadClear ==
    ASSUME Sound, Cleared, ReadAliases
    PROVE  AtHand' \in Clear'
  <1>a. TypeOK /\ StepsInPhase /\ conf.exclude \subseteq excluded
    BY DEF Sound, Tallied, Cleared
  <1>1. /\ todo # <<>> /\ UNCHANGED <<todo, aliases, conf>>
        /\ sans' = CertificateNames(Current, aliases[Current], excluded)
        /\ Current' = Current
    BY <1>a DEF ReadAliases, CheckBegins, At, StepsInPhase, server, fixed, Current
  <1>2. Current \notin conf.exclude
    <2>1. CASE phase = "check"
      BY <1>a, <2>1 DEF ReadAliases, CheckBegins, At
    <2>2. CASE phase # "check"
      <3>1. Head(todo) \in Chosen
        BY <1>a, <1>1, <2>2, HeadIsElement DEF Chosen
      <3> QED
        BY <3>1 DEF Cleared, Clear, Current
    <2> QED
      BY <2>1, <2>2
  <1>3. Current \in Domain /\ aliases[Current] \in SUBSET Name /\ excluded \in SUBSET Name
    BY <1>a, <1>1, CurrentTyped DEF TypeOK
  <1>4. sans' \in SUBSET Name
    BY <1>1, <1>3, NamesTyped, RunAssumption DEF ReadAliases
  <1>5. Drawn(Current, sans')
    BY <1>a, <1>1 DEF Drawn, CertificateNames, AliasNames
  <1>6. [domain |-> Current, sans |-> sans'] \in Decisions
    BY <1>3, <1>4 DEF Decisions
  <1> QED
    BY <1>1, <1>2, <1>5, <1>6 DEF AtHand, Clear, Drawn

LEMMA StepCleared == Sound /\ Cleared /\ [Next]_vars => Cleared'
  <1> SUFFICES ASSUME Sound, Cleared, [Next]_vars PROVE Cleared'
    OBVIOUS
  <1>1. conf.exclude \subseteq excluded /\ conf' = conf /\ excluded \subseteq excluded'
    BY OnlyGrows DEF Cleared
  <1>2. Clear \subseteq Clear'
    BY ClearGrows
  <1>3. Chosen' \cup orders' \subseteq Clear'
    BY <1>2, ChosenStep DEF Cleared
  <1>4. step' = "settings" => AtHand' \in Clear'
    BY <1>2, AtHandStep, ReadClear DEF Cleared
  <1> QED
    BY <1>1, <1>3, <1>4 DEF Cleared

\* What a probe blames, and what becomes of the blame.
LEMMA StepBlaming == Excluding /\ [Next]_vars => Blaming'
  <1> SUFFICES ASSUME Excluding, [Next]_vars PROVE Blaming'
    OBVIOUS
  <1>a. TypeOK /\ StepsInPhase /\ Sound /\ Cleared /\ Blaming
    BY DEF Excluding, Sound, Tallied
  <1>b. answers' = answers /\ conf' = conf
    BY <1>a, OnlyGrows
  <1>1. CASE ProbeName \/ ProbeInterrupted
    <2>1. PICK n \in toProbe :
            /\ toProbe' = toProbe \ {n}
            /\ \/ UNCHANGED <<bad, blamed>>
               \/ bad' = bad \cup {n} /\ blamed' = blamed \cup {n}
      BY <1>1 DEF ProbeName, ProbeInterrupted
    <2>2. /\ phase = "rehearse" /\ step = "probe" /\ todo # <<>>
          /\ UNCHANGED <<todo, step, excluded>>
      BY <1>1, <1>a DEF ProbeName, ProbeInterrupted, Probing, At, StepsInPhase
    <2>3. n \in Head(todo).sans
      BY <1>a, <2>1, <2>2 DEF Blaming
    <2>4. n \in Domain \/ ToASCII[n] = n
      <3>1. Head(todo) \in Clear /\ Head(todo) \in Decisions
        BY <1>a, <2>2, HeadIsElement DEF Chosen, Cleared, Clear
      <3>2. Head(todo).domain \in Domain /\ n \in Name
        BY <2>3, <3>1 DEF Decisions
      <3>3. CASE n # Head(todo).domain
        <4>1. PICK a \in aliases[Head(todo).domain] : ToASCII[a] = n
          BY <2>3, <3>1, <3>3 DEF Clear, Drawn
        <4>2. a \in Name
          BY <1>a, <3>2 DEF TypeOK
        <4> QED
          BY <3>2, <4>1, <4>2, ToASCIIAssumption
      <3> QED
        BY <3>2, <3>3
    <2>5. blamed \subseteq blamed'
      BY <2>1
    <2>6. \A m \in blamed' : m \in Domain \/ ToASCII[m] = m
      BY <1>a, <2>1, <2>4 DEF Blaming
    <2>7. toProbe' \cup bad' \subseteq Head(todo').sans /\ bad' \subseteq blamed'
      BY <1>a, <2>1, <2>2, <2>3 DEF Blaming
    <2> QED
      BY <1>a, <1>b, <2>2, <2>5, <2>6, <2>7 DEF Blaming
  <1>2. CASE Reconsider
    <2>1. /\ phase = "rehearse" /\ step = "probe" /\ todo # <<>> /\ step' = "aliases"
          /\ excluded' = excluded \cup (bad \ {Current})
          /\ blamed' = blamed
      BY <1>2, <1>a DEF Reconsider, BadAliases, At, StepsInPhase
    <2>2. Head(todo) \in Clear /\ Head(todo) \in Decisions
      BY <1>a, <2>1, HeadIsElement DEF Chosen, Cleared, Clear
    <2>3. ASSUME NEW n \in bad \ {Current} PROVE n \in blamed /\ ToASCII[n] = n
      <3>1. n \in Head(todo).sans /\ n \in blamed
        BY <1>a, <2>1, <2>3 DEF Blaming
      <3>2. PICK a \in aliases[Head(todo).domain] : ToASCII[a] = n
        BY <2>2, <2>3, <3>1 DEF Clear, Drawn, Current
      <3>3. a \in Name /\ n \in Name
        BY <1>a, <2>2, <3>1 DEF TypeOK, Decisions
      <3> QED
        BY <3>1, <3>2, <3>3, ToASCIIAssumption
    <2> QED
      BY <1>a, <1>b, <2>1, <2>3 DEF Blaming
  <1>3. CASE StartRehearsal
    <2>1. /\ toProbe' = Head(todo).sans /\ bad' = {} /\ todo' = todo
          /\ UNCHANGED <<blamed, excluded>>
      BY <1>3 DEF StartRehearsal
    <2> QED
      BY <1>a, <1>b, <2>1 DEF Blaming
  <1>4. CASE UNCHANGED <<blamed, excluded>>
             /\ (step' = "probe" => step = "probe" /\ UNCHANGED <<toProbe, bad, todo>>)
    BY <1>a, <1>b, <1>4 DEF Blaming
  <1>5. ~(ProbeName \/ ProbeInterrupted \/ Reconsider \/ StartRehearsal) =>
             /\ UNCHANGED <<blamed, excluded>>
             /\ (step' = "probe" => step = "probe" /\ UNCHANGED <<toProbe, bad, todo>>)
    BY DEF Next, RunStep, SkipExcluded, ReadAliases, ReadSettings, DomainFails,
           RehearsalBlocks, RehearsalPasses, FinishPass, PlaceOrder,
           NewACMEClient, FinishRun, Issued, Install, RenewFails, Cancel, AddAlias,
           DisablePKI, Exited, vars, run, Conclude, At
  <1> QED
    BY <1>1, <1>2, <1>3, <1>4, <1>5

LEMMA InitExcluding == Init => Excluding
  <1> SUFFICES ASSUME Init PROVE Excluding
    OBVIOUS
  <1>1. Sound
    BY InitSound
  <1>2. Chosen = {} /\ orders = {}
    BY NothingInEmpty DEF Init, Chosen
  <1>3. Cleared
    BY <1>2 DEF Init, Cleared
  <1>4. Blaming
    BY <1>2 DEF Init, Blaming
  <1> QED
    BY <1>1, <1>3, <1>4 DEF Excluding

LEMMA StepExcluding == Excluding /\ [Next]_vars => Excluding'
  BY StepSound, StepCleared, StepBlaming DEF Excluding

LEMMA AlwaysExcluding == Spec => []Excluding
  BY InitExcluding, StepExcluding, PTL DEF Spec

\* The aliases of a domain are those it started with and late ones.
Assigned == \E as \in StartAliases : \A d \in Domain : aliases[d] \subseteq as[d] \cup LateAliases[d]

LEMMA AlwaysAssigned == Spec => []Assigned
  <1>1. Init => Assigned
    BY DEF Init, Assigned
  <1>2. Sound /\ Assigned /\ [Next]_vars => Assigned'
    <2> SUFFICES ASSUME Sound, Assigned, [Next]_vars PROVE Assigned'
      OBVIOUS
    <2>1. CASE AddAlias
      <3>1. PICK e \in Domain : \E a \in LateAliases[e] \ aliases[e] :
                aliases' = [aliases EXCEPT ![e] = @ \cup {a}]
        BY <2>1 DEF AddAlias
      <3>2. PICK as \in StartAliases : \A d \in Domain : aliases[d] \subseteq as[d] \cup LateAliases[d]
        BY DEF Assigned
      <3>3. \A d \in Domain : aliases'[d] \subseteq as[d] \cup LateAliases[d]
        BY <3>1, <3>2 DEF Sound, Tallied, TypeOK
      <3> QED
        BY <3>2, <3>3 DEF Assigned
    <2>2. CASE UNCHANGED aliases
      BY <2>2 DEF Assigned
    <2> QED
      BY <2>1, <2>2
         DEF Next, RunStep, SkipExcluded, ReadAliases, ReadSettings, DomainFails, StartRehearsal,
             ProbeName, ProbeInterrupted, RehearsalBlocks, RehearsalPasses, Reconsider, FinishPass,
             NewACMEClient, FinishRun, PlaceOrder, Issued, Install, RenewFails, Cancel,
             DisablePKI, Exited, vars, server
  <1> QED
    BY <1>1, <1>2, AlwaysSound, PTL DEF Spec

-------------------------------------------------------------------------------
(* A domain that is listed once is rehearsed once.                         *)

\* The names of a domain's aliases; no two domains share one.
Forms(d) == {ToASCII[a] : a \in aliases[d]}
Separate ==
    \A d \in Domain :
        /\ Forms(d) \cap Domain = {}
        /\ \A e \in Domain \ {d} : Forms(d) \cap Forms(e) \cap Name = {}

\* Such a domain is before the current phase once, or handed on once.
Singly ==
    \A d \in Domain : ListedOnce(d) =>
        /\ \A i, j \in 1..Len(todo) : todo[i].domain = d /\ todo[j].domain = d => i = j
        /\ \A i, j \in 1..Len(kept) : kept[i].domain = d /\ kept[j].domain = d => i = j
        /\ \A i \in 1..Len(todo), j \in 1..Len(kept) : todo[i].domain = d => kept[j].domain # d

\* The names nothing is known of yet, for the decision at a place of the rehearsal.
Untold(i) == IF i > 1 \/ step = "next" THEN Name ELSE IF step = "probe" THEN toProbe ELSE {}

\* A name of such a domain has one verdict at most.
OneVerdict ==
    /\ phase = "check" => passed = {} /\ blamed = {}
    /\ \A d \in Domain : ListedOnce(d) => Forms(d) \cap passed \cap blamed \subseteq added
    /\ phase = "rehearse" =>
          \A i \in 1..Len(todo) : ListedOnce(todo[i].domain) =>
              Forms(todo[i].domain) \cap Untold(i) \cap (passed \cup blamed) \subseteq added

LEMMA FormsSeparate ==
    ASSUME AliasesDistinct, Assigned
    PROVE  Separate
  <1>1. PICK as \in StartAliases : \A d \in Domain : aliases[d] \subseteq as[d] \cup LateAliases[d]
    BY DEF Assigned
  <1>2. ASSUME NEW d \in Domain, NEW n \in Forms(d) PROVE n \notin Domain
    <2>1. PICK a \in aliases[d] : ToASCII[a] = n
      BY <1>2 DEF Forms
    <2>2. a \in as[d] \cup LateAliases[d]
      BY <1>1, <2>1
    <2> QED
      BY <2>1, <2>2 DEF AliasesDistinct, MayHave
  <1>3. ASSUME NEW d \in Domain, NEW e \in Domain \ {d}, NEW n \in Forms(d) \cap Forms(e) \cap Name
        PROVE  FALSE
    <2>1. PICK a \in aliases[d] : ToASCII[a] = n
      BY <1>3 DEF Forms
    <2>2. PICK b \in aliases[e] : ToASCII[b] = n
      BY <1>3 DEF Forms
    <2>3. a \in MayHave(as, d) /\ b \in MayHave(as, e)
      BY <1>1, <2>1, <2>2 DEF MayHave
    <2>4. ToASCII[a] = ToASCII[b] /\ ToASCII[a] \in Name => a = b /\ d = e
      BY <2>3 DEF AliasesDistinct
    <2> QED
      BY <1>3, <2>1, <2>2, <2>4
  <1> QED
    BY <1>2, <1>3 DEF Separate

\* How the two lists of decisions change: a turn ends, the domain is handed on or
\* not, or a pass does.
Dropped == todo # <<>> /\ Conclude /\ kept' = kept
HandedOver == todo # <<>> /\ Conclude /\ \E o \in Decisions : o.domain = Current /\ kept' = Append(kept, o)
PassOver == FinishPass /\ todo' = kept /\ kept' = <<>>

LEMMA ListsStep ==
    ASSUME TypeOK, StepsInPhase, [Next]_vars
    PROVE  Dropped \/ HandedOver \/ PassOver \/ UNCHANGED <<todo, kept>>
  <1>1. CASE ReadSettings
    <2>1. todo # <<>> /\ Current \in Domain
      BY <1>1, CurrentTyped DEF ReadSettings, StepsInPhase
    <2>2. [domain |-> Current, sans |-> sans] \in Decisions
      BY <2>1 DEF Decisions, TypeOK
    <2> QED
      BY <1>1, <2>1, <2>2 DEF ReadSettings, Dropped, HandedOver
  <1>2. CASE RehearsalPasses
    <2>1. todo # <<>> /\ Head(todo) \in Decisions
      BY <1>2, CurrentTyped DEF RehearsalPasses, At, StepsInPhase
    <2> QED
      BY <1>2, <2>1 DEF RehearsalPasses, HandedOver, Current
  <1>3. CASE SkipExcluded \/ DomainFails \/ RehearsalBlocks \/ RenewFails \/ Install
    BY <1>3 DEF SkipExcluded, DomainFails, RehearsalBlocks, RenewFails, Install, CheckBegins, At,
                StepsInPhase, Dropped
  <1>4. CASE Issued
    BY <1>4 DEF Issued, At, StepsInPhase, Dropped
  <1>5. CASE FinishPass
    BY <1>5 DEF FinishPass, PassOver
  <1>6. CASE \/ ReadAliases \/ StartRehearsal \/ ProbeName \/ ProbeInterrupted \/ Reconsider
             \/ NewACMEClient \/ FinishRun \/ PlaceOrder \/ Cancel \/ AddAlias \/ DisablePKI
             \/ UNCHANGED vars
    BY <1>6 DEF ReadAliases, StartRehearsal, ProbeName, ProbeInterrupted, Reconsider,
           NewACMEClient, FinishRun, PlaceOrder, Cancel, AddAlias, DisablePKI, vars, run
  <1> QED
    BY <1>1, <1>2, <1>3, <1>4, <1>5, <1>6 DEF Next, RunStep, Exited

\* What a turn leaves is what was behind its domain.
LEMMA TailShifts ==
    ASSUME TypeOK, todo # <<>>, Conclude
    PROVE  /\ Len(todo) \in Nat \ {0} /\ Len(todo') = Len(todo) - 1
           /\ \A i \in 1..Len(todo') : i + 1 \in 1..Len(todo) /\ todo'[i] = todo[i + 1]
           /\ Current = todo[1].domain /\ 1 \in 1..Len(todo)
  <1>1. todo \in Seq(Decisions)
    BY DEF TypeOK
  <1>2. /\ Len(todo) \in Nat \ {0} /\ Len(Tail(todo)) = Len(todo) - 1 /\ Head(todo) = todo[1]
        /\ \A i \in 1..Len(Tail(todo)) : Tail(todo)[i] = todo[i + 1]
    BY <1>1, HeadTailProperties, EmptySeq, LenProperties
  <1> QED
    BY <1>2 DEF Conclude, Current

LEMMA StepSingly ==
    ASSUME Excluding, Singly, [Next]_vars
    PROVE  Singly'
  <1>a. TypeOK /\ StepsInPhase /\ list' = list
    BY OnlyGrows DEF Excluding, Sound, Tallied
  <1> SUFFICES ASSUME NEW d \in Domain, ListedOnce(d)
               PROVE /\ \A i, j \in 1..Len(todo') : todo'[i].domain = d /\ todo'[j].domain = d => i = j
                     /\ \A i, j \in 1..Len(kept') : kept'[i].domain = d /\ kept'[j].domain = d => i = j
                     /\ \A i \in 1..Len(todo'), j \in 1..Len(kept') :
                           todo'[i].domain = d => kept'[j].domain # d
    BY <1>a DEF Singly, ListedOnce
  <1>b. /\ \A i, j \in 1..Len(todo) : todo[i].domain = d /\ todo[j].domain = d => i = j
        /\ \A i, j \in 1..Len(kept) : kept[i].domain = d /\ kept[j].domain = d => i = j
        /\ \A i \in 1..Len(todo), j \in 1..Len(kept) : todo[i].domain = d => kept[j].domain # d
    BY DEF Singly
  <1>1. CASE Dropped
    <2>1. kept' = kept /\ Len(todo) \in Nat
          /\ \A i \in 1..Len(todo') : i \in Nat /\ i + 1 \in 1..Len(todo) /\ todo'[i] = todo[i + 1]
      BY <1>a, <1>1, TailShifts DEF Dropped
    <2>2. ASSUME NEW i \in 1..Len(todo'), NEW j \in 1..Len(todo'),
                 todo'[i].domain = d, todo'[j].domain = d
          PROVE  i = j
      <3>1. i + 1 = j + 1
        BY <1>b, <2>1, <2>2
      <3> QED
        BY <2>1, <3>1
    <2>3. \A i \in 1..Len(todo'), j \in 1..Len(kept') : todo'[i].domain = d => kept'[j].domain # d
      BY <1>b, <2>1
    <2> QED
      BY <1>b, <2>1, <2>2, <2>3
  <1>2. CASE HandedOver
    <2>1. PICK o \in Decisions : o.domain = Current /\ kept' = Append(kept, o)
      BY <1>2 DEF HandedOver
    <2>2. /\ Len(todo) \in Nat /\ Current = todo[1].domain /\ 1 \in 1..Len(todo)
          /\ \A i \in 1..Len(todo') : /\ i \in Nat /\ i + 1 \in 1..Len(todo) /\ i + 1 # 1
                                      /\ todo'[i] = todo[i + 1]
      BY <1>a, <1>2, TailShifts DEF HandedOver
    <2>3. Len(kept) \in Nat /\ Len(kept') = Len(kept) + 1
          /\ \A j \in 1..Len(kept') : IF j \in 1..Len(kept) THEN kept'[j] = kept[j]
                                                          ELSE j = Len(kept) + 1 /\ kept'[j] = o
      BY <1>a, <2>1, AppendProperties, LenProperties DEF TypeOK
    <2>4. ASSUME NEW i \in 1..Len(todo'), NEW j \in 1..Len(todo'),
                 todo'[i].domain = d, todo'[j].domain = d
          PROVE  i = j
      <3>1. i + 1 = j + 1
        BY <1>b, <2>2, <2>4
      <3> QED
        BY <2>2, <3>1
    <2>5. ASSUME NEW i \in 1..Len(kept'), NEW j \in 1..Len(kept'),
                 kept'[i].domain = d, kept'[j].domain = d
          PROVE  i = j
      <3>1. CASE i \in 1..Len(kept) /\ j \in 1..Len(kept)
        BY <1>b, <2>3, <2>5, <3>1
      <3>2. CASE o.domain = d
        <4>1. \A k \in 1..Len(kept) : kept[k].domain # d
          BY <1>b, <2>1, <2>2, <3>2
        <4> QED
          BY <2>3, <2>5, <4>1
      <3> QED
        BY <2>3, <2>5, <3>1, <3>2
    <2>6. ASSUME NEW i \in 1..Len(todo'), NEW j \in 1..Len(kept'), todo'[i].domain = d,
                 kept'[j].domain = d
          PROVE  FALSE
      <3>1. CASE j \in 1..Len(kept)
        BY <1>b, <2>2, <2>3, <2>6, <3>1
      <3>2. CASE j \notin 1..Len(kept)
        BY <1>b, <2>1, <2>2, <2>3, <2>6, <3>2
      <3> QED
        BY <3>1, <3>2
    <2> QED
      BY <2>4, <2>5, <2>6
  <1>3. CASE PassOver
    <2>1. todo' = kept /\ Len(kept') = 0
      BY <1>3, EmptySeq DEF PassOver
    <2> QED
      BY <1>b, <2>1
  <1>4. CASE UNCHANGED <<todo, kept>>
    BY <1>b, <1>4
  <1> QED
    BY <1>a, <1>1, <1>2, <1>3, <1>4, ListsStep

\* Steps that probe nothing leave it at what was known.
LEMMA NothingTold ==
    ASSUME OneVerdict, UNCHANGED <<aliases, list, passed, blamed, added>>,
           phase' = "check" => phase = "check",
           phase' = "rehearse" => \/ phase = "check"
                                  \/ /\ phase = "rehearse"
                                     /\ \A i \in 1..Len(todo') : \E j \in 1..Len(todo) :
                                           /\ todo'[i].domain = todo[j].domain
                                           /\ Untold(i)' \subseteq Untold(j)
    PROVE  OneVerdict'
  <1>1. \A d : Forms(d)' = Forms(d) /\ ListedOnce(d)' = ListedOnce(d)
    BY DEF Forms, ListedOnce
  <1>2. ASSUME NEW i \in 1..Len(todo'), phase' = "rehearse", ListedOnce(todo'[i].domain)
        PROVE  Forms(todo'[i].domain) \cap Untold(i)' \cap (passed \cup blamed) \subseteq added
    <2>1. CASE phase = "check"
      BY <2>1 DEF OneVerdict
    <2>2. CASE phase # "check"
      <3>1. PICK j \in 1..Len(todo) :
                todo'[i].domain = todo[j].domain /\ Untold(i)' \subseteq Untold(j)
        BY <1>2, <2>2
      <3>2. Forms(todo[j].domain) \cap Untold(j) \cap (passed \cup blamed) \subseteq added
        BY <1>2, <2>2, <3>1 DEF OneVerdict
      <3> QED
        BY <3>1, <3>2
    <2> QED
      BY <2>1, <2>2
  <1> QED
    BY <1>1, <1>2 DEF OneVerdict

LEMMA ProbeOneVerdict ==
    ASSUME Excluding, Separate, Singly, OneVerdict, ProbeName \/ ProbeInterrupted
    PROVE  OneVerdict'
  <1>a. TypeOK /\ StepsInPhase /\ Cleared /\ Blaming
    BY DEF Excluding, Sound, Tallied
  <1>1. PICK n \in toProbe :
          /\ toProbe' = toProbe \ {n}
          /\ \/ passed' = passed \cup {n} /\ blamed' = blamed
             \/ blamed' = blamed \cup {n} /\ passed' = passed
    BY DEF ProbeName, ProbeInterrupted
  <1>2. /\ phase = "rehearse" /\ step = "probe" /\ todo # <<>>
        /\ UNCHANGED <<todo, phase, step, aliases, list, added>>
    BY <1>a DEF ProbeName, ProbeInterrupted, Probing, At, StepsInPhase, fixed, server, edits
  <1>3. Current \in Domain /\ n \in Name /\ Current = todo[1].domain /\ 1 \in 1..Len(todo)
    <2>1. Current \in Domain /\ Len(todo) \in Nat /\ Len(todo) # 0 /\ Head(todo) = todo[1]
      BY <1>a, <1>2, CurrentTyped, EmptySeq, LenProperties DEF TypeOK
    <2> QED
      BY <1>a, <1>1, <2>1 DEF TypeOK, Current
  <1>4. \A d \in Domain : n \in Forms(d) => d = Current
    <2>1. Head(todo) \in Clear /\ n \in Head(todo).sans
      BY <1>a, <1>1, <1>2, HeadIsElement DEF Chosen, Cleared, Blaming
    <2>2. n = Current \/ n \in Forms(Current)
      BY <2>1 DEF Clear, Drawn, Forms, Current
    <2> QED
      BY <1>3, <2>2 DEF Separate
  <1>5. \A d : Forms(d)' = Forms(d) /\ ListedOnce(d)' = ListedOnce(d)
    BY <1>2 DEF Forms, ListedOnce
  <1>6. ASSUME NEW d \in Domain, ListedOnce(d), NEW m \in Forms(d) \cap passed' \cap blamed'
        PROVE  m \in added
    <2>1. CASE m \in passed /\ m \in blamed
      BY <1>6, <2>1 DEF OneVerdict
    <2>2. CASE ~(m \in passed /\ m \in blamed)
      <3>1. m = n /\ n \in passed \cup blamed
        BY <1>1, <1>6, <2>2
      <3>2. d = todo[1].domain
        BY <1>3, <1>4, <1>6, <3>1
      <3>3. Forms(d) \cap toProbe \cap (passed \cup blamed) \subseteq added
        BY <1>2, <1>3, <1>6, <3>2 DEF OneVerdict, Untold
      <3> QED
        BY <1>6, <3>1, <3>3
    <2> QED
      BY <2>1, <2>2
  <1>7. ASSUME NEW i \in 1..Len(todo), ListedOnce(todo[i].domain),
               NEW m \in Forms(todo[i].domain) \cap Untold(i)' \cap (passed' \cup blamed')
        PROVE  m \in added
    <2>1. todo[i].domain \in Domain
      <3>1. todo[i] \in Decisions
        BY <1>a, ElementOfSeq DEF TypeOK
      <3> QED
        BY <3>1 DEF Decisions
    <2>2. m # n
      <3> SUFFICES ASSUME m = n PROVE FALSE
        OBVIOUS
      <3>1. i = 1
        BY <1>3, <1>4, <1>7, <2>1 DEF Singly
      <3> QED
        BY <1>1, <1>2, <1>7, <3>1 DEF Untold
    <2>3. Untold(i)' \subseteq Untold(i)
      BY <1>1, <1>2 DEF Untold
    <2>4. m \in passed \cup blamed
      BY <1>1, <1>7, <2>2
    <2> QED
      BY <1>2, <1>7, <2>3, <2>4 DEF OneVerdict
  <1> QED
    BY <1>2, <1>5, <1>6, <1>7 DEF OneVerdict

LEMMA AliasOneVerdict ==
    ASSUME Excluding, OneVerdict, AddAlias
    PROVE  OneVerdict'
  <1>a. TypeOK
    BY DEF Excluding, Sound, Tallied
  <1>1. /\ UNCHANGED <<todo, phase, step, toProbe, list, passed, blamed>>
        /\ added \subseteq added'
    BY DEF AddAlias, run, fixed
  <1>2. \A d \in Domain : Forms(d)' \cap Name \subseteq Forms(d) \cup added'
    <2>1. PICK e \in Domain : \E a \in LateAliases[e] \ aliases[e] :
              /\ aliases' = [aliases EXCEPT ![e] = @ \cup {a}]
              /\ added' = added \cup ({ToASCII[a]} \cap Name)
      BY DEF AddAlias
    <2>2. PICK a \in LateAliases[e] \ aliases[e] :
              /\ aliases' = [aliases EXCEPT ![e] = @ \cup {a}]
              /\ added' = added \cup ({ToASCII[a]} \cap Name)
      BY <2>1
    <2>3. \A d \in Domain : aliases'[d] \subseteq aliases[d] \cup {a}
      BY <1>a, <2>2 DEF TypeOK
    <2> QED
      BY <2>2, <2>3 DEF Forms
  <1>3. passed \subseteq Name /\ blamed \subseteq Name /\ \A d : ListedOnce(d)' = ListedOnce(d)
    BY <1>a, <1>1 DEF TypeOK, ListedOnce
  <1>4. \A i \in 1..Len(todo) : Untold(i)' = Untold(i) /\ todo[i].domain \in Domain
    <2>1. \A i \in 1..Len(todo) : todo[i] \in Decisions
      BY <1>a, ElementOfSeq DEF TypeOK
    <2> QED
      BY <1>1, <2>1 DEF Untold, Decisions
  <1>5. ASSUME NEW d \in Domain, ListedOnce(d)
        PROVE  (Forms(d)' \cap passed \cap blamed) \subseteq added'
    <2>1. Forms(d) \cap passed \cap blamed \subseteq added
      BY <1>5 DEF OneVerdict
    <2> QED
      BY <1>1, <1>2, <1>3, <2>1
  <1>6. ASSUME NEW i \in 1..Len(todo), phase = "rehearse", ListedOnce(todo[i].domain)
        PROVE  Forms(todo[i].domain)' \cap Untold(i) \cap (passed \cup blamed) \subseteq added'
    <2>1. Forms(todo[i].domain) \cap Untold(i) \cap (passed \cup blamed) \subseteq added
      BY <1>6 DEF OneVerdict
    <2>2. Forms(todo[i].domain)' \cap Name \subseteq Forms(todo[i].domain) \cup added'
      BY <1>1, <1>2, <1>4
    <2> QED
      BY <1>1, <1>3, <2>1, <2>2
  <1>7. phase = "check" => passed = {} /\ blamed = {}
    BY DEF OneVerdict
  <1> QED
    BY <1>1, <1>3, <1>4, <1>5, <1>6, <1>7 DEF OneVerdict

LEMMA StepOneVerdict ==
    ASSUME Excluding, Separate, Singly, OneVerdict, [Next]_vars
    PROVE  OneVerdict'
  <1>a. TypeOK /\ TypeOK' /\ StepsInPhase /\ list' = list
    BY StepExcluding, OnlyGrows DEF Excluding, Sound, Tallied
  <1>b. \A i : Untold(i)' \subseteq Name
    BY <1>a DEF Untold, TypeOK
  <1>1. CASE ProbeName \/ ProbeInterrupted
    BY <1>1, ProbeOneVerdict
  <1>2. CASE AddAlias
    BY <1>2, AliasOneVerdict
  <1>3. CASE ~(ProbeName \/ ProbeInterrupted \/ AddAlias)
    <2>1. /\ UNCHANGED <<aliases, passed, blamed, added>>
          /\ phase' = "check" => phase = "check"
          /\ phase' = "rehearse" => phase \in {"check", "rehearse"}
      BY <1>3 DEF Next, RunStep, SkipExcluded, ReadAliases, ReadSettings, DomainFails, StartRehearsal,
           RehearsalBlocks, RehearsalPasses, Reconsider, FinishPass,
           NewACMEClient, FinishRun, PlaceOrder, Issued, Install, RenewFails, Cancel,
           DisablePKI, Exited, vars, server, edits, run
    <2>2. ASSUME phase = "rehearse", phase' = "rehearse", NEW i \in 1..Len(todo')
          PROVE  \E j \in 1..Len(todo) :
                    todo'[i].domain = todo[j].domain /\ Untold(i)' \subseteq Untold(j)
      <3>1. ~FinishPass
        BY <2>2 DEF FinishPass
      <3>2. CASE todo # <<>> /\ Conclude
        <4>1. i + 1 \in 1..Len(todo) /\ i \in Nat \ {0} /\ todo'[i] = todo[i + 1]
          BY <1>a, <2>2, <3>2, TailShifts
        <4>2. Untold(i + 1) = Name
          BY <4>1 DEF Untold
        <4> QED
          BY <1>b, <4>1, <4>2
      <3>3. CASE ~(todo # <<>> /\ Conclude)
        <4>1. todo' = todo
          BY <1>a, <3>1, <3>3, ListsStep DEF Dropped, HandedOver, PassOver
        <4>2. \/ step = "next" \/ step' \in {"aliases", "settings"}
              \/ UNCHANGED <<step, toProbe>>
          BY <1>a, <1>3, <2>2, <3>1, <3>3
             DEF Next, RunStep, SkipExcluded, ReadAliases, ReadSettings, DomainFails, StartRehearsal,
                 RehearsalBlocks, RehearsalPasses, Reconsider, StepsInPhase,
                 NewACMEClient, FinishRun, PlaceOrder, Issued, Install, RenewFails, Cancel,
                 DisablePKI, Exited, vars, run, At, CheckBegins
        <4>3. Untold(i)' \subseteq Untold(i)
          BY <1>b, <4>2 DEF Untold
        <4> QED
          BY <2>2, <4>1, <4>3
      <3> QED
        BY <3>2, <3>3
    <2> QED
      BY <1>a, <2>1, <2>2, NothingTold
  <1> QED
    BY <1>1, <1>2, <1>3

LEMMA InitRehearsedOnce == Init => Singly /\ OneVerdict
  <1> SUFFICES ASSUME Init PROVE Singly /\ OneVerdict
    OBVIOUS
  <1>1. list \in Seq(Domain) /\ Len(list) \in Nat
    BY InitTallied, LengthsTyped DEF Tallied, TypeOK
  <1>2. Len(todo) = Len(list) /\ \A i \in 1..Len(todo) : todo[i].domain = list[i]
    <2>1. todo = [i \in 1..Len(list) |-> [domain |-> list[i], sans |-> {}]]
      BY DEF Init
    <2>2. Len(todo) = Len(list)
      BY <1>1, <2>1, InitTallied, LenProperties DEF Tallied, TypeOK
    <2> QED
      BY <2>1, <2>2
  <1>3. Len(kept) = 0
    BY EmptySeq DEF Init
  <1>4. Singly
    BY <1>2, <1>3 DEF Singly, ListedOnce
  <1>5. OneVerdict
    BY DEF Init, OneVerdict
  <1> QED
    BY <1>4, <1>5

\* Nothing excluded or found failing is ordered, whatever is edited meanwhile and
\* whatever a name answers from one fetch to the next, on a server where no alias
\* is a domain and no name belongs to two aliases.
THEOREM ExcludedNeverOrdered ==
  ASSUME AliasesDistinct
  PROVE  Spec => []ExcludedStaysOut
  <1>1. Init => Singly /\ OneVerdict
    BY InitRehearsedOnce
  <1>2. Excluding /\ Assigned /\ Singly /\ OneVerdict /\ [Next]_vars => Singly' /\ OneVerdict'
    BY FormsSeparate, StepSingly, StepOneVerdict
  <1>3. Excluding /\ Assigned /\ OneVerdict => ExcludedStaysOut
    <2> SUFFICES ASSUME Excluding, Assigned, OneVerdict, NEW o \in orders
                 PROVE  /\ o.domain \notin conf.exclude
                        /\ \A n \in (conf.exclude \cup (RejectedFor(o.domain) \ added)) \ {o.domain} :
                              /\ n \notin o.sans
                              /\ n \in aliases[o.domain] => ToASCII[n] \notin o.sans \ {o.domain}
      BY DEF ExcludedStaysOut
    <2>a. TypeOK /\ Cleared /\ Blaming /\ Rehearsed
      BY DEF Excluding, Sound, Tallied, OfDecisions
    <2>1. o \in Clear /\ o.domain \in Domain /\ o.sans \in SUBSET Name
      BY <2>a DEF Cleared, Clear, Decisions
    <2>2. PICK as \in StartAliases : aliases[o.domain] \subseteq MayHave(as, o.domain)
      BY <2>1 DEF Assigned, MayHave
    <2>3. ASSUME NEW a \in aliases[o.domain], NEW b \in aliases[o.domain],
                 ToASCII[a] = ToASCII[b], ToASCII[a] \in Name
          PROVE  a = b
      BY <2>1, <2>2, <2>3 DEF AliasesDistinct
    <2>4. aliases[o.domain] \cap Domain = {}
      BY <2>1, <2>2 DEF AliasesDistinct
    <2>5. ASSUME NEW n \in conf.exclude, n # o.domain
          PROVE  n \notin o.sans /\ (n \in aliases[o.domain] => ToASCII[n] \notin o.sans \ {o.domain})
      <3>1. n \notin o.sans
        BY <2>1, <2>5 DEF Clear, Drawn
      <3>2. ASSUME n \in aliases[o.domain], ToASCII[n] \in o.sans \ {o.domain} PROVE FALSE
        <4>1. PICK b \in aliases[o.domain] \ conf.exclude : ToASCII[b] = ToASCII[n]
          BY <2>1, <3>2 DEF Clear, Drawn
        <4>2. ToASCII[n] \in Name
          BY <2>1, <3>2
        <4>3. n = b
          BY <2>3, <3>2, <4>1, <4>2
        <4> QED
          BY <2>5, <4>1, <4>3
      <3> QED
        BY <3>1, <3>2
    <2>6. ASSUME NEW n \in RejectedFor(o.domain) \ added, n # o.domain
          PROVE  n \notin o.sans /\ (n \in aliases[o.domain] => ToASCII[n] \notin o.sans \ {o.domain})
      <3>1. n \in blamed
        BY <2>6 DEF RejectedFor
      <3>2. ASSUME n \in o.sans PROVE FALSE
        <4>1. n \in passed
          BY <2>a, <2>6, <3>2 DEF Rehearsed
        <4>2. ListedOnce(o.domain)
          BY <2>6, <4>1 DEF RejectedFor
        <4>3. n \in Forms(o.domain)
          BY <2>1, <2>6, <3>2 DEF Clear, Drawn, Forms
        <4> QED
          BY <2>1, <2>6, <3>1, <4>1, <4>2, <4>3 DEF OneVerdict
      <3>3. n \in aliases[o.domain] => ToASCII[n] = n
        BY <2>a, <2>4, <3>1 DEF Blaming
      <3> QED
        BY <3>2, <3>3
    <2>7. o.domain \notin conf.exclude
      BY <2>1 DEF Clear
    <2> QED
      BY <2>5, <2>6, <2>7
  <1> QED
    BY <1>1, <1>2, <1>3, AlwaysExcluding, AlwaysAssigned, PTL DEF Spec

-------------------------------------------------------------------------------
(***************************************************************************)
(* What a run orders when nothing goes wrong: of the list, in its order,   *)
(* the domains that both passes let through.  The invariant knows of each  *)
(* pass which domains of the list are before it and which it handed on.    *)
(***************************************************************************)
Undisturbed == unchecked = 0 /\ ctx = "live" /\ added = {} /\ disabled = {} /\ ProbedAsARule

\* The names of the first look, and those of the second.
FirstNames(d) == CertificateNames(d, aliases[d], conf.exclude) \cap Name
LeftNames(d) == AnsweringNames(d, aliases[d], conf.exclude, answers)

\* A domain is due at the first look; it still is once its names were rehearsed.
LooksDue(d) == d \notin conf.exclude /\ Verdict(FirstNames(d), settings[d], Forced) = "renew"
StaysDue(d) ==
    d \notin conf.exclude /\ d \in answers /\ Verdict(LeftNames(d), settings[d], Forced) = "renew"

\* The places of these domains in the list.
Places == 1..Len(list)
FirstDue == {i \in Places : LooksDue(list[i])}
StillDue == {i \in Places : StaysDue(list[i])}

\* The decisions s are about the domains at the places S, in the order of the list.
Rank(i, S) == Cardinality({j \in S : j <= i})
Selects(s, S) ==
    /\ Len(s) = Cardinality(S)
    /\ \A i \in S : s[Rank(i, S)].domain = list[i]

After(S, c) == {i \in S : i > c}
Upto(S, c) == {i \in S : i <= c}

\* A pass over the places B that hands on those in G is somewhere between them.
Passing(B, G) ==
    \E c \in 0..Len(list) : Selects(todo, After(B, c)) /\ Selects(kept, Upto(G, c))

Sorted ==
    /\ phase = "check" => Passing(Places, FirstDue)
    /\ phase = "rehearse" => Passing(FirstDue, StillDue)
    /\ phase = "account" => Selects(todo, StillDue)

\* The decisions of the first look, before they are rehearsed.
Unrehearsed == IF phase = "check" THEN Elements(kept)
               ELSE IF phase = "rehearse" THEN Elements(todo) ELSE {}

Foreseen ==
    /\ \A o \in Unrehearsed : o.sans = FirstNames(o.domain)
    /\ step = "settings" => sans = NamesNow(Current)
    /\ Sorted
Predicting == Excluding /\ Settling /\ (Undisturbed => Foreseen)

-------------------------------------------------------------------------------
(* Sets of places and the decisions they select. *)

LEMMA LeastPlace ==
    ASSUME NEW S \in SUBSET Nat, S # {}
    PROVE  \E p \in S : \A i \in S : p <= i
  <1> DEFINE Smaller == {ss \in Nat \X Nat : ss[1] < ss[2]}
  <1>1. IsWellFoundedOn(Smaller, Nat)
    BY NatLessThanWellFounded DEF OpToRel
  <1> HIDE DEF Smaller
  <1>2. PICK p \in S : \A i \in S : ~(<<i, p>> \in Smaller)
    BY <1>1, WFMin
  <1>3. \A i, j \in Nat : i < j => <<i, j>> \in Smaller
    BY DEF Smaller
  <1>4. \A i \in S : p \in Nat /\ i \in Nat /\ ~(i < p)
    BY <1>2, <1>3
  <1> QED
    BY <1>4

LEMMA PlacesFinite ==
    ASSUME TypeOK, NEW S \in SUBSET Places
    PROVE  IsFiniteSet(S) /\ Cardinality(S) \in Nat /\ S \subseteq Nat
  <1>1. Len(list) \in Nat
    BY LengthsTyped
  <1>2. IsFiniteSet(Places) /\ Places \subseteq Nat
    BY <1>1, FS_Interval DEF Places
  <1>3. IsFiniteSet(S)
    BY <1>2, FS_Subset
  <1> QED
    BY <1>2, <1>3, FS_CardinalityType

\* A place has a rank among the others.
LEMMA RankTyped ==
    ASSUME TypeOK, NEW S \in SUBSET Places, NEW i \in S
    PROVE  Rank(i, S) \in 1..Cardinality(S)
  <1> DEFINE low == {j \in S : j <= i}
  <1>1. low \in SUBSET S /\ low \in SUBSET Places /\ i \in low
    BY PlacesFinite
  <1>2. IsFiniteSet(S) /\ IsFiniteSet(low) /\ Cardinality(low) \in Nat /\ Cardinality(S) \in Nat
    BY <1>1, PlacesFinite
  <1>3. Cardinality(low) <= Cardinality(S)
    BY <1>1, <1>2, FS_Subset
  <1>4. Cardinality(low) # 0
    BY <1>1, <1>2, FS_EmptySet
  <1> QED
    BY <1>2, <1>3, <1>4 DEF Rank

LEMMA SelectsNothing ==
    ASSUME TypeOK
    PROVE  /\ Selects(<<>>, {})
           /\ \A S \in SUBSET Places : Selects(<<>>, S) => S = {}
  <1>1. Len(<<>>) = 0
    BY EmptySeq
  <1> QED
    BY <1>1, PlacesFinite, FS_EmptySet DEF Selects

\* One place more, behind all others, and one decision more.
LEMMA SelectsOneMore ==
    ASSUME TypeOK, NEW S \in SUBSET Places, NEW p \in Places, \A i \in S : i < p,
           NEW s \in Seq(Decisions), NEW o \in Decisions, o.domain = list[p], Selects(s, S)
    PROVE  Selects(Append(s, o), S \cup {p})
  <1> DEFINE T == S \cup {p}
             t == Append(s, o)
  <1>1. Len(s) \in Nat /\ Len(s) = Cardinality(S) /\ Len(t) = Len(s) + 1
        /\ (\A k \in 1..Len(s) : t[k] = s[k]) /\ t[Len(s) + 1] = o
    BY AppendProperties, LenProperties DEF Selects
  <1>2. IsFiniteSet(S) /\ p \notin S /\ p \in Nat /\ S \subseteq Nat /\ p <= p
    <2>1. Len(list) \in Nat
      BY LengthsTyped
    <2> QED
      BY <2>1, PlacesFinite DEF Places
  <1>3. Cardinality(T) = Len(t)
    BY <1>1, <1>2, FS_AddElement
  <1>4. ASSUME NEW i \in S PROVE t[Rank(i, T)].domain = list[i]
    <2>1. ~(p <= i)
      BY <1>2, <1>4
    <2>2. {j \in T : j <= i} = {j \in S : j <= i}
      BY <2>1
    <2>3. Rank(i, T) = Rank(i, S) /\ Rank(i, S) \in 1..Len(s)
      BY <1>1, <2>2, RankTyped DEF Rank
    <2> QED
      BY <1>1, <2>3 DEF Selects
  <1>5. t[Rank(p, T)].domain = list[p]
    <2>1. {j \in T : j <= p} = T
      <3>1. \A j \in T : j <= p
        BY <1>2
      <3> QED
        BY <3>1
    <2>2. Rank(p, T) = Len(s) + 1
      BY <1>1, <1>3, <2>1 DEF Rank
    <2> QED
      BY <1>1, <2>2
  <1> QED
    BY <1>3, <1>4, <1>5 DEF Selects

\* The first decision is about the first place, the rest about the others.
LEMMA SelectsFirst ==
    ASSUME TypeOK, NEW S \in SUBSET Places, NEW p \in S, \A i \in S : p <= i,
           NEW s \in Seq(Decisions), s # <<>>, Selects(s, S)
    PROVE  Head(s).domain = list[p] /\ Selects(Tail(s), S \ {p})
  <1> DEFINE T == S \ {p}
             t == Tail(s)
  <1>1. /\ Len(s) \in Nat \ {0} /\ Len(s) = Cardinality(S) /\ Head(s) = s[1] /\ Len(t) = Len(s) - 1
        /\ \A k \in 1..Len(t) : t[k] = s[k + 1]
    BY HeadTailProperties, LenProperties, EmptySeq DEF Selects
  <1>2. IsFiniteSet(S) /\ S \subseteq Nat /\ p \in Nat /\ p <= p
    BY PlacesFinite
  <1>3. Cardinality(T) = Len(t)
    BY <1>1, <1>2, FS_RemoveElement
  <1>4. Head(s).domain = list[p]
    <2>1. {j \in S : j <= p} = {p}
      <3>1. \A j \in S : j <= p <=> j = p
        BY <1>2
      <3> QED
        BY <3>1
    <2>2. Rank(p, S) = 1
      BY <2>1, FS_Singleton DEF Rank
    <2> QED
      BY <1>1, <2>2 DEF Selects
  <1>5. ASSUME NEW i \in T PROVE t[Rank(i, T)].domain = list[i]
    <2> DEFINE low == {j \in S : j <= i}
    <2>1. low \in SUBSET Places /\ p \in low /\ {j \in T : j <= i} = low \ {p}
      BY <1>2
    <2>2. IsFiniteSet(low)
      BY <2>1, PlacesFinite
    <2>3. Rank(i, T) = Rank(i, S) - 1
      <3>1. Cardinality(low \ {p}) = Cardinality(low) - 1
        BY <2>1, <2>2, FS_RemoveElement
      <3>2. Rank(i, S) = Cardinality(low) /\ Rank(i, T) = Cardinality(low \ {p})
        BY <2>1 DEF Rank
      <3> QED
        BY <3>1, <3>2
    <2>4. Rank(i, S) \in 1..Len(s) /\ Rank(i, T) \in 1..Len(t)
      BY <1>1, <1>3, RankTyped
    <2>5. t[Rank(i, T)] = s[Rank(i, T) + 1] /\ Rank(i, T) + 1 = Rank(i, S)
      BY <1>1, <2>3, <2>4
    <2> QED
      BY <2>5 DEF Selects
  <1> QED
    BY <1>3, <1>4, <1>5 DEF Selects

\* A pass takes the next of its places, and hands it on if it is one of those.
LEMMA PassTakesNext ==
    ASSUME TypeOK, todo # <<>>, NEW B \in SUBSET Places, NEW G \in SUBSET B, Passing(B, G),
           NEW more \in Seq(Decisions),
           \A p \in B : list[p] = Current =>
               IF p \in G THEN \E o \in Decisions : more = Append(kept, o) /\ o.domain = Current
               ELSE more = kept
    PROVE  \E c \in 0..Len(list) : Selects(Tail(todo), After(B, c)) /\ Selects(more, Upto(G, c))
  <1>1. PICK c \in 0..Len(list) : Selects(todo, After(B, c)) /\ Selects(kept, Upto(G, c))
    BY DEF Passing
  <1>2. Len(list) \in Nat /\ todo \in Seq(Decisions) /\ kept \in Seq(Decisions)
        /\ Places \subseteq Nat
    BY LengthsTyped DEF TypeOK, Places
  <1>3. After(B, c) \in SUBSET Places /\ Upto(G, c) \in SUBSET Places /\ After(B, c) \in SUBSET Nat
    BY <1>2 DEF After, Upto
  <1>4. After(B, c) # {}
    <2> SUFFICES ASSUME After(B, c) = {} PROVE FALSE
      OBVIOUS
    <2>1. Len(todo) = 0
      BY <1>1, FS_EmptySet DEF Selects
    <2> QED
      BY <1>2, <2>1, EmptySeq
  <1>5. PICK p \in After(B, c) : \A i \in After(B, c) : p <= i
    BY <1>3, <1>4, LeastPlace
  <1>6. p \in B /\ p > c /\ p \in Places /\ p \in 0..Len(list)
    BY <1>2, <1>5 DEF After, Places
  <1>7. Current = list[p] /\ Selects(Tail(todo), After(B, c) \ {p})
    BY <1>1, <1>2, <1>3, <1>5, SelectsFirst DEF Current
  <1>8. After(B, c) \ {p} = After(B, p)
    <2>1. \A i \in B : i \in Nat /\ (i > c => p <= i)
      BY <1>2, <1>5 DEF After
    <2>2. \A i \in B : (i > c /\ i # p) <=> i > p
      BY <1>2, <1>6, <2>1
    <2> QED
      BY <2>2 DEF After
  <1>9. Upto(G, p) = IF p \in G THEN Upto(G, c) \cup {p} ELSE Upto(G, c)
    <2>1. ASSUME NEW i \in G, i <= p, i # p PROVE i <= c
      <3>1. i \in Nat /\ i \in B /\ i < p
        BY <1>2, <1>6, <2>1
      <3>2. i \notin After(B, c)
        BY <1>5, <1>6, <3>1, <1>2
      <3> QED
        BY <1>2, <3>1, <3>2 DEF After
    <2>2. \A i \in G : i <= p <=> i <= c \/ i = p
      <3>1. \A i \in G : i \in Nat
        BY <1>2
      <3> QED
        BY <1>2, <1>6, <2>1, <3>1
    <2> QED
      BY <2>2 DEF Upto
  <1>10. Selects(more, Upto(G, p))
    <2>1. CASE p \in G
      <3>1. PICK o \in Decisions : more = Append(kept, o) /\ o.domain = list[p]
        BY <1>6, <1>7, <2>1
      <3>2. \A i \in Upto(G, c) : i < p
        BY <1>2, <1>3, <1>6 DEF Upto, Places
      <3> QED
        BY <1>1, <1>2, <1>3, <1>6, <1>9, <2>1, <3>1, <3>2, SelectsOneMore
    <2>2. CASE p \notin G
      BY <1>1, <1>6, <1>7, <1>9, <2>2
    <2> QED
      BY <2>1, <2>2
  <1> QED
    BY <1>6, <1>7, <1>8, <1>10

\* A pass that has nothing before it any more has handed on all it was to.
LEMMA PassEnds ==
    ASSUME TypeOK, todo = <<>>, NEW B \in SUBSET Places, NEW G \in SUBSET B, Passing(B, G)
    PROVE  Selects(kept, G)
  <1>1. PICK c \in 0..Len(list) : Selects(todo, After(B, c)) /\ Selects(kept, Upto(G, c))
    BY DEF Passing
  <1>2. Len(list) \in Nat /\ \A i \in Places : i \in Nat
    BY LengthsTyped DEF Places
  <1>3. After(B, c) = {}
    BY <1>1, SelectsNothing DEF After
  <1>4. Upto(G, c) = G
    BY <1>2, <1>3 DEF After, Upto
  <1> QED
    BY <1>1, <1>4

-------------------------------------------------------------------------------
(* What an undisturbed run finds is what it found before. *)

LEMMA UndisturbedBefore ==
    ASSUME Sound, [Next]_vars, Undisturbed'
    PROVE  Undisturbed /\ (~Install => settings' = settings)
  <1>1. added \subseteq added' /\ disabled \subseteq disabled' /\ (ctx' = "live" => ctx = "live")
        /\ unchecked' \in {unchecked, unchecked + 1}
        /\ passed \subseteq passed' /\ blamed \subseteq blamed' /\ answers' = answers
    BY DEF Next, RunStep, SkipExcluded, ReadAliases, ReadSettings, DomainFails, StartRehearsal,
           ProbeName, ProbeInterrupted, RehearsalBlocks, RehearsalPasses, Reconsider, FinishPass,
           NewACMEClient, FinishRun, PlaceOrder, Issued, Install, RenewFails, Cancel, AddAlias,
           DisablePKI, Exited, vars, tally, edits, run, fixed
  <1>2. unchecked \in Nat
    BY DEF Sound, Tallied, TypeOK
  <1>3. ~DisablePKI
    BY DEF DisablePKI, Undisturbed
  <1>4. ~Install => settings' = settings
    BY <1>3
       DEF Next, RunStep, SkipExcluded, ReadAliases, ReadSettings, DomainFails, StartRehearsal,
           ProbeName, ProbeInterrupted, RehearsalBlocks, RehearsalPasses, Reconsider, FinishPass,
           NewACMEClient, FinishRun, PlaceOrder, Issued, RenewFails, Cancel, AddAlias,
           Exited, vars, server
  <1> QED
    BY <1>1, <1>2, <1>4 DEF Undisturbed, ProbedAsARule

\* The only aliases that appear are of no name.
LEMMA NamesStay ==
    ASSUME Sound, [Next]_vars, Undisturbed', NEW d \in Domain
    PROVE  /\ \A ex : AliasNames(aliases'[d], ex) \cap Name = AliasNames(aliases[d], ex) \cap Name
           /\ FirstNames(d)' = FirstNames(d) /\ LeftNames(d)' = LeftNames(d)
           /\ excluded' = excluded => NamesNow(d)' = NamesNow(d)
  <1>1. \A ex : AliasNames(aliases'[d], ex) \cap Name = AliasNames(aliases[d], ex) \cap Name
    <2>1. CASE AddAlias
      <3>1. PICK e \in Domain : \E a \in LateAliases[e] \ aliases[e] :
                /\ aliases' = [aliases EXCEPT ![e] = @ \cup {a}]
                /\ added' = added \cup ({ToASCII[a]} \cap Name)
        BY <2>1 DEF AddAlias
      <3>2. PICK a \in LateAliases[e] :
                /\ aliases' = [aliases EXCEPT ![e] = @ \cup {a}]
                /\ added' = added \cup ({ToASCII[a]} \cap Name)
        BY <3>1
      <3>3. ToASCII[a] \notin Name
        BY <3>2 DEF Undisturbed
      <3>4. aliases'[d] = aliases[d] \/ aliases'[d] = aliases[d] \cup {a}
        BY <3>2 DEF Sound, Tallied, TypeOK
      <3>5. ASSUME NEW ex
            PROVE  AliasNames(aliases[d] \cup {a}, ex) \cap Name = AliasNames(aliases[d], ex) \cap Name
        BY <3>3 DEF AliasNames
      <3> QED
        BY <3>4, <3>5
    <2>2. CASE UNCHANGED aliases
      BY <2>2
    <2> QED
      BY <2>1, <2>2
         DEF Next, RunStep, SkipExcluded, ReadAliases, ReadSettings, DomainFails, StartRehearsal,
             ProbeName, ProbeInterrupted, RehearsalBlocks, RehearsalPasses, Reconsider, FinishPass,
             NewACMEClient, FinishRun, PlaceOrder, Issued, Install, RenewFails, Cancel,
             DisablePKI, Exited, vars, server
  <1>2. UNCHANGED <<conf, answers>> /\ answers \subseteq Name /\ d \in Name
    BY OnlyGrows, RunAssumption DEF Sound, Tallied, TypeOK
  <1>3. FirstNames(d)' = FirstNames(d)
    BY <1>1, <1>2 DEF FirstNames, CertificateNames
  <1>4. LeftNames(d)' = LeftNames(d)
    <2>1. AliasNames(aliases'[d], conf.exclude) \cap answers = AliasNames(aliases[d], conf.exclude) \cap answers
      BY <1>1, <1>2
    <2> QED
      BY <1>2, <2>1 DEF LeftNames, AnsweringNames
  <1>5. excluded' = excluded => NamesNow(d)' = NamesNow(d)
    BY <1>1, <1>2 DEF NamesNow, CertificateNames
  <1> QED
    BY <1>1, <1>3, <1>4, <1>5

LEMMA DueStays ==
    ASSUME Sound, [Next]_vars, Undisturbed', ~Install
    PROVE  list' = list /\ Places' = Places /\ FirstDue' = FirstDue /\ StillDue' = StillDue
  <1>1. UNCHANGED <<conf, answers, list, settings>>
    BY OnlyGrows, UndisturbedBefore
  <1>2. \A d \in Domain : FirstNames(d)' = FirstNames(d) /\ LeftNames(d)' = LeftNames(d)
    BY NamesStay
  <1>3. \A i \in Places : list[i] \in Domain
    BY ElementOfSeq DEF Sound, Tallied, TypeOK, Places
  <1>4. \A d \in Domain : (LooksDue(d)' <=> LooksDue(d)) /\ (StaysDue(d)' <=> StaysDue(d))
    BY <1>1, <1>2 DEF LooksDue, StaysDue, Forced
  <1>5. Places' = Places
    BY <1>1 DEF Places
  <1>6. FirstDue' = FirstDue
    BY <1>1, <1>3, <1>4, <1>5 DEF FirstDue
  <1>7. StillDue' = StillDue
    BY <1>1, <1>3, <1>4, <1>5 DEF StillDue
  <1> QED
    BY <1>1, <1>5, <1>6, <1>7

\* What is left of a decision that was due is due only if all of it was.
LEMMA DueNarrows ==
    ASSUME TypeOK
    PROVE  StillDue \subseteq FirstDue /\ FirstDue \subseteq Places
  <1>1. ASSUME NEW i \in Places, StaysDue(list[i]) PROVE LooksDue(list[i])
    <2>1. list[i] \in Name /\ answers \subseteq Name
      BY ElementOfSeq, RunAssumption DEF TypeOK, Places
    <2>2. LeftNames(list[i]) \subseteq FirstNames(list[i])
      BY <2>1 DEF LeftNames, FirstNames, AnsweringNames, CertificateNames
    <2> QED
      BY <1>1, <2>2, VerdictWidens DEF StaysDue, LooksDue
  <1> QED
    BY <1>1 DEF FirstDue, StillDue

-------------------------------------------------------------------------------
(* The passes, turn by turn. *)

\* A turn ends, and the domain goes where it belongs.
LEMMA TurnSorted ==
    ASSUME Sound, Sorted, [Next]_vars, Undisturbed', ~Install,
           todo # <<>>, Conclude, phase' = phase, phase \in {"check", "rehearse"},
           LET HandsOn(b) == IF b THEN \E o \in Decisions : kept' = Append(kept, o) /\ o.domain = Current
                             ELSE kept' = kept
           IN  /\ phase = "check" => HandsOn(LooksDue(Current))
               /\ phase = "rehearse" /\ LooksDue(Current) => HandsOn(StaysDue(Current))
    PROVE  Sorted'
  <1>1. TypeOK /\ kept' \in Seq(Decisions) /\ todo' = Tail(todo)
    BY StepTallied DEF Sound, Tallied, TypeOK, Conclude
  <1>2. list' = list /\ Places' = Places /\ FirstDue' = FirstDue /\ StillDue' = StillDue
    BY DueStays
  <1>3. Places \in SUBSET Places /\ FirstDue \in SUBSET Places /\ StillDue \in SUBSET FirstDue
    BY <1>1, DueNarrows
  <1>4. CASE phase = "check"
    <2>1. \A p \in Places : list[p] = Current =>
            IF p \in FirstDue THEN \E o \in Decisions : kept' = Append(kept, o) /\ o.domain = Current
            ELSE kept' = kept
      BY <1>4 DEF FirstDue
    <2>2. \E c \in 0..Len(list) : Selects(todo', After(Places, c)) /\ Selects(kept', Upto(FirstDue, c))
      BY <1>1, <1>3, <1>4, <2>1, PassTakesNext DEF Sorted
    <2> QED
      BY <1>2, <1>4, <2>2 DEF Sorted, Passing, Selects, After, Upto, Rank
  <1>5. CASE phase = "rehearse"
    <2>1. \A p \in FirstDue : list[p] = Current =>
            IF p \in StillDue THEN \E o \in Decisions : kept' = Append(kept, o) /\ o.domain = Current
            ELSE kept' = kept
      BY <1>5 DEF FirstDue, StillDue
    <2>2. \E c \in 0..Len(list) : Selects(todo', After(FirstDue, c)) /\ Selects(kept', Upto(StillDue, c))
      BY <1>1, <1>3, <1>5, <2>1, PassTakesNext DEF Sorted
    <2> QED
      BY <1>2, <1>5, <2>2 DEF Sorted, Passing, Selects, After, Upto, Rank
  <1> QED
    BY <1>4, <1>5

\* Nothing changes hands.
LEMMA NothingSorted ==
    ASSUME Sound, Sorted, [Next]_vars, Undisturbed', ~Install,
           UNCHANGED <<todo, kept>>, phase' = phase \/ phase' \in {"renew", "exit"}
    PROVE  Sorted'
  <1>1. list' = list /\ Places' = Places /\ FirstDue' = FirstDue /\ StillDue' = StillDue
    BY DueStays
  <1> QED
    BY <1>1 DEF Sorted, Passing, Selects, After, Upto, Rank

\* What the rehearsal has excluded does not answer.
LEMMA ExcludingHarmless ==
    ASSUME Excluding, ProbedAsARule
    PROVE  Harmless(conf.exclude, excluded, answers)
  BY DEF Excluding, Cleared, Blaming, ProbedAsARule, Harmless

\* The verdict of the first look is the one that was foreseen.
LEMMA ReadSettingsSorted ==
    ASSUME Predicting, ReadSettings, Undisturbed, Undisturbed'
    PROVE  Sorted'
  <1>a. /\ Sound /\ TypeOK /\ StepsInPhase /\ Excluding /\ Foreseen /\ Sorted /\ FirstLook
        /\ step = "settings" /\ ctx = "live" /\ added = {} /\ ProbedAsARule
    BY DEF Predicting, Excluding, Sound, Tallied, Settling, Foreseen, ReadSettings, Undisturbed
  <1>1. /\ todo # <<>> /\ Conclude /\ phase' = phase /\ phase \in {"check", "rehearse"}
    BY <1>a DEF ReadSettings, StepsInPhase
  <1>2. [Next]_vars /\ ~Install
    BY <1>1 DEF Next, RunStep, Install, At
  <1>3. Current \in Name /\ Current \in Domain /\ aliases[Current] \in SUBSET Name
        /\ answers \in SUBSET Name
    BY <1>a, <1>1, CurrentTyped, RunAssumption DEF TypeOK
  <1>4. AtHand \in Decisions /\ AtHand.domain = Current /\ Current \notin conf.exclude
    BY <1>a DEF Excluding, Cleared, Clear, AtHand
  <1>5. IF Verdict(sans, settings[Current], Forced) = "renew"
        THEN kept' = Append(kept, AtHand) ELSE kept' = kept
    BY DEF ReadSettings, AtHand
  <1>6. ASSUME phase = "check" PROVE sans = FirstNames(Current)
    BY <1>a, <1>6 DEF Foreseen, FirstLook, NamesNow, FirstNames
  <1>7. ASSUME phase = "rehearse" PROVE sans = LeftNames(Current) /\ Current \in answers
    <2>1. sans = NamesNow(Current) /\ sans \subseteq answers
      BY <1>a, <1>7 DEF Foreseen, Sound, OfStep, InHand, ProbedAsARule
    <2>2. sans = LeftNames(Current)
      BY <1>3, <1>a, <2>1, ExcludingHarmless, AllAnswering DEF NamesNow, LeftNames
    <2>3. Current \in sans
      BY <1>3, <2>1 DEF NamesNow, CertificateNames
    <2> QED
      BY <2>1, <2>2, <2>3
  <1>8. LooksDue(Current) /\ phase = "check" =>
            \E o \in Decisions : kept' = Append(kept, o) /\ o.domain = Current
    BY <1>4, <1>5, <1>6 DEF LooksDue
  <1>9. ~LooksDue(Current) /\ phase = "check" => kept' = kept
    BY <1>4, <1>5, <1>6 DEF LooksDue
  <1>10. StaysDue(Current) /\ phase = "rehearse" =>
            \E o \in Decisions : kept' = Append(kept, o) /\ o.domain = Current
    BY <1>4, <1>5, <1>7 DEF StaysDue
  <1>11. ~StaysDue(Current) /\ phase = "rehearse" => kept' = kept
    BY <1>4, <1>5, <1>7 DEF StaysDue
  <1> QED
    BY <1>a, <1>1, <1>2, <1>8, <1>9, <1>10, <1>11, TurnSorted

\* So are the verdicts that a rehearsal makes by itself.
LEMMA RehearsalSorted ==
    ASSUME Predicting, RehearsalBlocks \/ RehearsalPasses, Undisturbed, Undisturbed'
    PROVE  Sorted'
  <1>a. /\ Sound /\ TypeOK /\ StepsInPhase /\ Excluding /\ Foreseen /\ Sorted
        /\ ProbedAsARule /\ added = {} /\ phase = "rehearse" /\ step = "probe" /\ toProbe = {}
    BY DEF Predicting, Excluding, Sound, Tallied, Foreseen, RehearsalBlocks, RehearsalPasses,
           Undisturbed, At
  <1>1. todo # <<>> /\ Conclude /\ phase' = phase
    BY <1>a DEF RehearsalBlocks, RehearsalPasses, StepsInPhase
  <1>2. [Next]_vars /\ ~Install
    BY <1>a DEF Next, RunStep, Install, At
  <1>3. Current \in Name /\ Current \in Domain /\ aliases[Current] \in SUBSET Name
        /\ answers \in SUBSET Name /\ Head(todo) \in Decisions /\ Head(todo).domain = Current
    BY <1>a, <1>1, CurrentTyped, RunAssumption DEF TypeOK, Current
  <1>4. CASE RehearsalBlocks
    <2>1. Current \notin answers
      BY <1>4, <1>a DEF RehearsalBlocks, Blocked, Excluding, Blaming, ProbedAsARule
    <2> QED
      BY <1>a, <1>1, <1>2, <1>4, <2>1, TurnSorted DEF StaysDue, RehearsalBlocks
  <1>5. CASE RehearsalPasses
    <2>1. Head(todo).sans = FirstNames(Current) /\ Head(todo).sans \subseteq answers
      <3>1. Head(todo).sans = FirstNames(Current)
        BY <1>a, <1>1, HeadIsElement DEF Foreseen, Unrehearsed, Current
      <3>2. Head(todo).sans \subseteq passed
        BY <1>5, <1>a DEF Sound, OfStep, Probed, RehearsalPasses
      <3> QED
        BY <1>a, <3>1, <3>2 DEF ProbedAsARule
    <2>2. Harmless(conf.exclude, conf.exclude, answers)
      BY DEF Harmless
    <2>3. FirstNames(Current) = LeftNames(Current)
      BY <1>3, <2>1, <2>2, AllAnswering DEF FirstNames, LeftNames
    <2>4. Current \in answers
      BY <1>3, <2>1 DEF FirstNames, CertificateNames
    <2>5. LooksDue(Current) => StaysDue(Current)
      BY <2>3, <2>4 DEF LooksDue, StaysDue
    <2>6. kept' = Append(kept, Head(todo))
      BY <1>5 DEF RehearsalPasses
    <2> QED
      BY <1>a, <1>1, <1>2, <1>3, <2>5, <2>6, TurnSorted
  <1> QED
    BY <1>4, <1>5

\* What a pass has handed on is what the next one starts with.
LEMMA FinishPassSorted ==
    ASSUME Predicting, FinishPass, Undisturbed, Undisturbed'
    PROVE  Sorted'
  <1>a. /\ Sound /\ TypeOK /\ Sorted /\ todo = <<>> /\ todo' = kept /\ kept' = <<>>
        /\ phase \in {"check", "rehearse"}
    BY DEF Predicting, Excluding, Sound, Tallied, Foreseen, FinishPass, Undisturbed
  <1>1. list' = list /\ Places' = Places /\ FirstDue' = FirstDue /\ StillDue' = StillDue
    <2>1. [Next]_vars /\ ~Install
      BY <1>a DEF Next, RunStep, Install, At
    <2> QED
      BY <1>a, <2>1, DueStays
  <1>2. Places \in SUBSET Places /\ FirstDue \in SUBSET Places /\ StillDue \in SUBSET FirstDue
    BY <1>a, DueNarrows
  <1>3. CASE phase = "check"
    <2>1. Selects(todo', FirstDue)
      BY <1>a, <1>2, <1>3, PassEnds DEF Sorted
    <2>2. 0 \in 0..Len(list) /\ \A i \in FirstDue : i > 0
      BY <1>a, <1>2, LengthsTyped DEF Places
    <2>3. After(FirstDue, 0) = FirstDue /\ Upto(StillDue, 0) = {}
      <3>1. \A i \in FirstDue : i \in Nat /\ ~(i <= 0)
        BY <1>2, <2>2 DEF Places
      <3> QED
        BY <1>2, <2>2, <3>1 DEF After, Upto
    <2>4. Selects(kept', Upto(StillDue, 0))
      BY <1>a, <2>3, SelectsNothing
    <2>5. Selects(todo', After(FirstDue, 0)) /\ Selects(kept', Upto(StillDue, 0))
      BY <2>1, <2>3, <2>4
    <2>6. phase' \in {"rehearse", "exit"}
      BY <1>3 DEF FinishPass
    <2> QED
      BY <1>1, <2>2, <2>5, <2>6 DEF Sorted, Passing, Selects, After, Upto, Rank
  <1>4. CASE phase = "rehearse"
    <2>1. Selects(todo', StillDue)
      BY <1>a, <1>2, <1>4, PassEnds DEF Sorted
    <2>2. phase' \in {"account", "exit"}
      BY <1>4 DEF FinishPass
    <2> QED
      BY <1>1, <2>1, <2>2 DEF Sorted, Selects, Rank
  <1> QED
    BY <1>a, <1>3, <1>4

LEMMA StepSorted ==
    ASSUME Predicting, [Next]_vars, Undisturbed, Undisturbed'
    PROVE  Sorted'
  <1>a. /\ Sound /\ TypeOK /\ StepsInPhase /\ Sorted /\ FirstLook /\ ctx = "live" /\ unchecked \in Nat
    BY DEF Predicting, Excluding, Sound, Tallied, TypeOK, Foreseen, Settling, Undisturbed
  <1>1. CASE SkipExcluded
    <2>1. todo # <<>> /\ Conclude /\ phase' = phase /\ phase = "check" /\ kept' = kept /\ ~Install
      BY <1>1 DEF SkipExcluded, Install, At
    <2>2. ~LooksDue(Current)
      BY <1>a, <1>1, <2>1 DEF SkipExcluded, FirstLook, LooksDue
    <2> QED
      BY <1>a, <2>1, <2>2, TurnSorted
  <1>2. CASE ReadSettings
    BY <1>2, ReadSettingsSorted
  <1>3. CASE RehearsalBlocks \/ RehearsalPasses
    BY <1>3, RehearsalSorted
  <1>4. CASE FinishPass
    BY <1>4, FinishPassSorted
  <1>5. ~DomainFails /\ ~ProbeInterrupted /\ ~Cancel
    BY <1>a DEF DomainFails, ProbeInterrupted, Cancel, Undisturbed
  <1>6. CASE phase' \in {"renew", "exit"}
    BY <1>6 DEF Sorted
  <1>7. CASE \/ ReadAliases \/ StartRehearsal \/ ProbeName \/ Reconsider \/ AddAlias \/ DisablePKI
             \/ UNCHANGED vars
    <2>1. UNCHANGED <<todo, kept, phase>>
      BY <1>7 DEF ReadAliases, StartRehearsal, ProbeName, Reconsider, AddAlias, DisablePKI, vars, run
    <2>2. CASE Install
      BY <2>1, <2>2 DEF Install, At, Sorted
    <2> QED
      BY <1>a, <2>1, <2>2, NothingSorted
  <1>8. NewACMEClient \/ FinishRun \/ PlaceOrder \/ Issued \/ Install \/ RenewFails
        => phase' \in {"renew", "exit"}
    BY <1>a DEF NewACMEClient, FinishRun, PlaceOrder, Issued, Install, RenewFails, At, StepsInPhase
  <1> QED
    BY <1>1, <1>2, <1>3, <1>4, <1>5, <1>6, <1>7, <1>8 DEF Next, RunStep, Exited

-------------------------------------------------------------------------------
(* Who is in hand, and who has not been rehearsed yet. *)

LEMMA UnrehearsedFrom ==
    ASSUME Sound, [Next]_vars
    PROVE  Unrehearsed' \subseteq Unrehearsed \cup
               (IF phase = "check" /\ step = "settings" THEN {AtHand} ELSE {})
  <1>a. TypeOK /\ StepsInPhase
    BY DEF Sound, Tallied
  <1>1. CASE ReadSettings
    <2>1. todo # <<>> /\ Conclude /\ step = "settings" /\ phase' = phase
          /\ (kept' = kept \/ kept' = Append(kept, AtHand))
      BY <1>a, <1>1 DEF ReadSettings, StepsInPhase, AtHand
    <2>2. AtHand \in Decisions
      BY <1>a, <2>1, CurrentTyped DEF AtHand, Decisions, TypeOK
    <2>3. Elements(todo') \subseteq Elements(todo) /\ Elements(kept') \subseteq Elements(kept) \cup {AtHand}
      BY <1>a, <2>1, <2>2, ConcludeKeepsRest, AppendAddsOne
    <2> QED
      BY <2>1, <2>3 DEF Unrehearsed
  <1>2. CASE FinishPass
    BY <1>2 DEF FinishPass, Unrehearsed
  <1>3. CASE SkipExcluded \/ DomainFails \/ RehearsalBlocks \/ RehearsalPasses \/ Issued \/ RenewFails \/ Install
    <2>1. todo # <<>> /\ phase' = phase /\ (phase = "check" => kept' = kept)
          /\ (Conclude \/ UNCHANGED todo)
      BY <1>a, <1>3 DEF SkipExcluded, DomainFails, RehearsalBlocks, RehearsalPasses, Issued,
                        RenewFails, Install, CheckBegins, At, StepsInPhase
    <2>2. Elements(todo') \subseteq Elements(todo)
      BY <1>a, <2>1, ConcludeKeepsRest
    <2> QED
      BY <2>1, <2>2 DEF Unrehearsed
  <1>4. CASE NewACMEClient \/ FinishRun
    BY <1>4 DEF NewACMEClient, FinishRun, Unrehearsed
  <1>5. (\/ ReadAliases \/ StartRehearsal \/ ProbeName \/ ProbeInterrupted \/ Reconsider
         \/ PlaceOrder \/ Cancel \/ AddAlias \/ DisablePKI \/ UNCHANGED vars)
         => UNCHANGED <<todo, kept, phase>>
    BY DEF ReadAliases, StartRehearsal, ProbeName, ProbeInterrupted, Reconsider,
           PlaceOrder, Cancel, AddAlias, DisablePKI, vars, run
  <1>6. CASE UNCHANGED <<todo, kept, phase>>
    BY <1>6 DEF Unrehearsed
  <1> QED
    BY <1>1, <1>2, <1>3, <1>4, <1>5, <1>6 DEF Next, RunStep, Exited

LEMMA StepPredicting == Predicting /\ [Next]_vars => Predicting'
  <1> SUFFICES ASSUME Predicting, [Next]_vars PROVE Predicting'
    OBVIOUS
  <1>a. Sound /\ TypeOK /\ StepsInPhase /\ Excluding /\ Settling /\ FirstLook
    BY DEF Predicting, Excluding, Sound, Tallied, Settling
  <1>1. Excluding' /\ Settling'
    BY <1>a, StepExcluding, StepSettling
  <1>2. ASSUME Undisturbed' PROVE Foreseen'
    <2>1. Undisturbed /\ Foreseen
      BY <1>a, <1>2, UndisturbedBefore DEF Predicting
    <2>2. Sorted'
      BY <1>2, <2>1, StepSorted
    <2>3. \A o \in Unrehearsed' : o.sans = FirstNames(o.domain)'
      <3> SUFFICES ASSUME NEW o \in Unrehearsed' PROVE o.sans = FirstNames(o.domain)'
        OBVIOUS
      <3>1. o.domain \in Domain
        <4>1. TypeOK' /\ Unrehearsed' \subseteq Chosen'
          BY <1>1 DEF Excluding, Sound, Tallied, Unrehearsed, Chosen
        <4>2. o \in Chosen'
          BY <4>1
        <4>3. \A i \in 1..Len(kept') : kept'[i] \in Decisions
          BY <4>1, ElementOfSeq DEF TypeOK
        <4>4. \A i \in 1..Len(todo') : todo'[i] \in Decisions
          BY <4>1, ElementOfSeq DEF TypeOK
        <4> QED
          BY <4>2, <4>3, <4>4 DEF Chosen, Elements, Decisions
      <3>2. FirstNames(o.domain)' = FirstNames(o.domain)
        BY <1>a, <1>2, <3>1, NamesStay
      <3>3. CASE o \in Unrehearsed
        BY <2>1, <3>2, <3>3 DEF Foreseen
      <3>4. CASE o = AtHand /\ phase = "check" /\ step = "settings"
        BY <1>a, <2>1, <3>2, <3>4 DEF Foreseen, FirstLook, NamesNow, FirstNames, AtHand
      <3> QED
        BY <1>a, <3>3, <3>4, UnrehearsedFrom
    <2>4. step' = "settings" => sans' = NamesNow(Current)'
      <3> SUFFICES ASSUME step' = "settings" PROVE sans' = NamesNow(Current)'
        OBVIOUS
      <3>1. CASE ReadAliases
        <4>1. todo # <<>> /\ UNCHANGED <<todo, aliases, excluded>> /\ Current' = Current
          BY <1>a, <3>1 DEF ReadAliases, CheckBegins, At, StepsInPhase, server, Current
        <4>2. Current \in Domain /\ aliases[Current] \in SUBSET Name /\ excluded \in SUBSET Name
          BY <1>a, <4>1, CurrentTyped DEF TypeOK
        <4> QED
          BY <3>1, <4>1, <4>2, NamesTyped, RunAssumption DEF ReadAliases, NamesNow
      <3>2. CASE ~ReadAliases
        <4>1. step = "settings" /\ Current' = Current /\ sans' = sans
          BY <1>a, <3>2, AtHandStep DEF AtHand
        <4>2. Current \in Domain
          BY <1>a, <4>1, CurrentTyped DEF StepsInPhase
        <4>3. excluded' = excluded
          BY <4>1 DEF Next, RunStep, SkipExcluded, ReadAliases, ReadSettings, DomainFails, StartRehearsal,
           ProbeName, ProbeInterrupted, RehearsalBlocks, RehearsalPasses, Reconsider, FinishPass,
           NewACMEClient, FinishRun, PlaceOrder, Issued, Install, RenewFails, Cancel, AddAlias,
           DisablePKI, Exited, vars, run, At
        <4>4. NamesNow(Current)' = NamesNow(Current)
          BY <1>a, <1>2, <4>1, <4>2, <4>3, NamesStay DEF NamesNow
        <4> QED
          BY <2>1, <4>1, <4>4 DEF Foreseen
      <3> QED
        BY <3>1, <3>2
    <2> QED
      BY <2>2, <2>3, <2>4 DEF Foreseen
  <1> QED
    BY <1>1, <1>2 DEF Predicting

LEMMA InitPredicting == Init => Predicting
  <1> SUFFICES ASSUME Init PROVE Foreseen
    BY InitExcluding, InitSettling DEF Predicting
  <1>1. TypeOK
    BY InitTallied DEF Tallied
  <1>2. Unrehearsed = {} /\ step # "settings" /\ phase = "check"
    BY NothingInEmpty DEF Init, Unrehearsed
  <1>3. Len(list) \in Nat /\ Len(todo) = Len(list) /\ kept = <<>>
        /\ \A i \in Places : todo[i].domain = list[i]
    <2>1. Len(list) \in Nat
      BY <1>1, LengthsTyped
    <2>2. Len(todo) = Len(list)
      BY <1>1, <2>1, LenProperties DEF Init, TypeOK
    <2> QED
      BY <2>1, <2>2 DEF Init, Places
  <1>4. After(Places, 0) = Places /\ Upto(FirstDue, 0) = {}
    BY <1>3 DEF After, Upto, Places, FirstDue
  <1>5. \A i \in Places : Rank(i, Places) = i
    <2> SUFFICES ASSUME NEW i \in Places PROVE Rank(i, Places) = i
      OBVIOUS
    <2>1. i \in Nat /\ {j \in Places : j <= i} = 1..i
      BY <1>3 DEF Places
    <2>2. Cardinality(1..i) = i
      BY <2>1, FS_Interval
    <2> QED
      BY <2>1, <2>2 DEF Rank
  <1>6. Cardinality(Places) = Len(todo)
    <2>1. \A n \in Nat : Cardinality(1..n) = n
      BY FS_Interval
    <2> QED
      BY <1>3, <2>1 DEF Places
  <1>7. Selects(todo, After(Places, 0))
    BY <1>3, <1>4, <1>5, <1>6 DEF Selects
  <1>8. Selects(kept, Upto(FirstDue, 0))
    BY <1>1, <1>3, <1>4, SelectsNothing
  <1>9. Passing(Places, FirstDue)
    BY <1>3, <1>7, <1>8 DEF Passing
  <1> QED
    BY <1>2, <1>9 DEF Foreseen, Sorted

\* What a run takes to the CA is what could be foreseen, whatever is excluded and
\* whoever answers: the two looks at a domain come to what WouldRenew says, and
\* the passes of main.go 288-353 keep the order of the list.
THEOREM RunIsForeseen == Spec => []RenewsAsPredicted
  <1>1. Predicting => RenewsAsPredicted
    <2> SUFFICES ASSUME Predicting, phase = "account", unchecked = 0, ctx = "live",
                        added \cup disabled = {}, ProbedAsARule
                 PROVE  LET Predicted(d) == WouldRenew(d, aliases[d], settings[d], conf.exclude, answers, Forced)
                            due == {i \in 1..Len(list) : Predicted(list[i])}
                        IN  /\ Len(todo) = Cardinality(due)
                            /\ \A i \in due : todo[Cardinality({j \in due : j <= i})].domain = list[i]
      BY DEF RenewsAsPredicted
    <2>1. Selects(todo, StillDue) /\ TypeOK
      BY DEF Predicting, Undisturbed, Foreseen, Sorted, Excluding, Sound, Tallied
    <2>2. \A d \in Domain :
             WouldRenew(d, aliases[d], settings[d], conf.exclude, answers, Forced) <=> StaysDue(d)
      <3> SUFFICES ASSUME NEW d \in Domain
                   PROVE  WouldRenew(d, aliases[d], settings[d], conf.exclude, answers, Forced)
                            <=> StaysDue(d)
        OBVIOUS
      <3>1. d \in Name /\ aliases[d] \in SUBSET Name /\ conf.exclude \in SUBSET Name
            /\ answers \in SUBSET Name
        BY <2>1, RunAssumption DEF TypeOK, Configs
      <3> QED
        BY <3>1, WouldRenewMeans DEF StaysDue, LeftNames
    <2>3. \A i \in 1..Len(list) : list[i] \in Domain
      BY <2>1, ElementOfSeq DEF TypeOK
    <2>4. {i \in 1..Len(list) :
              WouldRenew(list[i], aliases[list[i]], settings[list[i]], conf.exclude, answers, Forced)}
          = StillDue
      BY <2>2, <2>3 DEF StillDue, Places
    <2> QED
      BY <2>1, <2>4 DEF Selects, Rank
  <1> QED
    BY <1>1, InitPredicting, StepPredicting, PTL DEF Spec
===============================================================================
