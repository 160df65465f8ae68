---------------------------- MODULE SelfTestProofs ----------------------------
(***************************************************************************)
(* Theorems about SelfTest, for every server, list and exclusion: what an  *)
(* exit status of 0 vouches for, whatever failed or was interrupted.       *)
(***************************************************************************)
EXTENDS SelfTest, DecisionProofs, SequenceTheorems, FiniteSetTheorems, TLAPS

\* The names of finitely many aliases are finitely many.
LEMMA NamesFinite ==
    ASSUME NEW d, NEW as, NEW ex, IsFiniteSet(as)
    PROVE  IsFiniteSet(CertificateNames(d, as, ex))
  <1> DEFINE live == as \ ex
             image == {ToASCII[a] : a \in live}
             f == [a \in live |-> ToASCII[a]]
  <1>1. IsFiniteSet(live)
    BY FS_Subset
  <1>2. f \in Surjection(live, image)
    BY DEF Surjection
  <1>3. IsFiniteSet(image)
    <2> HIDE DEF live, image, f
    <2> QED
      BY <1>1, <1>2, FS_Surjection
  <1>4. AliasNames(as, ex) \in SUBSET image
    BY DEF AliasNames
  <1>5. IsFiniteSet(AliasNames(as, ex))
    BY <1>3, <1>4, FS_Subset
  <1>6. CertificateNames(d, as, ex) = AliasNames(as, ex) \cup {d}
    BY DEF CertificateNames
  <1> QED
    BY <1>5, <1>6, FS_AddElement

\* A finite set as a sequence: its members, and nothing else.
LEMMA SequenceOfSet ==
    ASSUME NEW S, IsFiniteSet(S)
    PROVE  /\ SetToSeq(S) \in Seq(S)
           /\ \A x \in S : \E i \in 1..Len(SetToSeq(S)) : SetToSeq(S)[i] = x
  <1> DEFINE n == Cardinality(S)
  <1>1. n \in Nat /\ ExistsBijection(1..n, S)
    BY FS_CardinalityType
  <1>2. \E f \in [1..n -> S] : IsInjective(f)
    BY <1>1 DEF ExistsBijection, Bijection, Injection, IsInjective
  <1>3. SetToSeq(S) \in [1..n -> S] /\ IsInjective(SetToSeq(S))
    BY <1>2 DEF SetToSeq
  <1>4. SetToSeq(S) \in Seq(S) /\ Len(SetToSeq(S)) = n
    BY <1>1, <1>3, SeqDef, LenProperties
  <1>5. IsFiniteSet(1..n) /\ Cardinality(1..n) = n
    BY <1>1, FS_Interval
  <1>6. SetToSeq(S) \in Injection(1..n, S)
    BY <1>3 DEF Injection
  <1>7. SetToSeq(S) \in Surjection(1..n, S)
    BY <1>5, <1>6, FS_Injection
  <1> QED
    BY <1>4, <1>7 DEF Surjection

-------------------------------------------------------------------------------
(***************************************************************************)
(* The inductive invariant: while nothing failed and no error was counted, *)
(* every domain done is vouched for and nothing has joined the exclusions. *)
(***************************************************************************)
Clean == errored = 0 /\ ~Failed

VouchedFor(d) == d \notin exclude =>
    LET names == CertificateNames(d, aliases[d], exclude)
    IN  \/ settings[d].certType = "NO" /\ Reported(d, d, "SKIP")
        \/ names \subseteq answers \cup Unsteady /\ \A n \in names : Reported(d, n, "PASS")

\* The domains the report vouches for.
Sure == {d \in Domain : VouchedFor(d)}

Started == aliases \in StartAliases /\ list \in Seq(Domain) /\ exclude \in SUBSET Name
           /\ IsFiniteSet(sans)

\* What is left of the list is its end.
Done == Len(list) - Len(todo)
InOrder ==
    /\ Len(todo) <= Len(list)
    /\ \A i \in 1..Len(todo) : todo[i] = list[Done + i]

InStep ==
    /\ step \in {"probe", "conclude", "reconsider"} => todo # <<>>
    /\ step = "exit" => todo = <<>>
    /\ status # "running" => step = "exit"
    /\ status = "ok" => Clean

VouchedSoFar ==
    /\ excluded = exclude
    /\ \A i \in 1..Done : list[i] \in Sure
    /\ step \in {"probe", "conclude"} =>
           sans = CertificateNames(Current, aliases[Current], exclude)
    /\ step = "probe" => sans \subseteq toProbe \cup bad \cup answers \cup Unsteady
    /\ step = "conclude" => bad = {} /\ Current \in Sure
    /\ step # "reconsider"

Shaped == TypeOK /\ Started /\ InOrder /\ InStep
Vouched == Shaped /\ (Clean => VouchedSoFar)

-------------------------------------------------------------------------------
(* The list and the table *)

LEMMA CurrentTyped ==
    ASSUME TypeOK, todo # <<>>
    PROVE  Current \in Domain /\ Current \in Name /\ Current = todo[1]
  <1>1. Head(todo) \in Domain /\ Head(todo) = todo[1]
    BY HeadTailProperties DEF TypeOK
  <1> QED
    BY <1>1, SelfTestAssumption DEF Current

\* The domain at hand is done: it is the next of the list.
LEMMA OneDone ==
    ASSUME Shaped, todo # <<>>, todo' = Tail(todo), list' = list
    PROVE  /\ todo' \in Seq(Domain) /\ InOrder' /\ Done' = Done + 1
           /\ Done \in Nat /\ Current = list[Done + 1]
  <1>1. /\ Len(list) \in Nat /\ Len(todo) \in Nat \ {0}
        /\ todo' \in Seq(Domain) /\ Len(todo') = Len(todo) - 1
        /\ \A i \in 1..Len(todo') : todo'[i] = todo[i + 1]
    BY HeadTailProperties, LenProperties, EmptySeq DEF Shaped, TypeOK
  <1>2. Done' = Done + 1 /\ Done \in Nat
    BY <1>1 DEF Done, Shaped, InOrder
  <1>3. Current = list[Done + 1]
    BY <1>1, CurrentTyped DEF Shaped, InOrder
  <1>4. InOrder'
    <2> SUFFICES ASSUME NEW i \in 1..Len(todo') PROVE todo'[i] = list[Done + 1 + i]
      BY <1>1, <1>2 DEF InOrder, Shaped
    <2>1. todo'[i] = todo[i + 1] /\ i + 1 \in 1..Len(todo)
      BY <1>1
    <2>2. todo[i + 1] = list[Done + (i + 1)]
      BY <2>1 DEF Shaped, InOrder
    <2> QED
      BY <1>2, <2>1, <2>2
  <1> QED
    BY <1>1, <1>2, <1>3, <1>4

Grows == \A i \in 1..Len(rows) : i \in 1..Len(rows') /\ rows'[i] = rows[i]

\* What the table says it keeps saying.
LEMMA RowsStay ==
    ASSUME Grows, UNCHANGED <<server, options>>
    PROVE  /\ Failed => Failed'
           /\ Sure \subseteq Sure'
  <1>1. Failed => Failed'
    BY DEF Grows, Failed
  <1>2. \A d, n, s : Reported(d, n, s) => Reported(d, n, s)'
    BY DEF Grows, Reported
  <1>3. UNCHANGED <<aliases, settings, answers, exclude>>
    BY DEF server, options
  <1> QED
    BY <1>1, <1>2, <1>3 DEF Sure, VouchedFor

LEMMA UnchangedGrows == ASSUME rows' = rows PROVE Grows
  BY DEF Grows

\* The table afterwards has a row about the domain at hand.
Tells(n, s) == \E i \in 1..Len(rows') : rows'[i] = [domain |-> Current, name |-> n, status |-> s]

LEMMA ReportGrows ==
    ASSUME TypeOK, todo # <<>>, NEW s \in {"PASS", "FAIL", "SKIP", "ERROR"}, Report(Current, s)
    PROVE  rows' \in Seq(Row) /\ Grows /\ Tells(Current, s)
  <1> DEFINE row == [domain |-> Current, name |-> Current, status |-> s]
  <1>1. row \in Row
    BY CurrentTyped DEF Row
  <1>2. /\ rows' \in Seq(Row) /\ Len(rows) \in Nat /\ Len(rows') = Len(rows) + 1
        /\ \A i \in 1..Len(rows) : rows'[i] = rows[i]
        /\ rows'[Len(rows) + 1] = row
    BY <1>1, AppendProperties, LenProperties DEF Report, TypeOK
  <1>3. Grows
    BY <1>2 DEF Grows
  <1> QED
    BY <1>2, <1>3 DEF Tells

\* A row for each name probed, and no row but these.
LEMMA ReportNamesGrows ==
    ASSUME Shaped, ReportNames
    PROVE  /\ rows' \in Seq(Row) /\ Grows
           /\ \A n \in sans : Tells(n, IF n \in bad THEN "FAIL" ELSE "PASS")
  <1> DEFINE RowOf(n) == [domain |-> Current, name |-> n,
                          status |-> IF n \in bad THEN "FAIL" ELSE "PASS"]
             rest == SetToSeq(sans \ {Current})
             names == <<Current>> \o rest
             new == [i \in 1..Len(names) |-> RowOf(names[i])]
  <1>1. Current \in Domain /\ Current \in Name /\ sans \subseteq Name
    BY CurrentTyped DEF ReportNames, At, Shaped, TypeOK
  <1>2. /\ rest \in Seq(sans \ {Current})
        /\ \A n \in sans \ {Current} : \E i \in 1..Len(rest) : rest[i] = n
    <2>1. IsFiniteSet(sans \ {Current})
      BY FS_Subset DEF Shaped, Started
    <2> QED
      BY <2>1, SequenceOfSet
  <1>3. rest \in Seq(Name) /\ <<Current>> \in Seq(Name) /\ Len(<<Current>>) = 1
        /\ <<Current>>[1] = Current
    BY <1>1, <1>2, SeqMonotonic
  <1>4. /\ names \in Seq(Name) /\ Len(names) = 1 + Len(rest) /\ Len(rest) \in Nat
        /\ names[1] = Current /\ \A i \in 1..Len(rest) : names[i + 1] = rest[i]
    <2> HIDE DEF rest
    <2>1. /\ names \in Seq(Name) /\ Len(names) = 1 + Len(rest) /\ Len(rest) \in Nat
          /\ \A i \in 1..(1 + Len(rest)) :
                names[i] = IF i <= 1 THEN <<Current>>[i] ELSE rest[i - 1]
      BY <1>3, ConcatProperties, LenProperties
    <2>2. names[1] = Current
      BY <1>3, <2>1
    <2>3. ASSUME NEW i \in 1..Len(rest) PROVE names[i + 1] = rest[i]
      <3>1. i + 1 \in 1..(1 + Len(rest)) /\ ~(i + 1 <= 1) /\ (i + 1) - 1 = i
        BY <2>1
      <3> QED
        BY <2>1, <3>1
    <2> QED
      BY <2>1, <2>2, <2>3
  <1>5. \A n \in sans : \E i \in 1..Len(names) : names[i] = n
    <2> SUFFICES ASSUME NEW n \in sans PROVE \E i \in 1..Len(names) : names[i] = n
      OBVIOUS
    <2>1. CASE n = Current
      BY <1>4, <2>1
    <2>2. CASE n # Current
      <3>1. PICK i \in 1..Len(rest) : rest[i] = n
        BY <1>2, <2>2
      <3>2. i + 1 \in 1..Len(names) /\ names[i + 1] = n
        BY <1>4, <3>1
      <3> QED
        BY <3>2
    <2> QED
      BY <2>1, <2>2
  <1> HIDE DEF names
  <1>6. \A i \in 1..Len(names) : RowOf(names[i]) \in Row
    BY <1>1, <1>4, ElementOfSeq DEF Row
  <1>7. new \in Seq(Row) /\ Len(new) = Len(names)
    <2>1. Len(names) \in Nat
      BY <1>4
    <2>2. new \in [1..Len(names) -> Row]
      BY <1>6
    <2> QED
      BY <2>1, <2>2, SeqDef, LenProperties
  <1>8. rows' = rows \o new
    BY DEF ReportNames, names
  <1> HIDE DEF new
  <1>9. /\ rows' \in Seq(Row) /\ Len(rows) \in Nat /\ Len(rows') = Len(rows) + Len(new)
        /\ \A i \in 1..(Len(rows) + Len(new)) :
              rows'[i] = IF i <= Len(rows) THEN rows[i] ELSE new[i - Len(rows)]
    <2>1. rows \in Seq(Row) /\ new \in Seq(Row)
      BY <1>7 DEF Shaped, TypeOK
    <2> HIDE DEF Row
    <2>2. Len(rows) \in Nat
      BY <2>1, LenProperties
    <2>3. /\ (rows \o new) \in Seq(Row) /\ Len(rows \o new) = Len(rows) + Len(new)
          /\ \A i \in 1..(Len(rows) + Len(new)) :
                (rows \o new)[i] = IF i <= Len(rows) THEN rows[i] ELSE new[i - Len(rows)]
      BY <2>1, ConcatProperties
    <2> QED
      BY <1>8, <2>2, <2>3
  <1>10. Grows
    BY <1>4, <1>7, <1>9 DEF Grows
  <1>11. ASSUME NEW n \in sans
         PROVE  Tells(n, IF n \in bad THEN "FAIL" ELSE "PASS")
    <2>1. PICK i \in 1..Len(names) : names[i] = n
      BY <1>5
    <2>2. new[i] = RowOf(n)
      BY <2>1 DEF new
    <2>3. i + Len(rows) \in 1..Len(rows') /\ rows'[i + Len(rows)] = new[i]
      <3>1. /\ i + Len(rows) \in 1..(Len(rows) + Len(new))
            /\ ~(i + Len(rows) <= Len(rows)) /\ (i + Len(rows)) - Len(rows) = i
        BY <1>4, <1>7, <1>9
      <3> QED
        BY <1>9, <3>1
    <2> QED
      BY <2>2, <2>3 DEF Tells
  <1> QED
    BY <1>9, <1>10, <1>11

-------------------------------------------------------------------------------
(* The shape of the report, action by action. *)

\* The end of a domain's turn, however it ended.
LEMMA TurnShaped ==
    ASSUME Shaped, todo # <<>>, NextDomain, rows' \in Seq(Row), step # "exit",
           UNCHANGED <<aliases, list, exclude, ctx, sans, renew, toProbe, bad, status>>,
           excluded' \in SUBSET Name,
           renewals' \in Nat, blocked' \in Nat, errored' \in Nat
    PROVE  Shaped'
  <1>1. todo' \in Seq(Domain) /\ InOrder' /\ step' = "next"
    BY OneDone DEF NextDomain
  <1>2. TypeOK'
    BY <1>1 DEF Shaped, TypeOK
  <1>3. Started'
    BY DEF Shaped, Started
  <1>4. InStep'
    BY <1>1 DEF Shaped, InStep, TypeOK
  <1> QED
    BY <1>1, <1>2, <1>3, <1>4 DEF Shaped

LEMMA TurnsShaped ==
    ASSUME Shaped, SkipExcluded \/ CheckFails \/ Reconsider \/ (Conclude /\ NextDomain)
                   \/ (CheckDomain /\ NextDomain)
    PROVE  Shaped'
  <1>1. todo # <<>> /\ step # "exit"
    BY DEF Shaped, InStep, SkipExcluded, CheckFails, Reconsider, Conclude, CheckDomain, At
  <1>2. CASE SkipExcluded
    BY <1>1, <1>2, TurnShaped
       DEF SkipExcluded, server, options, decision, counters, Shaped, TypeOK
  <1>3. CASE CheckFails
    <2>1. rows' \in Seq(Row)
      BY <1>1, <1>3, ReportGrows DEF CheckFails, Shaped
    <2> QED
      BY <1>1, <1>3, <2>1, TurnShaped DEF CheckFails, server, options, decision, Shaped, TypeOK
  <1>4. CASE Reconsider
    BY <1>1, <1>4, TurnShaped DEF Reconsider, server, options, decision, Shaped, TypeOK
  <1>5. CASE Conclude /\ NextDomain
    <2>1. excluded' \in SUBSET Name
      BY <1>5 DEF Conclude, BadAliases, Shaped, TypeOK
    <2>2. renewals' \in Nat /\ blocked' \in Nat /\ errored' = errored
      BY <1>5 DEF Conclude, Shaped, TypeOK
    <2> QED
      BY <1>1, <1>5, <2>1, <2>2, TurnShaped DEF Conclude, server, options, decision, Shaped, TypeOK
  <1>6. CASE CheckDomain /\ NextDomain
    <2>1. Report(Current, "SKIP") /\ UNCHANGED decision
      BY <1>6 DEF CheckDomain, NextDomain
    <2>2. rows' \in Seq(Row)
      BY <1>1, <2>1, ReportGrows DEF Shaped
    <2> QED
      BY <1>1, <1>6, <2>1, <2>2, TurnShaped
         DEF CheckDomain, server, options, decision, counters, Shaped, TypeOK
  <1> QED
    BY <1>2, <1>3, <1>4, <1>5, <1>6

LEMMA ShapedStep == Shaped /\ [Next]_vars => Shaped'
  <1> SUFFICES ASSUME Shaped, [Next]_vars PROVE Shaped'
    OBVIOUS
  <1>1. CASE UNCHANGED vars
    <2>1. UNCHANGED <<aliases, ctx, exclude, list, todo, step, excluded, sans, renew, toProbe, bad,
                      rows, renewals, blocked, errored, status>>
      BY <1>1 DEF vars, server, options, decision, counters
    <2> QED
      BY <2>1 DEF Shaped, TypeOK, Started, InOrder, Done, InStep, Clean, Failed
  <1>2. CASE SkipExcluded \/ CheckFails \/ Reconsider \/ (Conclude /\ NextDomain)
             \/ (CheckDomain /\ NextDomain)
    BY <1>2, TurnsShaped
  <1>3. CASE CheckDomain /\ ~NextDomain
    <2>1. /\ step = "next" /\ step' = "probe" /\ todo # <<>> /\ UNCHANGED <<todo, rows>>
          /\ sans' = CertificateNames(Current, aliases[Current], excluded)
          /\ toProbe' = sans' /\ bad' = {} /\ renew' \in BOOLEAN
          /\ Convertible(aliases[Current], excluded)
          /\ UNCHANGED <<server, ctx, options, excluded, counters, status>>
      BY <1>3 DEF CheckDomain, At
    <2>2. /\ Current \in Domain /\ aliases[Current] \in SUBSET Name /\ excluded \in SUBSET Name
          /\ IsFiniteSet(aliases[Current])
      BY <2>1, CurrentTyped, SelfTestAssumption DEF Shaped, TypeOK, Started
    <2>3. sans' \in SUBSET Name /\ IsFiniteSet(sans')
      BY <2>1, <2>2, NamesTyped, NamesFinite, SelfTestAssumption
    <2>4. TypeOK'
      BY <2>1, <2>3 DEF Shaped, TypeOK, options, counters
    <2>5. Started' /\ InOrder'
      BY <2>1, <2>3 DEF Shaped, Started, InOrder, Done, server, options
    <2>6. InStep'
      BY <2>1 DEF Shaped, InStep, TypeOK
    <2> QED
      BY <2>4, <2>5, <2>6 DEF Shaped
  <1>4. CASE ProbeName
    <2>1. /\ step = "probe" /\ UNCHANGED <<server, options, todo, step, excluded, sans, renew, rows, counters, status>>
          /\ \E n \in toProbe : toProbe' = toProbe \ {n} /\ bad' \in SUBSET (bad \cup {n})
          /\ ctx' \in {ctx, "done"}
      BY <1>4 DEF ProbeName, At
    <2>2. toProbe' \in SUBSET sans /\ bad' \in SUBSET sans
      BY <2>1 DEF Shaped, TypeOK
    <2>3. TypeOK'
      BY <2>1, <2>2 DEF Shaped, TypeOK, options, counters
    <2>4. Started' /\ InOrder' /\ InStep'
      BY <2>1 DEF Shaped, Started, InOrder, Done, InStep, TypeOK, server, options
    <2> QED
      BY <2>3, <2>4 DEF Shaped
  <1>5. CASE ReportNames
    <2>1. rows' \in Seq(Row)
      BY <1>5, ReportNamesGrows
    <2>2. step = "probe" /\ step' = "conclude" /\ todo # <<>> /\
          UNCHANGED <<server, ctx, options, todo, excluded, decision, counters, status>>
      BY <1>5 DEF ReportNames, At
    <2>3. TypeOK'
      BY <2>1, <2>2 DEF Shaped, TypeOK, options, decision, counters
    <2>4. Started' /\ InOrder' /\ InStep'
      BY <2>2 DEF Shaped, Started, InOrder, Done, InStep, TypeOK, server, options, decision
    <2> QED
      BY <2>3, <2>4 DEF Shaped
  <1>6. CASE Conclude /\ ~NextDomain
    <2>1. /\ step = "conclude" /\ step' = "reconsider" /\ todo # <<>>
          /\ excluded' = excluded \cup BadAliases(Current, bad)
          /\ UNCHANGED <<server, ctx, options, todo, decision, rows, counters, status>>
      BY <1>6 DEF Conclude, At, counters
    <2>2. excluded' \in SUBSET Name
      BY <2>1 DEF Shaped, TypeOK, BadAliases
    <2>3. TypeOK'
      BY <2>1, <2>2 DEF Shaped, TypeOK, options, decision, counters
    <2>4. Started' /\ InOrder' /\ InStep'
      BY <2>1 DEF Shaped, Started, InOrder, Done, InStep, TypeOK, server, options, decision
    <2> QED
      BY <2>3, <2>4 DEF Shaped
  <1>7. CASE Exit
    <2>1. /\ todo = <<>> /\ step' = "exit"
          /\ status' = IF Failed \/ errored > 0 THEN "error" ELSE "ok"
          /\ UNCHANGED <<server, ctx, options, todo, excluded, decision, rows, counters>>
      BY <1>7 DEF Exit
    <2>2. TypeOK'
      BY <2>1 DEF Shaped, TypeOK, options, decision, counters
    <2>3. status' = "ok" => Clean'
      BY <2>1 DEF Clean, Failed, counters, Shaped, TypeOK
    <2>4. Started' /\ InOrder' /\ InStep'
      BY <2>1, <2>3 DEF Shaped, Started, InOrder, Done, InStep, server, options, decision
    <2> QED
      BY <2>2, <2>4 DEF Shaped
  <1>8. CASE Cancel
    <2>1. ctx' = "done" /\ UNCHANGED <<server, options, todo, step, excluded, decision, rows, counters, status>>
      BY <1>8 DEF Cancel
    <2> QED
      BY <2>1 DEF Shaped, TypeOK, Started, InOrder, Done, InStep, Clean, Failed,
                  server, options, decision, counters
  <1> QED
    BY <1>1, <1>2, <1>3, <1>4, <1>5, <1>6, <1>7, <1>8 DEF Next, Exited

-------------------------------------------------------------------------------
(* What the report vouches for, action by action. *)

\* The turn of a domain that is vouched for ends.
LEMMA TurnVouched ==
    ASSUME Vouched, VouchedSoFar, todo # <<>>, NextDomain, Grows,
           Current \in Sure, UNCHANGED <<server, options, excluded>>
    PROVE  VouchedSoFar'
  <1>1. Done' = Done + 1 /\ Done \in Nat /\ Current = list[Done + 1] /\ step' = "next"
    BY OneDone DEF Vouched, NextDomain, options
  <1>2. list' = list /\ excluded' = exclude'
    BY DEF options, VouchedSoFar
  <1>3. \A i \in 1..Done' : list[i] \in Sure
    BY <1>1 DEF VouchedSoFar
  <1>4. \A i \in 1..Done' : list[i] \in Sure'
    BY <1>3, RowsStay
  <1> QED
    BY <1>1, <1>2, <1>4 DEF VouchedSoFar

\* So far, so good: a step within a domain's turn.
LEMMA TurnGoesOn ==
    ASSUME VouchedSoFar, Grows, UNCHANGED <<server, options, excluded, todo>>
    PROVE  /\ excluded' = exclude' /\ Done' = Done /\ list' = list
           /\ \A i \in 1..Done' : list'[i] \in Sure'
  <1>1. Done' = Done /\ list' = list /\ excluded' = exclude'
    BY DEF Done, options, VouchedSoFar
  <1>2. \A i \in 1..Done : list[i] \in Sure'
    BY RowsStay DEF VouchedSoFar
  <1> QED
    BY <1>1, <1>2

LEMMA VouchedStep == Vouched /\ [Next]_vars => Vouched'
  <1> SUFFICES ASSUME Vouched, [Next]_vars, Clean' PROVE VouchedSoFar'
    BY ShapedStep DEF Vouched
  <1>a. Shaped /\ TypeOK /\ Shaped'
    BY ShapedStep DEF Vouched, Shaped
  <1>1. CASE UNCHANGED vars
    <2>1. UNCHANGED <<server, options, todo, step, excluded, decision, rows, errored>>
      BY <1>1 DEF vars, counters
    <2>2. UNCHANGED <<aliases, settings, answers, exclude, list, sans, toProbe, bad, Current>>
      BY <2>1 DEF server, options, decision, Current
    <2>3. Clean
      BY <2>1 DEF Clean, Failed
    <2> QED
      BY <2>1, <2>2, <2>3 DEF Vouched, VouchedSoFar, Sure, VouchedFor, Reported, Done
  <1>2. CASE SkipExcluded
    <2>1. /\ todo # <<>> /\ NextDomain /\ Current \in excluded
          /\ UNCHANGED <<server, options, excluded, rows, errored>>
      BY <1>2 DEF SkipExcluded, At, counters
    <2>2. VouchedSoFar
      BY <2>1 DEF Clean, Failed, Vouched
    <2> QED
      <3>1. Current \in Sure
        BY <1>a, <2>1, <2>2, CurrentTyped DEF VouchedSoFar, Sure, VouchedFor
      <3> QED
        BY <2>1, <2>2, <3>1, TurnVouched, UnchangedGrows
  <1>3. CASE CheckDomain /\ NextDomain
    <2>1. /\ todo # <<>> /\ step = "next" /\ Report(Current, "SKIP")
          /\ settings[Current].certType = "NO"
          /\ UNCHANGED <<server, options, excluded, errored>>
      BY <1>3 DEF CheckDomain, At, NextDomain, Verdict, counters
    <2>2. Grows /\ Tells(Current, "SKIP")
      BY <1>a, <2>1, ReportGrows
    <2>3. VouchedSoFar
      BY <2>1, <2>2, RowsStay DEF Clean, Vouched
    <2>4. NextDomain /\ Done' = Done + 1 /\ Done \in Nat /\ Current = list[Done + 1] /\ step' = "next"
      BY <1>3, <1>a, <2>1, OneDone DEF NextDomain, options
    <2>6. UNCHANGED <<aliases, settings, answers, exclude, list>> /\ excluded' = exclude'
      BY <2>1, <2>3 DEF server, options, VouchedSoFar
    <2>7. \A i \in 1..Done : list[i] \in Sure'
      BY <2>1, <2>2, <2>3, RowsStay DEF VouchedSoFar
    <2>8. Current \in Sure'
      <3>1. Current \in Domain
        BY <1>a, <2>1, CurrentTyped
      <3> QED
        BY <2>1, <2>2, <2>6, <3>1 DEF Sure, VouchedFor, Reported, Tells
    <2>9. \A i \in 1..Done' : list'[i] \in Sure'
      BY <2>4, <2>6, <2>7, <2>8
    <2> QED
      BY <2>4, <2>6, <2>9 DEF VouchedSoFar
  <1>4. CASE CheckDomain /\ ~NextDomain
    <2>1. /\ step' = "probe" /\ UNCHANGED <<todo, rows>> /\ todo # <<>>
          /\ sans' = CertificateNames(Current, aliases[Current], excluded) /\ toProbe' = sans'
          /\ UNCHANGED <<server, options, excluded, errored>>
      BY <1>4 DEF CheckDomain, At, counters
    <2>2. VouchedSoFar
      BY <2>1 DEF Clean, Failed, Vouched
    <2>3. /\ excluded' = exclude' /\ Done' = Done /\ list' = list
          /\ \A i \in 1..Done' : list'[i] \in Sure'
      BY <2>1, <2>2, TurnGoesOn, UnchangedGrows
    <2>4. sans' = CertificateNames(Current, aliases[Current], exclude)' /\ Current' = Current
      BY <2>1, <2>2 DEF server, options, VouchedSoFar, Current
    <2> QED
      BY <2>1, <2>3, <2>4 DEF VouchedSoFar
  <1>5. CASE CheckFails
    <2>1. errored' = errored + 1 /\ errored \in Nat
      BY <1>5, <1>a DEF CheckFails, TypeOK
    <2> QED
      BY <2>1 DEF Clean
  <1>6. CASE ProbeName
    <2>1. /\ step = "probe" /\ step' = step
          /\ UNCHANGED <<server, options, todo, excluded, sans, rows, errored>>
          /\ \E n \in toProbe : /\ toProbe' = toProbe \ {n}
                                /\ n \in answers \cup Unsteady \cup bad' /\ bad \subseteq bad'
      BY <1>6 DEF ProbeName, Verdicts, At, counters
    <2>2. VouchedSoFar
      BY <2>1 DEF Clean, Failed, Vouched
    <2>3. /\ excluded' = exclude' /\ Done' = Done /\ list' = list
          /\ \A i \in 1..Done' : list'[i] \in Sure'
      BY <2>1, <2>2, TurnGoesOn, UnchangedGrows
    <2>4. UNCHANGED <<Current, aliases, answers, exclude>>
      BY <2>1 DEF server, options, Current
    <2>5. (sans \subseteq toProbe \cup bad \cup answers \cup Unsteady)'
      BY <2>1, <2>2, <2>4 DEF VouchedSoFar
    <2> QED
      BY <2>1, <2>2, <2>3, <2>4, <2>5 DEF VouchedSoFar
  <1>7. CASE ReportNames
    <2>1. /\ step = "probe" /\ toProbe = {} /\ step' = "conclude" /\ todo # <<>>
          /\ UNCHANGED <<server, options, todo, excluded, sans, bad, errored>>
      BY <1>7 DEF ReportNames, At, decision, counters
    <2>2. Grows /\ \A n \in sans : Tells(n, IF n \in bad THEN "FAIL" ELSE "PASS")
      BY <1>7, <1>a, ReportNamesGrows
    <2>3. VouchedSoFar
      BY <2>1, <2>2, RowsStay DEF Clean, Vouched
    <2>4. \A n \in sans : n \notin bad
      <3> SUFFICES ASSUME NEW n \in sans, n \in bad PROVE FALSE
        OBVIOUS
      <3>1. Tells(n, "FAIL")
        BY <2>2
      <3> QED
        BY <3>1 DEF Tells, Clean, Failed
    <2>5. bad = {} /\ sans \subseteq answers \cup Unsteady
      BY <1>a, <2>1, <2>3, <2>4 DEF TypeOK, VouchedSoFar
    <2>6. /\ excluded' = exclude' /\ Done' = Done /\ list' = list
          /\ \A i \in 1..Done' : list'[i] \in Sure'
      BY <2>1, <2>2, <2>3, TurnGoesOn
    <2>7. UNCHANGED <<Current, aliases, settings, answers, exclude>>
      BY <2>1 DEF server, options, Current
    <2>8. sans = CertificateNames(Current, aliases[Current], exclude)
      BY <2>1, <2>3 DEF VouchedSoFar
    <2>9. \A n \in sans : Reported(Current, n, "PASS")'
      BY <2>2, <2>4, <2>7 DEF Tells, Reported
    <2>10. Current' \in Sure'
      <3>1. Current \in Domain
        BY <1>a, <2>1, CurrentTyped
      <3>2. (sans \subseteq answers \cup Unsteady)' /\ sans' = sans
        BY <2>1, <2>5, <2>7
      <3> QED
        BY <2>7, <2>8, <2>9, <3>1, <3>2 DEF Sure, VouchedFor
    <2> QED
      BY <2>1, <2>5, <2>6, <2>7, <2>8, <2>10 DEF VouchedSoFar
  <1>8. CASE Conclude
    <2>1. step = "conclude" /\ todo # <<>> /\ UNCHANGED <<server, options, rows, errored>>
      BY <1>8 DEF Conclude, At
    <2>2. VouchedSoFar
      BY <2>1 DEF Clean, Failed, Vouched
    <2>3. bad = {} /\ Current \in Sure
      BY <2>1, <2>2 DEF VouchedSoFar
    <2>4. NextDomain /\ excluded' = excluded
      BY <1>8, <2>3 DEF Conclude, Blocked
    <2> QED
      BY <2>1, <2>2, <2>3, <2>4, TurnVouched, UnchangedGrows
  <1>9. CASE Reconsider
    <2>1. step = "reconsider" /\ UNCHANGED rows /\ errored' \in {errored, errored + 1}
      BY <1>9 DEF Reconsider, At
    <2>2. errored \in Nat
      BY <1>a DEF TypeOK
    <2>3. Clean
      BY <2>1, <2>2 DEF Clean, Failed
    <2> QED
      BY <2>1, <2>3 DEF Vouched, VouchedSoFar
  <1>10. CASE Exit \/ Cancel
    <2>1. /\ UNCHANGED <<server, options, todo, excluded, decision, rows, errored>>
          /\ step' \in {step, "exit"}
      BY <1>10 DEF Exit, Cancel, counters
    <2>2. UNCHANGED <<aliases, settings, answers, exclude, list, sans, toProbe, bad, Current>>
      BY <2>1 DEF server, options, decision, Current
    <2>3. Clean
      BY <2>1 DEF Clean, Failed
    <2> QED
      BY <2>1, <2>2, <2>3 DEF Vouched, VouchedSoFar, Sure, VouchedFor, Reported, Done
  <1> QED
    BY <1>1, <1>2, <1>3, <1>4, <1>5, <1>6, <1>7, <1>8, <1>9, <1>10 DEF Next, Exited

LEMMA InitVouched == Init => Vouched
  <1> SUFFICES ASSUME Init PROVE Vouched
    OBVIOUS
  <1>1. list \in Seq(Domain) /\ exclude \in SUBSET Name /\ todo = list /\ Len(list) \in Nat
    BY SelfTestAssumption, LenProperties DEF Init
  <1>2. rows = <<>> /\ rows \in Seq(Row)
    BY EmptySeq DEF Init
  <1>3. TypeOK
    BY <1>1, <1>2 DEF Init, TypeOK
  <1>4. IsFiniteSet(sans)
    BY FS_EmptySet DEF Init
  <1>5. Started
    BY <1>1, <1>4 DEF Init, Started
  <1>6. InOrder /\ Done = 0
    BY <1>1 DEF InOrder, Done
  <1>7. InStep
    BY DEF Init, InStep
  <1>8. VouchedSoFar
    BY <1>6 DEF Init, VouchedSoFar
  <1> QED
    BY <1>3, <1>5, <1>6, <1>7, <1>8 DEF Vouched, Shaped

\* The table, the lists and the counters are always of their types.
THEOREM SelfTestTyped == Spec => []TypeOK
  <1>1. Vouched => TypeOK
    BY DEF Vouched, Shaped
  <1> QED
    BY <1>1, InitVouched, VouchedStep, PTL DEF Spec

\* Whatever is on the server and whatever fails on the way, a self-test only
\* exits with 0 if every selected domain was found disabled or all its names
\* answered, and the table says so.
THEOREM ZeroIsVouchedFor == Spec => []ZeroVouchesForAll
  <1>1. Vouched => ZeroVouchesForAll
    <2> SUFFICES ASSUME Vouched, status = "ok", NEW i \in 1..Len(list), list[i] \notin exclude
                 PROVE  LET d == list[i]
                            names == CertificateNames(d, aliases[d], exclude)
                        IN  \/ settings[d].certType = "NO" /\ Reported(d, d, "SKIP")
                            \/ /\ names \subseteq answers \cup Unsteady
                               /\ \A n \in names : Reported(d, n, "PASS")
      BY DEF ZeroVouchesForAll
    <2>1. VouchedSoFar /\ todo = <<>>
      BY DEF Vouched, Shaped, InStep
    <2>2. Done = Len(list)
      BY <2>1, EmptySeq, LenProperties DEF Done, Vouched, Shaped, Started
    <2>3. VouchedFor(list[i])
      BY <2>1, <2>2 DEF VouchedSoFar, Sure
    <2> QED
      BY <2>3 DEF VouchedFor
  <1> QED
    BY <1>1, InitVouched, VouchedStep, PTL DEF Spec

-------------------------------------------------------------------------------
(***************************************************************************)
(* What the report counts is what a run would do.  While no error was      *)
(* counted, no signal came and the table tells who answers, only names     *)
(* that do not answer have joined the exclusions, and every domain done    *)
(* was counted as WouldRenew says.                                         *)
(***************************************************************************)
Undisturbed == errored = 0 /\ ctx = "live" /\ ReportedAsARule

Renewed(d) == WouldRenew(d, aliases[d], settings[d], exclude, answers, force)
Counted == {i \in 1..Done : Renewed(list[i])}
NamesNow(d) == CertificateNames(d, aliases[d], excluded)

Foreseen ==
    /\ Harmless(exclude, excluded, answers)
    /\ renewals = Cardinality(Counted)
    /\ step \notin {"next", "exit"} => Current \notin exclude
    /\ step \in {"probe", "conclude"} =>
        /\ sans = NamesNow(Current)
        /\ renew <=> Verdict(sans, settings[Current], force) = "renew"
    /\ step = "conclude" => bad \cap answers = {} /\ sans \subseteq bad \cup answers
    /\ step = "reconsider" => Current \in answers /\ NamesNow(Current) \cap Name \subseteq answers
Predicting == Shaped /\ answers \in SUBSET Name /\ (Undisturbed => Foreseen)

\* The domain at hand, and everything its decision is made of.
LEMMA AtHandTyped ==
    ASSUME Predicting, todo # <<>>
    PROVE  /\ Current \in Name /\ aliases[Current] \in SUBSET Name /\ answers \in SUBSET Name
           /\ exclude \in SUBSET Name /\ excluded \in SUBSET Name
  BY CurrentTyped, SelfTestAssumption DEF Predicting, Shaped, Started, TypeOK

\* What becomes of it, read off the names that answer.
LEMMA RenewedMeans ==
    ASSUME Predicting, todo # <<>>
    PROVE  Renewed(Current) <=>
               /\ Current \notin exclude /\ Current \in answers
               /\ Verdict(AnsweringNames(Current, aliases[Current], exclude, answers),
                          settings[Current], force) = "renew"
  BY AtHandTyped, WouldRenewMeans DEF Renewed

\* If all names that are left answer, the verdict on them is what becomes of it.
LEMMA LastVerdict ==
    ASSUME Predicting, Foreseen, todo # <<>>, Current \notin exclude, Current \in answers,
           NamesNow(Current) \in SUBSET Name, NamesNow(Current) \subseteq answers
    PROVE  Renewed(Current) <=> Verdict(NamesNow(Current), settings[Current], force) = "renew"
  <1>1. NamesNow(Current) = AnsweringNames(Current, aliases[Current], exclude, answers)
    <2>1. NamesNow(Current) \cap Name = NamesNow(Current)
      OBVIOUS
    <2> QED
      BY <2>1, AtHandTyped, AllAnswering DEF Foreseen, NamesNow
  <1> QED
    BY <1>1, RenewedMeans

\* The first verdict is on more names than the last.
LEMMA FirstVerdict ==
    ASSUME Predicting, Foreseen, todo # <<>>, Renewed(Current)
    PROVE  Verdict(NamesNow(Current), settings[Current], force) = "renew"
  <1> DEFINE left == AnsweringNames(Current, aliases[Current], exclude, answers)
  <1>1. \A n \in answers : n \in AliasNames(aliases[Current], excluded)
                              <=> n \in AliasNames(aliases[Current], exclude)
    BY HarmlessKeepsAnswering DEF Foreseen
  <1>2. left \subseteq NamesNow(Current)
    BY <1>1 DEF AnsweringNames, NamesNow, CertificateNames
  <1>3. Verdict(left, settings[Current], force) = "renew"
    BY RenewedMeans
  <1> QED
    BY <1>2, <1>3, VerdictWidens

\* The end of a domain's turn, which counts it or not.
LEMMA TurnCounted ==
    ASSUME Predicting, Foreseen, todo # <<>>, NextDomain, UNCHANGED <<server, options>>,
           renewals' = IF Renewed(Current) THEN renewals + 1 ELSE renewals,
           Harmless(exclude, excluded', answers)
    PROVE  Foreseen'
  <1>1. Done' = Done + 1 /\ Done \in Nat /\ Current = list[Done + 1] /\ step' = "next"
    BY OneDone DEF Predicting, NextDomain, options
  <1>2. UNCHANGED <<aliases, settings, answers, exclude, list, force>>
    BY DEF server, options
  <1>3. Counted' = {i \in 1..(Done + 1) : Renewed(list[i])}
    BY <1>1, <1>2 DEF Counted, Renewed
  <1>4. IsFiniteSet(Counted) /\ Cardinality(Counted) \in Nat /\ Done + 1 \notin Counted
    <2>1. IsFiniteSet(1..Done) /\ Counted \in SUBSET (1..Done)
      BY <1>1, FS_Interval DEF Counted
    <2>2. IsFiniteSet(Counted)
      BY <2>1, FS_Subset
    <2> QED
      BY <1>1, <2>1, <2>2, FS_CardinalityType
  <1>5. \A i : i \in 1..(Done + 1) <=> i \in 1..Done \/ i = Done + 1
    BY <1>1
  <1>6. Counted' = IF Renewed(Current) THEN Counted \cup {Done + 1} ELSE Counted
    <2>1. CASE Renewed(Current)
      BY <1>1, <1>3, <1>5, <2>1 DEF Counted
    <2>2. CASE ~Renewed(Current)
      BY <1>1, <1>3, <1>5, <2>2 DEF Counted
    <2> QED
      BY <2>1, <2>2
  <1>7. Cardinality(Counted') = IF Renewed(Current) THEN Cardinality(Counted) + 1
                                                    ELSE Cardinality(Counted)
    BY <1>4, <1>6, FS_AddElement
  <1>8. renewals' = Cardinality(Counted')
    BY <1>7 DEF Foreseen
  <1> QED
    BY <1>1, <1>2, <1>8 DEF Foreseen

-------------------------------------------------------------------------------
(* The report's steps, and what each of them foresees. *)

\* No step takes a row back.
LEMMA EveryStepGrows ==
    ASSUME Shaped, [Next]_vars
    PROVE  Grows
  <1>1. CASE CheckDomain
    <2>1. rows' = rows \/ (todo # <<>> /\ Report(Current, "SKIP"))
      BY <1>1 DEF CheckDomain, At
    <2> QED
      BY <2>1, ReportGrows, UnchangedGrows DEF Shaped
  <1>2. CASE CheckFails
    BY <1>2, ReportGrows DEF CheckFails, At, Shaped
  <1>3. CASE ReportNames
    BY <1>3, ReportNamesGrows
  <1>4. CASE ~CheckDomain /\ ~CheckFails /\ ~ReportNames
    BY <1>4, UnchangedGrows
       DEF Next, SkipExcluded, ProbeName, Conclude, Reconsider, Exit, Cancel, Exited, vars
  <1> QED
    BY <1>1, <1>2, <1>3, <1>4

\* Nothing but a signal, an error or a row disturbs a report.
LEMMA UndisturbedBefore ==
    ASSUME Shaped, [Next]_vars, Undisturbed'
    PROVE  Undisturbed
  <1>1. /\ errored' \in {errored, errored + 1} /\ answers' = answers
        /\ ctx' = "live" => ctx = "live"
    BY DEF Next, SkipExcluded, CheckDomain, CheckFails, ProbeName, ReportNames, Conclude, Reconsider,
           Exit, Cancel, Exited, vars, counters, server
  <1>2. ReportedAsARule
    BY <1>1, EveryStepGrows DEF Undisturbed, ReportedAsARule, Grows
  <1> QED
    BY <1>1, <1>2 DEF Undisturbed, Shaped, TypeOK

\* A domain that is excluded by now is none a run would renew.
LEMMA SkipForeseen ==
    ASSUME Predicting, Foreseen, SkipExcluded
    PROVE  Foreseen'
  <1>1. todo # <<>> /\ NextDomain /\ UNCHANGED <<server, options, excluded, renewals>>
    BY DEF SkipExcluded, At, counters
  <1>2. ~Renewed(Current)
    <2>1. Current \in excluded
      BY DEF SkipExcluded
    <2> QED
      BY <1>1, <2>1, RenewedMeans DEF Foreseen, Harmless
  <1> QED
    BY <1>1, <1>2, TurnCounted DEF Foreseen

\* A domain that is disabled is none either; any other is probed.
LEMMA CheckForeseen ==
    ASSUME Predicting, Foreseen, CheckDomain
    PROVE  Foreseen'
  <1>1. /\ todo # <<>> /\ Current \notin exclude /\ UNCHANGED <<server, options, excluded, renewals>>
        /\ aliases' = aliases /\ settings' = settings /\ answers' = answers /\ exclude' = exclude
        /\ list' = list /\ force' = force
    BY DEF CheckDomain, At, counters, server, options, Foreseen, Harmless
  <1>2. CASE NextDomain
    <2>1. Verdict(NamesNow(Current), settings[Current], force) # "renew"
      BY <1>2 DEF CheckDomain, NextDomain, NamesNow
    <2> QED
      BY <1>1, <1>2, <2>1, FirstVerdict, TurnCounted DEF Foreseen
  <1>3. CASE ~NextDomain
    <2>1. /\ sans' = NamesNow(Current) /\ toProbe' = sans' /\ bad' = {}
          /\ renew' = (Verdict(sans', settings[Current], force) = "renew")
          /\ step' = "probe" /\ todo' = todo
      BY <1>3 DEF CheckDomain, NamesNow
    <2>2. Done' = Done /\ Counted' = Counted
      BY <1>1, <2>1 DEF Done, Counted, Renewed
    <2>3. Current' = Current /\ NamesNow(Current)' = NamesNow(Current)
      BY <1>1, <2>1 DEF Current, NamesNow
    <2>4. renew' <=> Verdict(sans', settings'[Current'], force') = "renew"
      BY <1>1, <2>1, <2>3
    <2> QED
      BY <1>1, <2>1, <2>2, <2>3, <2>4 DEF Foreseen
  <1> QED
    BY <1>2, <1>3

\* A table that agrees with who answers tells that the probes did.
LEMMA ProbeForeseen ==
    ASSUME Predicting, Foreseen, ProbeName \/ ReportNames, ReportedAsARule'
    PROVE  Foreseen'
  <1>1. /\ UNCHANGED <<aliases, settings, answers, force, exclude, list, todo, excluded, renewals,
                       sans, renew>>
        /\ step = "probe" /\ step' \in {"probe", "conclude"}
    BY DEF ProbeName, ReportNames, At, server, options, counters, decision
  <1>2. Done' = Done /\ Counted' = Counted /\ Current' = Current
        /\ NamesNow(Current)' = NamesNow(Current)
    BY <1>1 DEF Done, Counted, Renewed, Current, NamesNow
  <1>3. step' = "conclude" => bad' \cap answers = {} /\ sans \subseteq bad' \cup answers
    <2>1. CASE ProbeName
      BY <1>1, <2>1 DEF ProbeName
    <2>2. CASE ReportNames
      <3>1. bad' = bad /\ bad \subseteq sans
        BY <2>2 DEF ReportNames, decision, Predicting, Shaped, TypeOK
      <3>2. ASSUME NEW n \in sans
            PROVE  IF n \in bad THEN n \notin answers ELSE n \in answers
        <4>1. Tells(n, IF n \in bad THEN "FAIL" ELSE "PASS")
          BY <2>2, ReportNamesGrows DEF Predicting
        <4> QED
          BY <1>1, <4>1 DEF Tells, ReportedAsARule
      <3> QED
        BY <3>1, <3>2
    <2> QED
      BY <2>1, <2>2
  <1> QED
    BY <1>1, <1>2, <1>3 DEF Foreseen

\* What the probes found is the last word, but for a domain with failing aliases.
LEMMA ConcludeForeseen ==
    ASSUME Predicting, Foreseen, Conclude
    PROVE  Foreseen'
  <1>1. /\ todo # <<>> /\ step = "conclude" /\ Current \notin exclude
        /\ sans = NamesNow(Current) /\ sans \in SUBSET Name /\ bad \subseteq sans
        /\ renew <=> Verdict(sans, settings[Current], force) = "renew"
        /\ bad \cap answers = {} /\ sans \subseteq bad \cup answers
    BY DEF Conclude, At, Foreseen, Predicting, Shaped, TypeOK
  <1>2. /\ UNCHANGED <<server, options>> /\ Harmless(exclude, excluded, answers)
        /\ UNCHANGED <<aliases, settings, answers, force, exclude, list>>
    BY DEF Conclude, server, options, Foreseen
  <1>3. Current \in sans
    BY <1>1 DEF NamesNow, CertificateNames
  <1>4. CASE ~renew
    <2>1. NextDomain /\ UNCHANGED <<excluded, renewals>> /\ ~Renewed(Current)
      BY <1>1, <1>4, FirstVerdict DEF Conclude
    <2> QED
      BY <1>1, <1>2, <2>1, TurnCounted
  <1>5. CASE renew /\ Blocked(Current, bad)
    <2>1. NextDomain /\ UNCHANGED <<excluded, renewals>>
      BY <1>5 DEF Conclude, Blocked
    <2>2. ~Renewed(Current)
      BY <1>1, <1>5, RenewedMeans DEF Blocked
    <2> QED
      BY <1>1, <1>2, <2>1, <2>2, TurnCounted
  <1>6. CASE renew /\ bad = {}
    <2>1. NextDomain /\ renewals' = renewals + 1 /\ excluded' = excluded
      BY <1>6 DEF Conclude, Blocked
    <2>2. Renewed(Current)
      BY <1>1, <1>3, <1>6, LastVerdict
    <2> QED
      BY <1>1, <1>2, <2>1, <2>2, TurnCounted
  <1>7. CASE renew /\ ~Blocked(Current, bad) /\ bad # {}
    <2>1. /\ excluded' = excluded \cup (bad \ {Current}) /\ step' = "reconsider"
          /\ UNCHANGED <<todo, renewals>>
      BY <1>7 DEF Conclude, BadAliases
    <2>2. Current \in answers /\ Current' = Current /\ Done' = Done /\ Counted' = Counted
      BY <1>1, <1>2, <1>3, <1>7, <2>1 DEF Blocked, Current, Done, Counted, Renewed
    <2>3. Harmless(exclude, excluded', answers)
      BY <1>1, <1>2, <2>1, AtHandTyped, FailingHarmless DEF NamesNow
    <2>4. NamesNow(Current)' \subseteq answers
      <3>1. NamesNow(Current)' \subseteq sans /\ \A n \in NamesNow(Current)' : n = Current \/ n \notin bad
        BY <1>1, <1>2, <2>1, <2>2, ExcludingNarrows DEF NamesNow, CertificateNames, AliasNames
      <3> QED
        BY <1>1, <2>2, <3>1
    <2> QED
      BY <1>1, <1>2, <2>1, <2>2, <2>3, <2>4 DEF Foreseen
  <1> QED
    BY <1>4, <1>5, <1>6, <1>7

\* The second verdict is on the names that answer.
LEMMA ReconsiderForeseen ==
    ASSUME Predicting, Foreseen, Reconsider, errored' = errored
    PROVE  Foreseen'
  <1>1. /\ todo # <<>> /\ step = "reconsider" /\ NextDomain
        /\ UNCHANGED <<server, options, excluded>>
        /\ Current \notin exclude /\ Current \in answers
        /\ NamesNow(Current) \cap Name \subseteq answers
    BY DEF Reconsider, At, Foreseen
  <1>2. errored \in Nat
    BY DEF Predicting, Shaped, TypeOK
  <1>3. /\ Convertible(aliases[Current], excluded)
        /\ renewals' = IF Verdict(NamesNow(Current), settings[Current], force) = "renew"
                       THEN renewals + 1 ELSE renewals
    BY <1>2 DEF Reconsider, NamesNow
  <1>4. NamesNow(Current) \in SUBSET Name
    BY <1>1, <1>3, AtHandTyped, NamesTyped DEF NamesNow
  <1>5. Renewed(Current) <=> Verdict(NamesNow(Current), settings[Current], force) = "renew"
    <2>1. NamesNow(Current) \subseteq answers
      BY <1>1, <1>4
    <2> QED
      BY <1>1, <1>4, <2>1, LastVerdict
  <1> QED
    BY <1>1, <1>3, <1>5, TurnCounted DEF Foreseen

LEMMA PredictingStep == Predicting /\ [Next]_vars => Predicting'
  <1> SUFFICES ASSUME Predicting, [Next]_vars PROVE Predicting'
    OBVIOUS
  <1>1. Shaped /\ Shaped'
    BY ShapedStep DEF Predicting
  <1>2. answers' \in SUBSET Name
    BY DEF Predicting, Next, SkipExcluded, CheckDomain, CheckFails, ProbeName, ReportNames, Conclude,
           Reconsider, Exit, Cancel, Exited, vars, server
  <1>3. ASSUME Undisturbed' PROVE Foreseen'
    <2>1. Undisturbed /\ Foreseen /\ errored' = errored
      <3>1. Undisturbed
        BY <1>1, <1>3, UndisturbedBefore
      <3> QED
        BY <1>3, <3>1 DEF Undisturbed, Predicting
    <2>2. ~CheckFails /\ ~Cancel
      BY <1>3, <2>1 DEF CheckFails, Cancel, Undisturbed
    <2>3. CASE Exit \/ UNCHANGED vars
      <3>1. /\ UNCHANGED <<aliases, settings, answers, force, exclude, list, todo, excluded, renewals,
                           sans, renew, bad>>
            /\ step' = step \/ step' = "exit"
        BY <2>3 DEF Exit, vars, server, options, counters, decision
      <3>2. Done' = Done /\ Counted' = Counted /\ Current' = Current
            /\ NamesNow(Current)' = NamesNow(Current)
        BY <3>1 DEF Done, Counted, Renewed, Current, NamesNow
      <3> QED
        BY <2>1, <3>1, <3>2 DEF Foreseen
    <2> QED
      BY <1>3, <2>1, <2>2, <2>3, SkipForeseen, CheckForeseen, ProbeForeseen, ConcludeForeseen,
         ReconsiderForeseen
         DEF Next, Exited, Undisturbed
  <1> QED
    BY <1>1, <1>2, <1>3 DEF Predicting

LEMMA InitPredicting == Init => Predicting
  <1> SUFFICES ASSUME Init PROVE Predicting
    OBVIOUS
  <1>1. Shaped /\ answers \in SUBSET Name
    BY InitVouched, SelfTestAssumption DEF Vouched, Init
  <1>2. Done = 0
    BY <1>1, LenProperties DEF Init, Done, Shaped, TypeOK
  <1>3. Counted = {}
    BY <1>2 DEF Counted
  <1> QED
    BY <1>1, <1>3, FS_EmptySet DEF Predicting, Foreseen, Init, Harmless

\* The number at the end of an undisturbed report is that of the domains a run
\* renews, for every list, every exclusion and whoever answers: what the rehearsal
\* of one domain excludes from the rest of the report takes from it no name that
\* answers (selftest.go 183-188, 246-265).
THEOREM ReportCountsTheRun == Spec => []PredictsTheRun
  <1>1. Predicting => PredictsTheRun
    <2> SUFFICES ASSUME Predicting, step = "exit", errored = 0, ctx = "live", ReportedAsARule
                 PROVE  renewals = Cardinality({i \in 1..Len(list) : Renewed(list[i])})
      BY DEF PredictsTheRun, Renewed
    <2>1. renewals = Cardinality(Counted) /\ todo = <<>>
      BY DEF Predicting, Undisturbed, Foreseen, Shaped, InStep
    <2>2. Done = Len(list)
      BY <2>1, EmptySeq, LenProperties DEF Done, Predicting, Shaped, Started
    <2> QED
      BY <2>1, <2>2 DEF Counted
  <1> QED
    BY <1>1, InitPredicting, PredictingStep, PTL DEF Spec
===============================================================================
