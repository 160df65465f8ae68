----------------------------- MODULE InstallProofs ----------------------------
(***************************************************************************)
(* The archive of a domain, whatever material there is and however often   *)
(* the administrator intervenes: as long as the tool's runs on the domain  *)
(* do not overlap, an installation has archived exactly what was read.     *)
(***************************************************************************)
EXTENDS Install, TLAPS

\* Files of seconds to come are not there yet, and an issuance ends in a second
\* no archive was made in.
FreshStamps ==
    /\ \A s \in 0..LastSecond : s > clock => archive[s] = Nothing
    /\ \A r \in Runs : pc[r] = "issued" => archive[clock] = Nothing

\* The fields in front of the next one are archived as read, the others not yet.
ArchivedSoFar ==
    \A r \in Runs : pc[r] = "archive" =>
        /\ stamp[r] <= clock
        /\ \A i \in 1..3 : archive[stamp[r]][Fields[i]] =
              IF i < field[r] THEN snapshot[r][Fields[i]] ELSE Absent

NotYetInstalled ==
    \A r \in Runs : pc[r] # "idle" => ~installed[r]

Archived == TypeOK /\ FreshStamps /\ ArchivedSoFar /\ NotYetInstalled
            /\ (\A r \in Runs : installed[r] => stamp[r] <= clock)
            /\ ArchivedAsRead

LEMMA TheFields ==
  /\ Len(Fields) = 3
  /\ Fields[1] = "PrivateSecureKey" /\ Fields[2] = "SecureCertificate" /\ Fields[3] = "CAChain"
  /\ Field = {"PrivateSecureKey", "SecureCertificate", "CAChain"}
  /\ \A i \in 1..3 : Fields[i] \in Field
  /\ \A i, j \in 1..3 : i # j => Fields[i] # Fields[j]
  /\ \A f \in Field : \E i \in 1..3 : f = Fields[i]
  <1>1. Len(Fields) = 3 /\ Fields[1] = "PrivateSecureKey"
        /\ Fields[2] = "SecureCertificate" /\ Fields[3] = "CAChain"
    BY DEF Fields
  <1>2. \A i \in 1..3 : i = 1 \/ i = 2 \/ i = 3
    OBVIOUS
  <1>3. Field = {Fields[i] : i \in 1..3}
    BY <1>1 DEF Field
  <1>4. Field = {"PrivateSecureKey", "SecureCertificate", "CAChain"}
    BY <1>1, <1>2, <1>3
  <1> QED
    BY <1>1, <1>2, <1>3, <1>4

LEMMA NextField ==
  ASSUME NEW i \in [Runs -> 1..4], NEW r \in Runs, i[r] \in 1..3
  PROVE  [i EXCEPT ![r] = @ + 1] \in [Runs -> 1..4]
  <1>1. i[r] + 1 \in 1..4
    OBVIOUS
  <1> QED
    BY <1>1

LEMMA SameFields ==
  ASSUME NEW S, NEW T, NEW a \in [Field -> S], NEW b \in [Field -> T],
         \A f \in Field : a[f] = b[f]
  PROVE  a = b
  OBVIOUS

-------------------------------------------------------------------------------
LEMMA TypeOKStep == TypeOK /\ [Next]_vars => TypeOK'
  <1> SUFFICES ASSUME TypeOK, [Next]_vars PROVE TypeOK'
    OBVIOUS
  <1> USE InstallAssumption, TheFields DEF TypeOK, Stored, Goto
  <1>1. CASE UNCHANGED vars
    BY <1>1 DEF vars, server, local
  <1>2. ASSUME NEW r \in Runs, Issue(r) PROVE TypeOK'
    BY <1>2 DEF Issue, server
  <1>3. ASSUME NEW r \in Runs, ReadSettings(r) PROVE TypeOK'
    BY <1>3 DEF ReadSettings, server
  <1>4. ASSUME NEW r \in Runs, SkipField(r) PROVE TypeOK'
    <2>1. field[r] \in 1..3 /\ field' = [field EXCEPT ![r] = @ + 1]
      BY <1>4 DEF SkipField, Archiving
    <2>2. field' \in [Runs -> 1..4]
      BY <2>1
    <2>3. UNCHANGED <<settings, archive, clock, pc, new, snapshot, stamp, used, installed>>
      BY <1>4 DEF SkipField, server, local
    <2> QED
      BY <2>2, <2>3
  <1>5. ASSUME NEW r \in Runs, ArchiveField(r) PROVE TypeOK'
    <2>1. field[r] \in 1..3 /\ InHand(r) \in Material /\ stamp[r] \in 0..LastSecond
      BY <1>5 DEF ArchiveField, Archiving
    <2>2. archive' \in [0..LastSecond -> [Field -> Material \cup {Absent}]]
      BY <1>5, <2>1 DEF ArchiveField
    <2>3. field' = [field EXCEPT ![r] = @ + 1] \/ field' = field
      BY <1>5 DEF ArchiveField
    <2>4. [field EXCEPT ![r] = @ + 1] \in [Runs -> 1..4]
      BY <2>1, NextField
    <2>5. field' \in [Runs -> 1..4]
      BY <2>3, <2>4
    <2>6. pc' \in [Runs -> {"idle", "issued", "archive"}]
      BY <1>5 DEF ArchiveField
    <2>7. UNCHANGED <<settings, clock, new, snapshot, stamp, used, installed>>
      BY <1>5 DEF ArchiveField, local
    <2> QED
      BY <2>2, <2>5, <2>6, <2>7
  <1>6. ASSUME NEW r \in Runs, ArchiveFails(r) PROVE TypeOK'
    BY <1>6 DEF ArchiveFails, server, local
  <1>7. ASSUME NEW r \in Runs, InstallCertificate(r) PROVE TypeOK'
    <2>1. settings' \in [Field -> Material \cup {Absent, Garbled}]
      BY <1>7 DEF InstallCertificate
    <2> QED
      BY <1>7, <2>1 DEF InstallCertificate, local
  <1>8. ASSUME NEW r \in Runs, Fails(r) PROVE TypeOK'
    BY <1>8 DEF Fails, server, local
  <1>9. CASE EditByHand
    BY <1>9 DEF EditByHand, local
  <1>10. CASE Tick
    BY <1>10 DEF Tick, server, local
  <1> QED
    BY <1>1, <1>2, <1>3, <1>4, <1>5, <1>6, <1>7, <1>8, <1>9, <1>10 DEF Next, RunStep

LEMMA InitArchived == Init => Archived
  <1> SUFFICES ASSUME Init PROVE Archived
    OBVIOUS
  <1> USE InstallAssumption, TheFields DEF Init, Nothing
  <1>1. TypeOK
    BY DEF TypeOK, Stored
  <1> QED
    BY <1>1 DEF Archived, FreshStamps, ArchivedSoFar, NotYetInstalled, ArchivedAsRead

\* The archive of a domain keeps its type, however many runs overlap.
THEOREM InstallTyped == Spec => []TypeOK
  <1>1. Init => TypeOK
    BY InitArchived DEF Archived
  <1> QED
    BY <1>1, TypeOKStep, PTL DEF Spec

-------------------------------------------------------------------------------
LEMMA ArchivedStep ==
  ASSUME NEW r, Runs = {r}
  PROVE  Archived /\ [Next]_vars => Archived'
  <1> SUFFICES ASSUME Archived, [Next]_vars PROVE Archived'
    OBVIOUS
  <1>t. TypeOK'
    BY TypeOKStep DEF Archived
  <1> USE <1>t, InstallAssumption, TheFields
      DEF Archived, TypeOK, FreshStamps, ArchivedSoFar, NotYetInstalled,
          ArchivedAsRead, Stored, Goto
  <1>1. CASE UNCHANGED vars
    BY <1>1 DEF vars, server, local
  <1>2. CASE Issue(r)
    BY <1>2 DEF Issue, server
  <1>3. CASE ReadSettings(r)
    BY <1>3 DEF ReadSettings, server, Nothing
  <1>4. CASE SkipField(r)
    BY <1>4 DEF SkipField, Archiving, InHand, server, local
  <1>5. CASE ArchiveField(r)
    <2>1. field[r] \in 1..3 /\ stamp[r] \in 0..LastSecond /\ stamp[r] <= clock
          /\ ~installed[r] /\ pc[r] = "archive"
      BY <1>5 DEF ArchiveField, Archiving
    <2>2. archive' = [archive EXCEPT ![stamp[r]][Fields[field[r]]] = snapshot[r][Fields[field[r]]]]
      BY <1>5 DEF ArchiveField, InHand
    <2>3. \A s \in 0..LastSecond : s # stamp[r] => archive'[s] = archive[s]
      BY <2>1, <2>2
    <2>4. \A i \in 1..3 : archive'[stamp[r]][Fields[i]] =
            IF i = field[r] THEN snapshot[r][Fields[i]] ELSE archive[stamp[r]][Fields[i]]
      BY <2>1, <2>2
    <2> QED
      BY <1>5, <2>1, <2>3, <2>4 DEF ArchiveField, local
  <1>6. CASE ArchiveFails(r)
    BY <1>6 DEF ArchiveFails, server, local
  <1>7. CASE InstallCertificate(r)
    <2>1. field[r] = 4
      BY <1>7 DEF InstallCertificate
    <2>2. \A i \in 1..3 : archive[stamp[r]][Fields[i]] = snapshot[r][Fields[i]]
      BY <1>7, <2>1 DEF InstallCertificate
    <2>3. archive[stamp[r]] \in [Field -> Material \cup {Absent}]
          /\ snapshot[r] \in [Field -> Material \cup {Absent, Garbled}]
      OBVIOUS
    <2>4. \A f \in Field : archive[stamp[r]][f] = snapshot[r][f]
      BY <2>2
    <2>5. archive[stamp[r]] = snapshot[r]
      BY ONLY <2>3, <2>4, SameFields
    <2> QED
      BY <1>7, <2>5 DEF InstallCertificate, local
  <1>8. CASE Fails(r)
    BY <1>8 DEF Fails, server, local
  <1>9. CASE EditByHand
    BY <1>9 DEF EditByHand, local
  <1>10. CASE Tick
    BY <1>10 DEF Tick, server, local
  <1> QED
    BY <1>1, <1>2, <1>3, <1>4, <1>5, <1>6, <1>7, <1>8, <1>9, <1>10 DEF Next, RunStep

\* Runs that follow one another leave in the archive, under the stamp of each
\* installation, all the fields it had read and nothing else.
THEOREM ArchiveIsWhole ==
  ASSUME NEW r, Runs = {r}
  PROVE  Spec => []ArchivedAsRead
  <1>1. Archived /\ [Next]_vars => Archived'
    BY ArchivedStep
  <1>2. Archived => ArchivedAsRead
    BY DEF Archived
  <1> QED
    BY <1>1, <1>2, InitArchived, PTL DEF Spec
===============================================================================
