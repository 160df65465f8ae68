----------------------------- MODULE DecisionProofs -----------------------------
(***************************************************************************)
(* Lemmas about the renewal decision that the proofs of a run and of a     *)
(* self-test share: what a growing set of exclusions does to the names of  *)
(* a domain, and to what becomes of it.                                    *)
(***************************************************************************)
EXTENDS Decision, TLAPS

\* The names of a domain with convertible aliases are names.
LEMMA NamesTyped ==
    ASSUME NEW d \in Name, NEW as \in SUBSET Name, NEW ex \in SUBSET Name,
           Convertible(as, ex)
    PROVE  CertificateNames(d, as, ex) \in SUBSET Name
  <1>1. \A a \in as \ ex : ToASCII[a] \in Name
    BY DecisionAssumption DEF Convertible
  <1>2. AliasNames(as, ex) \subseteq Name
    BY <1>1 DEF AliasNames
  <1> QED
    BY <1>2 DEF CertificateNames

\* A fraction of the lifetime is no longer than the lifetime.
LEMMA ThresholdWithin ==
    ASSUME NEW l \in Nat, RenewBefore <= l
    PROVE  RenewalThreshold(l) \in Int /\ RenewalThreshold(l) <= l
  <1> DEFINE window == (FractionNum * l) \div FractionDen
  <1>1. FractionNum \in Nat /\ FractionDen \in Nat \ {0} /\ FractionNum < FractionDen
        /\ RenewBefore \in Nat
    BY DecisionAssumption
  <1>2. window \in Int /\ FractionDen * window <= FractionNum * l
        /\ FractionNum * l \in Int
    BY <1>1
  <1>3. FractionNum * l <= FractionDen * l
    BY <1>1
  <1>4. window <= l
    <2> SUFFICES ASSUME window > l PROVE FALSE
      BY <1>2
    <2> HIDE DEF window
    <2>1. FractionDen * window >= FractionDen * (l + 1)
      BY <1>1, <1>2
    <2>2. FractionDen * (l + 1) = FractionDen * l + FractionDen
      BY <1>1
    <2> QED
      BY <1>1, <1>2, <1>3, <2>1, <2>2
  <1> QED
    BY <1>1, <1>2, <1>4 DEF RenewalThreshold

\* One alias more, at most one name more.
LEMMA AliasWidens ==
    ASSUME NEW d, NEW as, NEW ex, NEW a
    PROVE  CertificateNames(d, as \cup {a}, ex) \subseteq CertificateNames(d, as, ex) \cup {ToASCII[a]}
  BY DEF CertificateNames, AliasNames

LEMMA ExcludingNarrows ==
    ASSUME NEW d, NEW as, NEW ex, NEW more, ex \subseteq more
    PROVE  CertificateNames(d, as, more) \subseteq CertificateNames(d, as, ex)
  BY DEF CertificateNames, AliasNames

\* What has to be renewed for some names has to be for more.
LEMMA VerdictWidens ==
    ASSUME NEW few, NEW many, few \subseteq many, NEW eff, NEW force,
           Verdict(few, eff, force) = "renew"
    PROVE  Verdict(many, eff, force) = "renew"
  BY DEF Verdict, CertificateDue

-------------------------------------------------------------------------------
(* The names of the aliases are those a certificate is made out to. *)

\* A name of an alias, if it is one, stands for itself.
LEMMA AliasNamesFixed ==
    ASSUME NEW as \in SUBSET Name, NEW ex,
           NEW n \in AliasNames(as, ex), n \in Name
    PROVE  ToASCII[n] = n
  <1>1. PICK a \in as : ToASCII[a] = n
    BY DEF AliasNames
  <1> QED
    BY <1>1, ToASCIIAssumption

\* What a rehearsal may add to the exclusions: names that do not answer.
Harmless(ex, more, answers) ==
    /\ ex \subseteq more
    /\ \A x \in more \ ex : x \notin answers /\ ToASCII[x] = x

\* Such names take nothing from the names that answer, in either spelling.
LEMMA HarmlessKeepsAnswering ==
    ASSUME NEW as, NEW ex, NEW more, NEW answers, Harmless(ex, more, answers)
    PROVE  \A n \in answers : n \in AliasNames(as, more) <=> n \in AliasNames(as, ex)
  <1>1. AliasNames(as, more) \subseteq AliasNames(as, ex)
    BY DEF Harmless, AliasNames
  <1>2. ASSUME NEW n \in AliasNames(as, ex) \cap answers PROVE n \in AliasNames(as, more)
    <2>1. PICK a \in as \ ex : ToASCII[a] = n
      BY <1>2 DEF AliasNames
    <2>2. n \notin more
      BY <1>2 DEF Harmless, AliasNames
    <2>3. a \notin more
      BY <1>2, <2>1 DEF Harmless
    <2> QED
      BY <2>1, <2>2, <2>3 DEF AliasNames
  <1> QED
    BY <1>1, <1>2

\* The failing names of a rehearsal are such names.
LEMMA FailingHarmless ==
    ASSUME NEW d, NEW as \in SUBSET Name, NEW ex, NEW more, NEW answers,
           Harmless(ex, more, answers),
           NEW fail \in SUBSET Name, fail \subseteq CertificateNames(d, as, more),
           fail \cap answers = {}
    PROVE  Harmless(ex, more \cup (fail \ {d}), answers)
  <1>1. \A x \in fail \ {d} : ToASCII[x] = x
    BY AliasNamesFixed DEF CertificateNames
  <1> QED
    BY <1>1 DEF Harmless

\* The names that answer, of those a certificate is to cover.
AnsweringNames(d, as, ex, answers) == {d} \cup (AliasNames(as, ex) \cap answers)

\* Whatever was excluded on the way: if all names answer, those are left.
LEMMA AllAnswering ==
    ASSUME NEW d \in Name, NEW as, NEW ex, NEW more, NEW answers \in SUBSET Name,
           Harmless(ex, more, answers),
           CertificateNames(d, as, more) \cap Name \subseteq answers
    PROVE  CertificateNames(d, as, more) \cap Name = AnsweringNames(d, as, ex, answers)
  <1>1. \A n \in answers : n \in AliasNames(as, more) <=> n \in AliasNames(as, ex)
    BY HarmlessKeepsAnswering
  <1> QED
    BY <1>1 DEF CertificateNames, AnsweringNames

\* What becomes of a domain, read off the names that answer: the first look asks
\* for more than the second, so the second is what counts.
LEMMA WouldRenewMeans ==
    ASSUME NEW d \in Name, NEW as \in SUBSET Name, NEW ex \in SUBSET Name,
           NEW answers \in SUBSET Name, NEW eff, NEW force
    PROVE  WouldRenew(d, as, eff, ex, answers, force) <=>
               /\ d \notin ex /\ d \in answers
               /\ Verdict(AnsweringNames(d, as, ex, answers), eff, force) = "renew"
  <1> DEFINE sans == CertificateNames(d, as, ex)
             fail == sans \ answers
             rest == CertificateNames(d, as, ex \cup fail)
             left == AnsweringNames(d, as, ex, answers)
  <1>1. d \notin ex \cup fail <=> d \notin ex /\ d \in answers
    BY DEF CertificateNames
  <1>2. left \subseteq sans
    BY DEF AnsweringNames, CertificateNames
  <1>3. ASSUME d \in answers PROVE rest = left
    <2>1. rest \subseteq left
      <3> SUFFICES ASSUME NEW n \in AliasNames(as, ex \cup fail), n # d
                   PROVE  n \in AliasNames(as, ex) \cap answers
        BY DEF CertificateNames, AnsweringNames
      <3>1. n \in AliasNames(as, ex) /\ n \notin fail
        BY DEF AliasNames
      <3> QED
        BY <3>1 DEF CertificateNames
    <2>2. left \subseteq rest
      <3> SUFFICES ASSUME NEW n \in AliasNames(as, ex) \cap answers
                   PROVE  n \in AliasNames(as, ex \cup fail)
        BY DEF CertificateNames, AnsweringNames
      <3>1. PICK a \in as \ ex : ToASCII[a] = n /\ n \notin ex
        BY DEF AliasNames
      <3>2. a \notin fail
        <4> SUFFICES ASSUME a \in fail PROVE FALSE
          OBVIOUS
        <4>1. a \in AliasNames(as, ex) /\ a \notin answers
          BY <1>3 DEF CertificateNames
        <4>2. ToASCII[a] = a
          BY <4>1, AliasNamesFixed
        <4> QED
          BY <3>1, <4>1, <4>2
      <3> QED
        BY <3>1, <3>2 DEF AliasNames
    <2> QED
      BY <2>1, <2>2
  <1>4. fail = {} => left = sans
    BY DEF AnsweringNames, CertificateNames
  <1>5. Verdict(left, eff, force) = "renew" => Verdict(sans, eff, force) = "renew"
    BY <1>2, VerdictWidens
  <1>6. WouldRenew(d, as, eff, ex, answers, force) <=>
            /\ d \notin ex \cup fail
            /\ Verdict(sans, eff, force) = "renew"
            /\ fail # {} => Verdict(rest, eff, force) = "renew"
    BY DEF WouldRenew
  <1> HIDE DEF sans, fail, rest, left
  <1>7. CASE fail = {}
    BY <1>1, <1>4, <1>6, <1>7 DEF left
  <1>8. CASE fail # {}
    BY <1>1, <1>3, <1>5, <1>6, <1>8 DEF left
  <1> QED
    BY <1>7, <1>8
===============================================================================
