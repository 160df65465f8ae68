------------------------------- MODULE Decision -------------------------------
(***************************************************************************)
(* The renewal decision of check.go as operators: which names a domain's   *)
(* certificate must cover (certificateNames), when a certificate is due    *)
(* (checkDomain, renewalThreshold), and how a rehearsal is read            *)
(* (classifyProbes).  A name is a model value; the only thing known about  *)
(* its spelling is what idna.Lookup.ToASCII makes of it.                   *)
(***************************************************************************)
EXTENDS Integers

CONSTANTS
    Name,           \* every spelling of a domain or an alias
    ToASCII,        \* idna.Lookup.ToASCII, a function on Name
    Unconvertible,  \* its result for a name no IDNA profile converts
    NoCert,         \* SecureCertificate absent from the settings
    Garbled,        \* SecureCertificate that does not decode or parse
    FractionNum, FractionDen,   \* RenewFraction, as a rational
    RenewBefore                 \* the absolute floor, in ticks

Certificate == [names : SUBSET Name, lifetime : Nat, left : Int]

\* The domain settings the tool reads and writes.  "unset" stands for any
\* CertificateType that is neither YES nor NO, the absent one included.
Settings == [certType : {"YES", "NO", "unset"},
             cert     : Certificate \cup {NoCert, Garbled}]

ASSUME DecisionAssumption ==
    /\ ToASCII \in [Name -> Name \cup {Unconvertible}]
    /\ Unconvertible \notin Name
    /\ NoCert \notin Certificate /\ Garbled \notin Certificate
    /\ NoCert # Garbled
    /\ FractionDen \in Nat \ {0} /\ FractionNum \in Nat
    /\ FractionNum < FractionDen        \* LoadConfig: fraction in [0, 1)
    /\ RenewBefore \in Nat              \* LoadConfig: not negative

\* A name that came out of ToASCII stays what it is when it goes in again.
ASSUME ToASCIIAssumption ==
    \A n \in Name : ToASCII[n] \in Name => ToASCII[ToASCII[n]] = ToASCII[n]

-------------------------------------------------------------------------------
(***************************************************************************)
(* certificateNames.  An alias is dropped if either its own spelling or    *)
(* its punycode form is excluded; the spelling is looked at first, so an   *)
(* excluded alias is never converted.                                      *)
(***************************************************************************)
\* Mutation of Convertible: the error of a failed conversion is ignored.
AnyName(aliases, exclude) == TRUE
Convertible(aliases, exclude) ==
    \A a \in aliases \ exclude : ToASCII[a] # Unconvertible

\* Mutation of AliasNames: only the server's spelling is looked up.
SkipsPunycodeCheck(aliases, exclude) ==
    {ToASCII[a] : a \in aliases \ exclude}

AliasNames(aliases, exclude) ==
    {ToASCII[a] : a \in aliases \ exclude} \ exclude

CertificateNames(domain, aliases, exclude) ==
    {domain} \cup AliasNames(aliases, exclude)

-------------------------------------------------------------------------------
(***************************************************************************)
(* renewalThreshold: the larger of the fraction of the lifetime and the    *)
(* floor.  Due: the renewal reasons of checkDomain, in any order, for a    *)
(* certificate that could be read.                                         *)
(***************************************************************************)
\* Mutation of RenewalThreshold: the floor takes the place of the fraction.
FloorIsCeiling(lifetime) ==
    LET window == (FractionNum * lifetime) \div FractionDen
    IN  IF RenewBefore > window THEN window ELSE RenewBefore
RenewalThreshold(lifetime) ==
    LET window == (FractionNum * lifetime) \div FractionDen
    IN  IF RenewBefore > window THEN RenewBefore ELSE window

CertificateDue(sans, cert) ==
    \/ ~(sans \subseteq cert.names)
    \/ cert.left < RenewalThreshold(cert.lifetime)

\* Mutation of Verdict: PKI Services may be disabled.
RenewsDisabled(sans, eff, force) ==
    IF force \/ eff.cert = NoCert \/ eff.certType # "YES" THEN "renew"
    ELSE IF eff.cert = Garbled THEN "error"
    ELSE IF CertificateDue(sans, eff.cert) THEN "renew" ELSE "current"

\* The early returns of checkDomain once the settings have been read.
Verdict(sans, eff, force) ==
    IF eff.certType = "NO" THEN "skipped"
    ELSE IF force \/ eff.cert = NoCert \/ eff.certType # "YES" THEN "renew"
    ELSE IF eff.cert = Garbled THEN "error"
    ELSE IF CertificateDue(sans, eff.cert) THEN "renew" ELSE "current"

-------------------------------------------------------------------------------
(***************************************************************************)
(* classifyProbes: the domain's own failure blocks the renewal, any other  *)
(* failing name is an alias that can be dropped.                           *)
(***************************************************************************)
Blocked(domain, bad) == domain \in bad
BadAliases(domain, bad) == bad \ {domain}

(***************************************************************************)
(* What becomes of a domain when nothing fails on the way: the decision,   *)
(* the rehearsal of its names, and for a domain with failing aliases the   *)
(* decision without them.  Both a run and a self-test arrive at it.        *)
(***************************************************************************)
WouldRenew(domain, aliases, eff, exclude, answers, force) ==
    LET sans == CertificateNames(domain, aliases, exclude)
        bad  == sans \ answers
        rest == CertificateNames(domain, aliases, exclude \cup bad)
    IN  /\ domain \notin exclude \cup bad
        /\ Verdict(sans, eff, force) = "renew"
        /\ bad # {} => Verdict(rest, eff, force) = "renew"
===============================================================================
