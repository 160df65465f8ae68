--------------------------------- MODULE Run ----------------------------------
(***************************************************************************)
(* One renewal run: the check loop, the rehearsal and the renewal loop of  *)
(* main.go and selftest.go, one action per server round trip whose answer  *)
(* the run branches on.  The server's administrator edits domains and the  *)
(* operator interrupts the run at any moment in between.  What a Skin file *)
(* goes through is in Challenge; here a probe is its verdict.              *)
(***************************************************************************)
EXTENDS Decision, Sequences, FiniteSets

CONSTANTS
    Domain,         \* the domains of the server
    Lists,          \* the lists selectDomains may return
    Excludes,       \* the exclude sets an operator may configure
    StartAliases,   \* the alias assignments the run may find
    StartSettings,  \* the settings a domain may start with
    AnswerSets,     \* the sets of names that answer http-01 as a rule
    Unsteady,       \* names whose answer may differ from one fetch to the next
    LateAliases,    \* per domain, aliases that may appear during the run
    LateDisable,    \* domains whose PKI Services may be disabled meanwhile
    Lifetime        \* validity of a newly issued certificate

ASSUME RunAssumption ==
    /\ Domain \subseteq Name
    /\ Lists \subseteq Seq(Domain)
    /\ Excludes \subseteq SUBSET Name
    /\ StartAliases \subseteq [Domain -> SUBSET Name]
    /\ StartSettings \subseteq [Domain -> Settings]
    /\ AnswerSets \subseteq SUBSET Name
    /\ Unsteady \subseteq Name
    /\ LateAliases \in [Domain -> SUBSET Name]
    /\ LateDisable \subseteq Domain
    /\ Lifetime \in Nat

VARIABLES
    (* the CGP server, the network and the process's context *)
    aliases, settings, answers, ctx,
    (* the run *)
    conf,       \* --force, --staging and domains.exclude
    list,       \* what selectDomains returned
    phase, step,
    todo,       \* decisions the current phase has not concluded
    kept,       \* decisions handed on to the next phase
    excluded,   \* the excluded map, shared by all domains of the run
    sans,       \* d.SANs of the checkDomain call in progress
    toProbe,    \* names probeNames has still to probe
    bad,        \* names whose probe failed
    unchecked, blocked, failed, status,
    (* history *)
    settled,    \* concluded without a failure
    passed,     \* names that passed a probe
    blamed,     \* names a probe was failed for
    orders,     \* decisions an ACME order was created for
    added,      \* names of aliases that appeared during the run
    disabled    \* domains whose PKI Services were disabled during the run

server  == <<aliases, settings>>
fixed   == <<answers, conf, list>>
tally   == <<unchecked, blocked, failed>>
edits   == <<added, disabled>>
vars    == <<server, fixed, ctx, phase, step, todo, kept, excluded, sans, toProbe,
             bad, tally, status, settled, passed, blamed, orders, edits>>

Configs == [force : BOOLEAN, staging : BOOLEAN, exclude : SUBSET Name]

\* A decision still to be acted on: the domain and its SANs.
Decisions == [domain : Domain, sans : SUBSET Name]

TypeOK ==
    /\ aliases \in [Domain -> SUBSET Name]
    /\ settings \in [Domain -> Settings]
    /\ answers \in SUBSET Name
    /\ ctx \in {"live", "done"}
    /\ conf \in Configs
    /\ list \in Seq(Domain)
    /\ phase \in {"check", "rehearse", "account", "renew", "exit"}
    /\ step \in {"next", "probe", "aliases", "settings", "issue", "install"}
    /\ todo \in Seq(Decisions) /\ kept \in Seq(Decisions)
    /\ excluded \in SUBSET Name /\ sans \in SUBSET Name
    /\ toProbe \in SUBSET Name /\ bad \in SUBSET Name
    /\ unchecked \in Nat /\ blocked \in Nat /\ failed \in Nat
    /\ status \in {"running", "ok", "error"}
    /\ settled \in Nat
    /\ passed \in SUBSET Name /\ blamed \in SUBSET Name
    /\ orders \in SUBSET Decisions
    /\ added \in SUBSET Name /\ disabled \in SUBSET Domain

Init ==
    /\ aliases \in StartAliases
    /\ settings \in StartSettings
    /\ answers \in AnswerSets
    /\ ctx = "live"
    /\ conf \in [force : BOOLEAN, staging : BOOLEAN, exclude : Excludes]
    /\ list \in Lists
    /\ phase = "check" /\ step = "next"
    /\ todo = [i \in 1..Len(list) |-> [domain |-> list[i], sans |-> {}]]
    /\ kept = <<>>
    /\ excluded = conf.exclude
    /\ sans = {} /\ toProbe = {} /\ bad = {}
    /\ unchecked = 0 /\ blocked = 0 /\ failed = 0 /\ status = "running"
    /\ settled = 0 /\ passed = {} /\ blamed = {} /\ orders = {}
    /\ added = {} /\ disabled = {}

-------------------------------------------------------------------------------
(* Helpers of the run *)

Current == Head(todo).domain
Forced == conf.force \/ conf.staging     \* staging implies --force

At(p, s) == phase = p /\ step = s /\ (s = "next" => todo # <<>>)

Conclude ==
    /\ todo' = Tail(todo)
    /\ step' = "next"

\* Mutation of ExitStatus: blocked domains do not count.
IgnoresBlocked == IF unchecked + failed = 0 THEN "ok" ELSE "error"
\* The exit status every return of run after the check loop computes.
ExitStatus == IF unchecked + blocked + failed = 0 THEN "ok" ELSE "error"

\* Mutation of Installed: PKI Services are not enabled with the certificate.
KeepsCertType(d, names) ==
    [settings[d] EXCEPT !.cert = [names |-> names, lifetime |-> Lifetime, left |-> Lifetime]]
\* What installCertificate puts into the domain settings.
Installed(d, names) ==
    [certType |-> "YES", cert |-> [names |-> names, lifetime |-> Lifetime, left |-> Lifetime]]

-------------------------------------------------------------------------------
(***************************************************************************)
(* checkDomain, called by the check loop for every domain and again by     *)
(* reconsider for a domain whose aliases failed the rehearsal: the aliases *)
(* are read first, the settings in a second round trip.                    *)
(***************************************************************************)
CheckBegins ==
    \/ At("check", "next") /\ Current \notin excluded
    \/ At("rehearse", "aliases")

SkipExcluded ==
    /\ At("check", "next") /\ Current \in excluded
    /\ Conclude
    /\ settled' = settled + 1
    /\ UNCHANGED <<server, fixed, ctx, phase, kept, excluded, sans, toProbe, bad,
                   tally, status, passed, blamed, orders, edits>>

ReadAliases ==
    /\ CheckBegins
    /\ ctx = "live"
    /\ Convertible(aliases[Current], excluded)
    /\ sans' = CertificateNames(Current, aliases[Current], excluded)
    /\ step' = "settings"
    /\ UNCHANGED <<server, fixed, ctx, phase, todo, kept, excluded, toProbe, bad,
                   tally, status, settled, passed, blamed, orders, edits>>

\* A decision to renew is handed on; "skipped" and "current" conclude the domain.
ReadSettings ==
    /\ step = "settings"
    /\ ctx = "live"
    /\ LET verdict == Verdict(sans, settings[Current], Forced) IN
        \/ /\ verdict = "renew"
           /\ kept' = Append(kept, [domain |-> Current, sans |-> sans])
           /\ UNCHANGED settled
        \/ /\ verdict \in {"skipped", "current"}
           /\ settled' = settled + 1
           /\ UNCHANGED kept
    /\ Conclude
    /\ UNCHANGED <<server, fixed, ctx, phase, excluded, sans, toProbe, bad,
                   tally, status, passed, blamed, orders, edits>>

\* Mutation of DomainFails: the domain is reported but not counted.
FailsUncounted ==
    /\ \/ CheckBegins \/ step = "settings" \/ At("rehearse", "next")
       \/ At("rehearse", "probe") /\ toProbe # {}
    /\ Conclude
    /\ UNCHANGED <<server, fixed, ctx, phase, kept, excluded, sans, toProbe, bad,
                   tally, status, settled, passed, blamed, orders, edits>>

(***************************************************************************)
(* Any command of a check or a rehearsal may fail: the server refuses it,  *)
(* the context is done, an alias does not convert, a certificate does not  *)
(* parse.  The domain is counted and the run goes on with the next one.    *)
(***************************************************************************)
DomainFails ==
    /\ \/ CheckBegins \/ step = "settings" \/ At("rehearse", "next")
       \/ At("rehearse", "probe") /\ toProbe # {}
    /\ Conclude
    /\ unchecked' = unchecked + 1
    /\ UNCHANGED <<server, fixed, ctx, phase, kept, excluded, sans, toProbe, bad,
                   blocked, failed, status, settled, passed, blamed, orders, edits>>

-------------------------------------------------------------------------------
(***************************************************************************)
(* rehearseRenewals: probeNames, classifyProbes, reconsider.               *)
(***************************************************************************)
\* ensureUnnamedSkin went through; the names of the decision are probed.
StartRehearsal ==
    /\ At("rehearse", "next")
    /\ ctx = "live"
    /\ step' = "probe"
    /\ toProbe' = Head(todo).sans
    /\ bad' = {}
    /\ UNCHANGED <<server, fixed, ctx, phase, todo, kept, excluded, sans,
                   tally, status, settled, passed, blamed, orders, edits>>

\* The domain is the first of its SANs.
Probing(n) ==
    /\ At("rehearse", "probe") /\ ctx = "live"
    /\ n \in toProbe
    /\ Current \in toProbe => n = Current

\* fetchChallenge: every fetch has a DNS lookup, a connection and 15 seconds of
\* its own, so that a name need not answer twice alike.
Verdicts(n) == IF n \in Unsteady THEN BOOLEAN ELSE {n \in answers}

ProbeName ==
    /\ \E n \in toProbe : \E pass \in Verdicts(n) :
        /\ Probing(n)
        /\ toProbe' = toProbe \ {n}
        /\ IF pass
           THEN passed' = passed \cup {n} /\ UNCHANGED <<bad, blamed>>
           ELSE bad' = bad \cup {n} /\ blamed' = blamed \cup {n} /\ UNCHANGED passed
    /\ UNCHANGED <<server, fixed, ctx, phase, step, todo, kept, excluded, sans,
                   tally, status, settled, orders, edits>>

\* Mutation of ProbeInterrupted: a probe gives up on a name that would answer.
ProbeImpatient ==
    /\ \E n \in toProbe :
        /\ Probing(n)
        /\ toProbe' = toProbe \ {n}
        /\ bad' = bad \cup {n}
        /\ blamed' = blamed \cup {n}
    /\ UNCHANGED <<server, fixed, ctx, phase, step, todo, kept, excluded, sans,
                   tally, status, settled, passed, orders, edits>>

\* The signal arrives during the fetch: the request fails with the context,
\* which fetchChallenge turns into a failed probe like any transport error.
ProbeInterrupted ==
    /\ \E n \in toProbe :
        /\ Probing(n)
        /\ toProbe' = toProbe \ {n}
        /\ bad' = bad \cup {n}
        /\ blamed' = blamed \cup {n}
    /\ ctx' = "done"
    /\ UNCHANGED <<server, fixed, phase, step, todo, kept, excluded, sans,
                   tally, status, settled, passed, orders, edits>>

\* Mutation of RehearsalBlocks: a domain that cannot answer ends the run.
AbortsWhenBlocked ==
    /\ At("rehearse", "probe") /\ toProbe = {}
    /\ Blocked(Current, bad)
    /\ phase' = "exit" /\ status' = "error" /\ step' = "next"
    /\ UNCHANGED <<server, fixed, ctx, todo, kept, excluded, sans, toProbe, bad,
                   tally, settled, passed, blamed, orders, edits>>

RehearsalBlocks ==
    /\ At("rehearse", "probe") /\ toProbe = {}
    /\ Blocked(Current, bad)
    /\ Conclude
    /\ blocked' = blocked + 1
    /\ UNCHANGED <<server, fixed, ctx, phase, kept, excluded, sans, toProbe, bad,
                   unchecked, failed, status, settled, passed, blamed, orders, edits>>

RehearsalPasses ==
    /\ At("rehearse", "probe") /\ toProbe = {}
    /\ bad = {}
    /\ Conclude
    /\ kept' = Append(kept, Head(todo))
    /\ UNCHANGED <<server, fixed, ctx, phase, excluded, sans, toProbe, bad, tally,
                   status, settled, passed, blamed, orders, edits>>

\* Mutation of Reconsider: the names are rehearsed again, with nothing excluded.
RestartsRehearsal ==
    /\ At("rehearse", "probe") /\ toProbe = {}
    /\ ~Blocked(Current, bad) /\ bad # {}
    /\ step' = "next"
    /\ UNCHANGED <<server, fixed, ctx, phase, todo, kept, excluded, sans, toProbe,
                   bad, tally, status, settled, passed, blamed, orders, edits>>

\* Mutation of Reconsider: the failing aliases are not excluded.
ForgetsExclusion ==
    /\ At("rehearse", "probe") /\ toProbe = {}
    /\ ~Blocked(Current, bad) /\ bad # {}
    /\ step' = "aliases"
    /\ UNCHANGED <<server, fixed, ctx, phase, todo, kept, excluded, sans, toProbe,
                   bad, tally, status, settled, passed, blamed, orders, edits>>

\* reconsider: the failing aliases join the run's exclusions, then checkDomain again.
Reconsider ==
    /\ At("rehearse", "probe") /\ toProbe = {}
    /\ ~Blocked(Current, bad) /\ bad # {}
    /\ excluded' = excluded \cup BadAliases(Current, bad)
    /\ step' = "aliases"
    /\ UNCHANGED <<server, fixed, ctx, phase, todo, kept, sans, toProbe, bad,
                   tally, status, settled, passed, blamed, orders, edits>>

-------------------------------------------------------------------------------
(***************************************************************************)
(* The ends of the phases, and newACMEClient between the last two.         *)
(***************************************************************************)
\* A pass over the list ends; with nothing left to renew the run is over.
FinishPass ==
    /\ phase \in {"check", "rehearse"} /\ step = "next" /\ todo = <<>>
    /\ \/ /\ kept = <<>>
          /\ phase' = "exit" /\ status' = ExitStatus
       \/ /\ kept # <<>>
          /\ phase' = IF phase = "check" THEN "rehearse" ELSE "account"
          /\ UNCHANGED status
    /\ todo' = kept
    /\ kept' = <<>>
    /\ UNCHANGED <<server, fixed, ctx, step, excluded, sans, toProbe, bad, tally,
                   settled, passed, blamed, orders, edits>>

NewACMEClient ==
    /\ phase = "account"
    /\ \/ ctx = "live" /\ phase' = "renew" /\ UNCHANGED status
       \/ phase' = "exit" /\ status' = "error"
    /\ UNCHANGED <<server, fixed, ctx, step, todo, kept, excluded, sans, toProbe, bad,
                   tally, settled, passed, blamed, orders, edits>>

FinishRun ==
    /\ phase = "renew" /\ step = "next" /\ todo = <<>>
    /\ phase' = "exit" /\ status' = ExitStatus
    /\ UNCHANGED <<server, fixed, ctx, step, todo, kept, excluded, sans, toProbe, bad,
                   tally, settled, passed, blamed, orders, edits>>

-------------------------------------------------------------------------------
(***************************************************************************)
(* renewDomain for each surviving decision.                                *)
(***************************************************************************)
PlaceOrder ==
    /\ At("renew", "next") /\ ctx = "live"
    /\ orders' = orders \cup {Head(todo)}
    /\ step' = "issue"
    /\ UNCHANGED <<server, fixed, ctx, phase, todo, kept, excluded, sans, toProbe, bad,
                   tally, status, settled, passed, blamed, edits>>

\* Mutation of Issued: a staging run goes on to install.
InstallsInStaging ==
    /\ At("renew", "issue") /\ ctx = "live"
    /\ step' = "install"
    /\ UNCHANGED <<server, fixed, ctx, phase, todo, kept, excluded, sans, toProbe, bad,
                   tally, status, settled, passed, blamed, orders, edits>>

\* The certificate is there.  A staging run reports it and stops; otherwise the
\* previous material is archived and the domain is ready for installation.
Issued ==
    /\ At("renew", "issue") /\ ctx = "live"
    /\ \/ conf.staging /\ Conclude /\ settled' = settled + 1
       \/ ~conf.staging /\ step' = "install" /\ UNCHANGED <<todo, settled>>
    /\ UNCHANGED <<server, fixed, ctx, phase, kept, excluded, sans, toProbe, bad,
                   tally, status, passed, blamed, orders, edits>>

\* UPDATEDOMAINSETTINGS is applied; its answer may be lost, and then the domain
\* counts as failed although the certificate is in place.
Install ==
    /\ At("renew", "install") /\ ctx = "live"
    /\ settings' = [settings EXCEPT ![Current] = Installed(Current, Head(todo).sans)]
    /\ Conclude
    /\ \/ settled' = settled + 1 /\ UNCHANGED failed
       \/ failed' = failed + 1 /\ UNCHANGED settled
    /\ UNCHANGED <<aliases, fixed, ctx, phase, kept, excluded, sans, toProbe, bad,
                   unchecked, blocked, status, passed, blamed, orders, edits>>

RenewFails ==
    /\ At("renew", "next") \/ At("renew", "issue") \/ At("renew", "install")
    /\ Conclude
    /\ failed' = failed + 1
    /\ UNCHANGED <<server, fixed, ctx, phase, kept, excluded, sans, toProbe, bad,
                   unchecked, blocked, status, settled, passed, blamed, orders, edits>>

-------------------------------------------------------------------------------
(***************************************************************************)
(* The environment: SIGINT or SIGTERM, and the server's administrator.     *)
(***************************************************************************)
run == <<phase, step, todo, kept, excluded, sans, toProbe, bad, tally, status,
         settled, passed, blamed, orders>>

Cancel ==
    /\ phase # "exit" /\ ctx = "live"
    /\ ctx' = "done"
    /\ UNCHANGED <<server, fixed, run, edits>>

AddAlias ==
    /\ phase # "exit"
    /\ \E d \in Domain : \E a \in LateAliases[d] \ aliases[d] :
        /\ aliases' = [aliases EXCEPT ![d] = @ \cup {a}]
        /\ added' = added \cup ({ToASCII[a]} \cap Name)
    /\ UNCHANGED <<settings, fixed, ctx, run, disabled>>

DisablePKI ==
    /\ phase # "exit"
    /\ \E d \in LateDisable \ disabled :
        /\ settings' = [settings EXCEPT ![d].certType = "NO"]
        /\ disabled' = disabled \cup {d}
    /\ UNCHANGED <<aliases, fixed, ctx, run, added>>

RunStep ==
    \/ SkipExcluded \/ ReadAliases \/ ReadSettings \/ DomainFails
    \/ StartRehearsal \/ ProbeName \/ ProbeInterrupted
    \/ RehearsalBlocks \/ RehearsalPasses \/ Reconsider
    \/ FinishPass \/ NewACMEClient \/ FinishRun
    \/ PlaceOrder \/ Issued \/ Install \/ RenewFails

\* The process has ended.
Exited == phase = "exit" /\ UNCHANGED vars

Next == RunStep \/ Cancel \/ AddAlias \/ DisablePKI \/ Exited

Spec == Init /\ [][Next]_vars
FairSpec == Spec /\ WF_vars(RunStep)

-------------------------------------------------------------------------------
(* Properties *)

\* What the steps of the three loops presuppose of each other.
StepsInPhase ==
    /\ step \in {"probe", "aliases"} => phase = "rehearse"
    /\ step = "settings" => phase \in {"check", "rehearse"}
    /\ step \in {"issue", "install"} => phase = "renew"
    /\ step # "next" => todo # <<>>
    /\ phase \in {"account", "renew"} => kept = <<>>
    /\ phase = "account" => todo # <<>>
    /\ status # "running" <=> phase = "exit"

\* Every domain of the list is in exactly one place at any moment: still to do,
\* handed on, or counted once (the counters main.go adds up at 336 and 361).
TallyConserved ==
    Len(list) = Len(todo) + Len(kept) + settled + unchecked + blocked + failed

\* Exit status 0 is only reported when every selected domain was concluded
\* without a failure, whatever returned: main.go 321, 337 and 368.
ZeroMeansAllSettled == status = "ok" => settled = Len(list)

\* No ACME order names anything that did not answer a probe of this run, except
\* an alias that appeared while the run was at work (main.go 331-335).
OrdersOnlyRehearsed ==
    \A o \in orders : o.sans \subseteq passed \cup added

\* What the server is taken to guarantee where the next property is proved: an
\* alias is not a domain, and a name belongs to one alias of one domain.
MayHave(as, d) == as[d] \cup LateAliases[d]
AliasesDistinct ==
    \A as \in StartAliases : \A d, e \in Domain :
        \A a \in MayHave(as, d), b \in MayHave(as, e) :
            /\ a \notin Domain /\ ToASCII[a] \notin Domain
            /\ ToASCII[a] = ToASCII[b] /\ ToASCII[a] \in Name => a = b /\ d = e

\* Names a rehearsal failed, of those a decision for d must not hold.  A run that
\* meets d twice rehearses its names twice, and what failed one time may pass the
\* other: the decision that passed keeps the name.
ListedOnce(d) == \A i, j \in 1..Len(list) : list[i] = d /\ list[j] = d => i = j
RejectedFor(d) == IF ListedOnce(d) THEN blamed ELSE blamed \ passed

\* What the operator excluded, in either spelling, never reaches an order, and an
\* excluded domain gets none at all; nor does what a rehearsal found failing, which
\* excludes it for every domain the run has still to rehearse (selftest.go 311-315).
\* The domain of a decision is the one name exclusion of aliases does not remove;
\* an alias that appeared during the run may fail after its decision was handed on.
ExcludedStaysOut ==
    \A o \in orders :
        /\ o.domain \notin conf.exclude
        /\ \A n \in (conf.exclude \cup (RejectedFor(o.domain) \ added)) \ {o.domain} :
              /\ n \notin o.sans
              /\ n \in aliases[o.domain] => ToASCII[n] \notin o.sans \ {o.domain}

\* A run that exits 0 leaves nothing for the next one: with the exclusions it
\* ended with, checkDomain would now skip every domain or find it current.
\* Staging installs nothing, an alias added meanwhile is the next run's, one that
\* does not convert included, and a floor above the lifetime makes every
\* certificate due at once (install.go 117-131, check.go 49-104).
SuccessSettles ==
    (status = "ok" /\ ~conf.staging /\ added = {} /\ RenewBefore <= Lifetime) =>
        \A i \in 1..Len(list) :
            LET d == list[i]
                names == CertificateNames(d, aliases[d], excluded)
            IN  (d \notin conf.exclude /\ Convertible(aliases[d], excluded)) =>
                    Verdict(names, settings[d], FALSE) \in {"skipped", "current"}

\* Every probe came out as the name answers as a rule.
ProbedAsARule == passed \subseteq answers /\ blamed \cap answers = {}

\* What reaches the CA when nothing went wrong is what a reader of the settings,
\* the aliases and the network would have predicted, domain by domain and in the
\* order of the list, whatever the rehearsal of one domain added to the exclusions
\* of the whole run (main.go 288-353, selftest.go 107-181).
RenewsAsPredicted ==
    (/\ phase = "account" /\ unchecked = 0 /\ ctx = "live"
     /\ added \cup disabled = {} /\ ProbedAsARule) =>
        LET Predicted(d) == WouldRenew(d, aliases[d], settings[d], conf.exclude, answers, Forced)
            due == {i \in 1..Len(list) : Predicted(list[i])}
        IN  /\ Len(todo) = Cardinality(due)
            /\ \A i \in due : todo[Cardinality({j \in due : j <= i})].domain = list[i]

\* A staging run installs nothing: only the administrator changes settings
\* (main.go 387-392).
StagingTouchesNothing ==
    [][conf.staging => \A d \in Domain : settings'[d].cert = settings[d].cert]_vars

\* A domain whose PKI Services the run found disabled keeps its settings: step
\* 1 of the decision chain outranks --force (check.go 54-64).
DisabledStaysDisabled ==
    [][\A d \in Domain \ disabled :
         settings[d].certType = "NO" => settings'[d] = settings[d]]_vars

\* Every step a run takes brings it nearer to its end: a later phase, a domain
\* fewer, the current one further in its turn, or a name of it fewer to probe; the
\* rehearsal that sends a domain back to checkDomain does not begin it anew
\* (main.go 288-375, selftest.go 348-381).
PhaseRank == [check |-> 0, rehearse |-> 1, account |-> 2, renew |-> 3, exit |-> 4]
StepRank  == [next |-> 0, probe |-> 1, aliases |-> 2, settings |-> 3,
              issue |-> 1, install |-> 2]
Advances ==
    \/ PhaseRank[phase'] > PhaseRank[phase]
    \/ phase' = phase /\ Len(todo') < Len(todo)
    \/ phase' = phase /\ todo' = todo /\ StepRank[step'] > StepRank[step]
    \/ /\ phase' = phase /\ todo' = todo /\ step' = step
       /\ toProbe' \subseteq toProbe /\ toProbe' # toProbe
RunAdvances == [][RunStep => Advances]_vars

\* Every run ends, whatever fails and whatever the rehearsal rejects.
RunEnds == <>(phase = "exit")

\* A name that answers every time is only blamed by an interrupted run, and such a
\* run settles nothing more: a signal that looks like a failing name (selftest.go
\* 137-141) may change the exclusions, but no certificate is ordered with them.
BlameNeedsSignal ==
    [][(blamed' \cap answers) \ Unsteady # {} => ctx' = "done" /\ orders' = orders]_vars

\* The run implements what Batch promises: the passes of the check loop and the
\* rehearsal are one look at each domain (main.go 288-375).
Ahead == CASE phase = "check"    -> Len(todo) + Len(kept)
           [] phase = "rehearse" -> Len(todo)
           [] OTHER              -> 0
Due   == CASE phase = "check"    -> 0
           [] phase = "rehearse" -> Len(kept)
           [] OTHER              -> Len(todo)
Promise == INSTANCE Batch WITH
    ahead <- Ahead, due <- Due, failed <- unchecked + blocked + failed
ImplementsBatch == Promise!Spec

\* README.md 88: each name a certificate is to cover is rehearsed before any
\* order.  Fails: reconsider reads the aliases again and probes nothing.
RehearsedBeforeOrdered == \A o \in orders : o.sans \subseteq passed

\* README.md 96-97 and selftest.go 338: an alias that fails the rehearsal is
\* excluded for the rest of the run.  Fails: where the list names a domain twice,
\* the decision already handed on keeps an alias its second rehearsal excludes.
ExcludedForTheRun == \A o \in orders : (excluded \ {o.domain}) \cap o.sans = {}
===============================================================================
