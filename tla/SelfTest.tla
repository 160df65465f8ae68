------------------------------- MODULE SelfTest -------------------------------
(***************************************************************************)
(* runSelfTest: the report of --self-test.  Every selected domain is       *)
(* checked and its names are rehearsed, due or not; a domain that would be *)
(* renewed is followed through the rehearsal as a run would do it.  Any    *)
(* command may fail and a signal may arrive at any moment; the server does *)
(* not change meanwhile, so that the report can be compared with it.       *)
(***************************************************************************)
EXTENDS Decision, Sequences, SequencesExt

CONSTANTS
    Domain, Lists, Excludes, StartAliases, AnswerSets, Unsteady,   \* as in Run
    StartSettings   \* the settings each domain may start with

ASSUME SelfTestAssumption ==
    /\ Domain \subseteq Name
    /\ Lists \subseteq Seq(Domain)
    /\ Excludes \subseteq SUBSET Name
    /\ StartAliases \subseteq [Domain -> SUBSET Name]
    /\ \A as \in StartAliases : \A d \in Domain : IsFiniteSet(as[d])
    /\ StartSettings \subseteq Settings
    /\ AnswerSets \subseteq SUBSET Name
    /\ Unsteady \subseteq Name

VARIABLES
    aliases, settings, answers, ctx, force, exclude, list,
    todo,       \* domains still to be reported, the first one in progress
    step,
    excluded, sans, renew, toProbe, bad,
    rows,       \* the table
    renewals, blocked, errored, status

server   == <<aliases, settings, answers>>
options  == <<force, exclude, list>>
decision == <<sans, renew, toProbe, bad>>
counters == <<renewals, blocked, errored>>
vars     == <<server, ctx, options, todo, step, excluded, decision, rows, counters, status>>

Row == [domain : Domain, name : Name, status : {"PASS", "FAIL", "SKIP", "ERROR"}]

TypeOK ==
    /\ ctx \in {"live", "done"}
    /\ list \in Seq(Domain) /\ todo \in Seq(Domain)
    /\ step \in {"next", "probe", "conclude", "reconsider", "exit"}
    /\ excluded \in SUBSET Name /\ sans \in SUBSET Name
    /\ toProbe \in SUBSET sans /\ bad \in SUBSET sans
    /\ renew \in BOOLEAN
    /\ rows \in Seq(Row)
    /\ renewals \in Nat /\ blocked \in Nat /\ errored \in Nat
    /\ status \in {"running", "ok", "error"}

Init ==
    /\ aliases \in StartAliases
    /\ settings \in [Domain -> StartSettings]
    /\ answers \in AnswerSets
    /\ ctx = "live"
    /\ force \in BOOLEAN /\ exclude \in Excludes /\ list \in Lists
    /\ todo = list /\ step = "next"
    /\ excluded = exclude
    /\ sans = {} /\ renew = FALSE /\ toProbe = {} /\ bad = {}
    /\ rows = <<>>
    /\ renewals = 0 /\ blocked = 0 /\ errored = 0 /\ status = "running"

-------------------------------------------------------------------------------
Current == Head(todo)
At(s) == step = s /\ todo # <<>>
Report(name, s) == rows' = Append(rows, [domain |-> Current, name |-> name, status |-> s])
NextDomain == todo' = Tail(todo) /\ step' = "next"

SkipExcluded ==
    /\ At("next") /\ Current \in excluded
    /\ NextDomain
    /\ UNCHANGED <<server, ctx, options, excluded, decision, rows, counters, status>>

\* checkDomain and, in the same step, ensureUnnamedSkin for the probes.
CheckDomain ==
    /\ At("next") /\ Current \notin excluded /\ ctx = "live"
    /\ Convertible(aliases[Current], excluded)
    /\ LET names   == CertificateNames(Current, aliases[Current], excluded)
           verdict == Verdict(names, settings[Current], force)
       IN  \/ /\ verdict = "skipped"
              /\ Report(Current, "SKIP")
              /\ NextDomain
              /\ UNCHANGED decision
           \/ /\ verdict \in {"renew", "current"}
              /\ sans' = names /\ toProbe' = names /\ bad' = {}
              /\ renew' = (verdict = "renew")
              /\ step' = "probe"
              /\ UNCHANGED <<todo, rows>>
    /\ UNCHANGED <<server, ctx, options, excluded, counters, status>>

\* checkDomain or probeNames returns an error; probes made so far are dropped.
CheckFails ==
    /\ \/ At("next") /\ Current \notin excluded
       \/ At("probe") /\ toProbe # {}
    /\ Report(Current, "ERROR")
    /\ errored' = errored + 1
    /\ NextDomain
    /\ UNCHANGED <<server, ctx, options, excluded, decision, renewals, blocked, status>>

\* fetchChallenge: as in Run, a name need not answer twice alike.
Verdicts(n) == IF n \in Unsteady THEN BOOLEAN ELSE {n \in answers}

ProbeName ==
    /\ At("probe") /\ ctx = "live"
    /\ \E n \in toProbe :
        /\ toProbe' = toProbe \ {n}
        /\ \/ /\ \E pass \in Verdicts(n) : bad' = IF pass THEN bad ELSE bad \cup {n}
              /\ UNCHANGED ctx
           \/ /\ bad' = bad \cup {n}        \* interrupted during the fetch
              /\ ctx' = "done"
    /\ UNCHANGED <<server, options, todo, step, excluded, sans, renew, rows, counters, status>>

\* Mutation of ReportNames: only the domain's own name is reported.
ReportsDomainOnly ==
    /\ At("probe") /\ toProbe = {}
    /\ Report(Current, IF Current \in bad THEN "FAIL" ELSE "PASS")
    /\ step' = "conclude"
    /\ UNCHANGED <<server, ctx, options, todo, excluded, decision, counters, status>>

\* A row for each name, the domain's first.
ReportNames ==
    /\ At("probe") /\ toProbe = {}
    /\ LET RowOf(n) == [domain |-> Current, name |-> n,
                        status |-> IF n \in bad THEN "FAIL" ELSE "PASS"]
           names == <<Current>> \o SetToSeq(sans \ {Current})
       IN  rows' = rows \o [i \in 1..Len(names) |-> RowOf(names[i])]
    /\ step' = "conclude"
    /\ UNCHANGED <<server, ctx, options, todo, excluded, decision, counters, status>>

\* Mutation of Conclude: a domain with failing aliases is counted right away.
CountsUnreconsidered ==
    /\ At("conclude")
    /\ \/ ~renew /\ UNCHANGED <<renewals, blocked>>
       \/ renew /\ Blocked(Current, bad) /\ blocked' = blocked + 1 /\ UNCHANGED renewals
       \/ renew /\ ~Blocked(Current, bad) /\ renewals' = renewals + 1 /\ UNCHANGED blocked
    /\ NextDomain
    /\ UNCHANGED <<server, ctx, options, excluded, decision, rows, errored, status>>

Conclude ==
    /\ At("conclude")
    /\ \/ ~renew /\ NextDomain /\ UNCHANGED <<excluded, renewals, blocked>>
       \/ /\ renew /\ Blocked(Current, bad)
          /\ blocked' = blocked + 1
          /\ NextDomain /\ UNCHANGED <<excluded, renewals>>
       \/ /\ renew /\ bad = {}
          /\ renewals' = renewals + 1
          /\ NextDomain /\ UNCHANGED <<excluded, blocked>>
       \/ /\ renew /\ ~Blocked(Current, bad) /\ bad # {}
          /\ excluded' = excluded \cup BadAliases(Current, bad)
          /\ step' = "reconsider" /\ UNCHANGED <<todo, renewals, blocked>>
    /\ UNCHANGED <<server, ctx, options, decision, rows, errored, status>>

\* checkDomain once more, now without the failing aliases; an error counts, but
\* the table has no row for it.
Reconsider ==
    /\ At("reconsider")
    /\ LET names   == CertificateNames(Current, aliases[Current], excluded)
           verdict == Verdict(names, settings[Current], force)
       IN  \/ /\ ctx = "live" /\ Convertible(aliases[Current], excluded)
              /\ verdict # "error"
              /\ renewals' = IF verdict = "renew" THEN renewals + 1 ELSE renewals
              /\ UNCHANGED errored
           \/ errored' = errored + 1 /\ UNCHANGED renewals
    /\ NextDomain
    /\ UNCHANGED <<server, ctx, options, excluded, decision, rows, blocked, status>>

Failed == \E i \in 1..Len(rows) : rows[i].status = "FAIL"

\* Mutation of Exit: only the domains that could not be checked count.
ForgetsFailedNames ==
    /\ todo = <<>> /\ step = "next"
    /\ status' = IF errored > 0 THEN "error" ELSE "ok"
    /\ step' = "exit"
    /\ UNCHANGED <<server, ctx, options, todo, excluded, decision, rows, counters>>

Exit ==
    /\ todo = <<>> /\ step = "next"
    /\ status' = IF Failed \/ errored > 0 THEN "error" ELSE "ok"
    /\ step' = "exit"
    /\ UNCHANGED <<server, ctx, options, todo, excluded, decision, rows, counters>>

Cancel ==
    /\ step # "exit" /\ ctx = "live"
    /\ ctx' = "done"
    /\ UNCHANGED <<server, options, todo, step, excluded, decision, rows, counters, status>>

Exited == step = "exit" /\ UNCHANGED vars

Next ==
    \/ SkipExcluded \/ CheckDomain \/ CheckFails \/ ProbeName \/ ReportNames
    \/ Conclude \/ Reconsider \/ Exit \/ Cancel \/ Exited

Spec == Init /\ [][Next]_vars

-------------------------------------------------------------------------------
(* Properties *)

Reported(d, n, s) ==
    \E i \in 1..Len(rows) : rows[i] = [domain |-> d, name |-> n, status |-> s]

\* Exit status 0 vouches for every name: each selected domain was either found
\* disabled or all names of its certificate are reported to have answered, and the
\* ones that answer every time alike do (selftest.go 236-241, 295-303).
ZeroVouchesForAll ==
    status = "ok" => \A i \in 1..Len(list) : list[i] \notin exclude =>
        LET d == list[i]
            names == CertificateNames(d, aliases[d], exclude)
        IN  \/ settings[d].certType = "NO" /\ Reported(d, d, "SKIP")
            \/ /\ names \subseteq answers \cup Unsteady
               /\ \A n \in names : Reported(d, n, "PASS")

\* Every name in the table came out as it answers as a rule.
ReportedAsARule ==
    \A i \in 1..Len(rows) :
        /\ rows[i].status = "PASS" => rows[i].name \in answers
        /\ rows[i].status = "FAIL" => rows[i].name \notin answers

\* The report's "N domain(s) would be renewed" is the number of domains a run
\* renews under the same conditions (selftest.go 183-188, 246-265; the run's side
\* of it is RenewsAsPredicted of Run).
PredictsTheRun ==
    (step = "exit" /\ errored = 0 /\ ctx = "live" /\ ReportedAsARule) =>
        LET Renewed(d) == WouldRenew(d, aliases[d], settings[d], exclude, answers, force)
        IN  renewals = Cardinality({i \in 1..Len(list) : Renewed(list[i])})

===============================================================================
