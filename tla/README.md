# go-cgp-acme in TLA+

Specifications of `go-cgp-acme`, the tool that renews the TLS certificates of a
CommuniGate Pro (CGP) server with ACME. They are translated from the Go source;
`PROJECT.json` maps each definition to the lines it stands for. TLC checks them
on small instances, TLAPS proves the theorems listed below.

## 1. The system

One process is one run: it connects to the CGP server's command line interface,
looks at every domain, rehearses http-01 for the names of those it is going to
renew, and renews them one after the other. It is sequential and keeps no state
of its own; everything that outlives a run is on the server (settings, Skin
files, File Storage) or with the CA. What makes it hard is everything else:
the server's administrator works on the same settings, every command is a round
trip that can fail or be answered to nobody, a signal ends the run anywhere,
and a timer, an operator or another cluster node may start a second run.

| Component | State | Operations | Talks to |
|---|---|---|---|
| Renewal decision (`check.go`) | none | `checkDomain`: aliases, names, settings, certificate, window | CGP: two reads |
| Renewal run (`main.go` 272-401) | list, decisions, `excluded`, counters | check loop, rehearsal, account, renewal loop, exit status | all others |
| Rehearsal (`selftest.go` 51-181, 306-401) | `excluded` of the run; a Skin file per probe | `probeNames`, `classifyProbes`, `reconsider` | CGP; the names themselves over HTTP |
| Issuance (`issue.go`) | Skin files; an order and its authorizations | `ensureUnnamedSkin`, `solveAuthorization`, `issueCertificate` | CGP, CA |
| ACME account (`acmeclient.go`) | key file per CA host | `loadAccountKey`, `newACMEClient` | CGP File Storage, CA |
| Archive and installation (`install.go`, `datablock.go`) | archive files, domain settings | `archiveDomain`, `installCertificate`, `reportCertificate` | CGP |
| Self-test report (`selftest.go` 183-304) | table, counters | `runSelfTest` | decision, rehearsal |
| Domain selection (`domains.go`) | none | `selectDomains`, the cluster roles | CGP: one or two reads |
| Start-up (`main.go` 110-260, `config.go`, `interactive.go`) | the configuration | flags, file, connection string, prompts | the operator |
| ACME trace (`trace.go`) | none | prints requests and responses | - |
| Schedule (`packaging/systemd`) | none | a run a day | - |

How they interact: `selectDomains` gives the run its list. The check loop calls
`checkDomain` for each domain and collects decisions. `rehearseRenewals` probes
the names of each decision; a domain whose own name fails is blocked, failing
aliases join the run's `excluded` map, which the following `checkDomain` calls
all see. What survives goes, after `newACMEClient`, through `renewDomain`: an
order, its challenges served from Skin files, the archive, the installation.

What makes each part correct:

- *decision*: disabled PKI Services outrank everything; excluded names, in
  either spelling, are in no certificate; what a run installs is found in order
  by the next run.
- *run*: one domain's failure is nobody else's; no domain is lost or counted
  twice; exit status 0 means all went well; a staging run changes no settings;
  every run ends.
- *rehearsal*: only names that answered reach an order, and none that failed its
  domain's only rehearsal; a name is blamed only for its own failures.
- *Skin files*: none stays behind unless a delete failed or could not be tried,
  and none is missing while the CA may ask for it.
- *account*: every account's key can be read back; only a missing file leads to
  a new key; staging leaves production alone.
- *archive*: nothing is installed before what was read of the domain is archived,
  whole and under one stamp. What is put there between the read and the
  installation is replaced unarchived.
- *domain selection*: whatever file and command line combine, every domain is
  somebody's; in the documented roles it is one process's.
- *schedule*: certificates are renewed before they run out, failed periods
  included.
- *start-up*: what the operator named is what is dialled, on the port of the
  transport in force, with a warning if it is in the clear; an unattended run
  never waits for an answer.
- *self-test*: exit status 0 vouches for every name; the announced renewals are
  those of a run.

## 2. Modules

| Module | Models | Checked by | Proofs |
|---|---|---|---|
| `Decision` | `check.go`, `classifyProbes` as operators | through `Run`, `SelfTest` | `DecisionProofs` |
| `Run` (EXTENDS `Decision`) | the run of `main.go` with the rehearsal's decisions | `MCRun` | `RunProofs` |
| `Batch` | abstract: what a run promises of its list | through `Run` | `RunProofs` |
| `Challenge` | the Skin files of one domain: rehearsal and issuance, several runs | `MCChallenge` | `ChallengeProofs` |
| `AccountKey` | `newACMEClient`, `acmeEndpoint`, `externalAccountBinding`, `loadAccountKey`, several runs | `MCAccountKey` | `AccountKeyProofs` |
| `Install` | `archiveDomain`, `installCertificate`, several runs | `MCInstall` | `InstallProofs` |
| `SelfTest` (EXTENDS `Decision`) | `runSelfTest` | `MCSelfTest` | `SelfTestProofs` |
| `Cluster` (EXTENDS `Decision`) | `selectDomains` on all nodes, the timer, the renewal window | `MCCluster` | `ClusterProofs` |
| `Startup` | connection string, configuration, overrides, prompts, transport | `MCStartup` | `StartupProofs` |

`Run` and `Challenge` look at the same renewal from two sides. In `Run` a probe
is its verdict and an issuance two actions, so that the order of decisions,
exclusions and counters can be explored over several domains; in `Challenge` a
domain has no settings, and every command on the files and the order is an
action of its own. `RenewsAsPredicted` of `Run` and `PredictsTheRun` of
`SelfTest` are stated with the same operator, `WouldRenew` of `Decision`, and
together say that a self-test announces what a run does; the lemmas about that
operator which the proofs of both need are in `DecisionProofs`. `Cluster` uses the
window of `Decision` (`CertificateDue`) for certificates that age; what a process
does with one of its domains is the subject of `Run` and here a success or a
failure. `Startup` ends where the connection is made, `Cluster` and `Run` begin
there; that the window `Decision` assumes is one `LoadConfig` lets through is the
type invariant of `Startup` (`Usable`).

### Decision

A name is a model value; `ToASCII` is a constant function standing for
`idna.Lookup.ToASCII`, with the value `Unconvertible` for an error. A
certificate is the names it covers, its lifetime and what is left of it, in
ticks; the renewal fraction is a rational. `Verdict` is the chain of early
returns of `checkDomain`: the certificate is only looked at if nothing before
it decided.

### Run

One action per server round trip whose answer the run branches on. `phase` is
the part of `run` that is executing, `step` the position within the domain at
the head of `todo`; `kept` collects the decisions for the next phase. The two
reads of `checkDomain` are two actions (`ReadAliases`, `ReadSettings`), used by
the check loop and by `reconsider` alike, and the administrator may act in
between: `AddAlias` and `DisablePKI` change what was already read. `DomainFails`
is every error return of the check and the rehearsal, `RenewFails` every one of
`renewDomain`; both are possible at any command. `Cancel` is a signal: from
then on commands fail, and `ProbeInterrupted` is the one place where they do
not return an error. Each fetch of a probe is a lookup and a request of its own,
with its own timeout, so its verdict is a choice made at each `ProbeName`
(`Verdicts`): `answers` is what names do as a rule, and a name that is `Unsteady`
may pass one probe of a run and fail the next. `accountContact` (`main.go`
353-355) decides nothing and is part of `NewACMEClient`.

### Batch, and how Run implements it

`Batch` knows five numbers: domains still to be looked at, due, settled and
failed, and the status. `Promise` in `Run` is its instance: the passes of the
check loop and of the rehearsal are one look at each domain (`Ahead` counts
`todo` and `kept` in the first, `todo` in the second), `Due` is what the
rehearsal lets through, `failed` the sum of the three counters. A decision
handed from the check to the rehearsal is a stuttering step, and so is every
command in between; a rehearsal that cannot go on is a domain examined and
failed, never the end of the run. `ImplementsBatch` is checked by TLC and proved.

### Challenge

Each run of `Runs` goes through `pc`; `use` tells whether it is at a probe or a
challenge. A file is known by the token in its name and the case it is spelt in,
because CGP stores names lowercased and the delete has to name what is stored.
`StoreFile` is the store of both callers: answered, or applied and not
answered, in which case the function returns before its delete is deferred.
`Remove` is the deferred delete on its own context (`detached`). `GiveUp` is any
other failure, `Expire` the ten minutes of `renewDomain`, `Crash` the end of the
process without deferred functions. The CA is external: it may give two orders
the same authorization (`Granted`), and fetches the file at any moment after a
challenge was accepted (`Validate`).

### AccountKey

`KeyPath` is the file of an endpoint: the host of its URL and nothing else. A
run reads the file, generates and writes a key if it is missing, and registers;
each answer may be lost, and `Finish` is the end of the run wherever it is. Each
`Begin` picks an `[acme]` section anew, as an operator edits it between runs;
`ActiveURL` and `BindingAccepted` decide whether it is refused. The contact
address is part of the registration.

### Install

The three fields of the domain's settings are read at once, archived one by one
under the second of that read, and replaced in one command. An empty field is
skipped, one that does not decode is an error. `EditByHand` is the
administrator at the Security page.

### SelfTest

`rows` is the table, in order. The server is constant here, since the
properties compare the report with it, but `Unsteady` names are as in `Run`. The
names of a domain are reported in any order after its own. A domain whose second
check fails is counted as an error, but its rows are those of its probes: the
`ERROR` row that README.md 178-181 promises for it is not among them.

### Cluster

The processes are the timer units of the nodes, each with a file and a command
line (`Setups`); `Effective` merges their selectors the way `run` does, flags
only ever adding. The two listings of `--onlylocal` are two actions
(`SelectLocal`, `Subtract`), and `Move` may make a domain Shared or regular in
between. A process gets through to a domain (`Inspect`, which renews what
`CertificateDue` says is due) or fails on it (`DomainFails`), or fails as a whole
(`RunFails`): a node that is down, a refused connection, a failed listing, a
signal. `NextPeriod` is the timer: a period passes when all processes are done,
because systemd does not start a unit that is active.

`Serves` is not the code but its documentation: which domains a process is said
to take on. A set-up is admitted (`Complete`) if by that reading no domain is
left out; `Attended` then says that the code leaves none out either. Failures
and moves are bounded by `MaxMisses`: they may pass a domain by for that many
periods in a row. The bound is a property of the installation, not of the code,
and the `WindowAssumption` relates it to the renewal window.

`OneOwner` is stated for domains that stay where they are: one that moves between
the two listings may be processed by two nodes in a period, or by none, which is
what `Attended` bounds.

### Startup

Text is a sequence of tokens: `@`, `:`, `[`, `]`, numerals and opaque words. An
argument comes with what the operator meant by it, so that `DialledAsMeant` is
stated without a second parser; what the string says nothing of must come from the
file, or where there is none from the prompts, the transport from `--tls` before
the file, and nothing may follow the string (`extra`). What may be meant by a text is the documented
grammar, `Spells`, which only puts texts together; `Documented` says that the
arguments follow it. The actions are the statements of `run` up to
the connection, in their order; `Prompt` is one prompt, asked or skipped,
answered or not. A file is the fields the start depends on; `parses` stands for
reading, TOML and unknown keys.

## 3. Runs

All with deadlock checking.

| Run | Shows |
|---|---|
| `run` | all properties of `Run` but the one below, `RunAdvances`, `RunEnds` and `ImplementsBatch` among them, over two domains or one listed twice, with a late alias and PKI Services disabled meanwhile |
| `challenge` | `TypeOK`, `Litter`, `Served`, `RunAdvances`, `RunStops` for one run at a time on two names |
| `challenge_overlap` | `Litter`, `Served` for two runs on one name |
| `account_key` | `TypeOK`, `AccountKeyOnFile`, `FileNeverReplaced`, `StagingApart` for runs one after the other |
| `install` | `TypeOK`, `ArchivedAsRead` for runs one after the other, with edits by hand |
| `self_test` | `TypeOK`, `ZeroVouchesForAll`, `PredictsTheRun` |
| `cluster` | `TypeOK`, `OneOwner`, `Attended`, `NeverExpires` for three units on two nodes |
| `startup` | `TypeOK`, `DialledAsMeant`, `PortFitsTransport`, `CleartextIsWarned`, `UnattendedNeverAsks` |

Four more runs check what a document or comment of the repository says and the
code does not do; TLC finds the behaviour:

| Run | Said | Found |
|---|---|---|
| `run_rehearsed` | README.md 88: each name a certificate is to cover is rehearsed | `reconsider` reads the aliases again and probes nothing |
| `run_excluded` | README.md 96-97, selftest.go 338: a failing alias is excluded for the rest of the run | a domain listed twice is rehearsed twice: an alias may fail in one rehearsal and be ordered by the other, which kept it before the exclusion or without looking at it |
| `challenge_interrupted` | README.md 183-187: an interrupted run takes its files off the server, or names them | not the one whose store was not answered |
| `startup_login` | interactive.go 217-219: a configuration file's login is used verbatim | not when a connection string without a login is given |

### Bounds

- `run`: two domains suffice for what domains share, the exclusions
  and the counters; the other list names one domain twice, as `domains.include`
  may. The second domain starts with one of six settings, one for every branch
  of `Verdict` (never certified, current, due, lacking an alias, unreadable,
  disabled), the first with one that lacks an alias, or a disabled one if the
  second lacks an alias; the aliases include one
  in Unicode and one that does not convert; the exclusions name nothing, an alias
  in either spelling, or a domain; three sets of answering names make a rehearsal
  pass, fail for aliases and fail for the domain, and one alias, `punycode`, is
  unsteady: it takes two probes of one name for that to matter, and the list that
  names a domain twice has them. One alias may appear and one
  domain's PKI Services be disabled at any step. A lifetime of 9 ticks and a
  fraction of 1/3 put certificates with 2 and with 3 ticks left on the two sides
  of the boundary. 1.4 million states. `run_rehearsed` needs no unsteady name, and
  `run_excluded` only the domain listed twice.
- `challenge`: two names, so that one file is stored while another authorization
  waits; four tokens are a complete rehearsal and order, and a run that stopped
  early can be started over with what is left of them. `challenge_overlap`: two
  runs, one name, three tokens: two probes and an authorization shared by both;
  tokens and names are interchangeable (symmetry, which liveness checking
  forbids in `challenge`).
- `account_key`: three endpoints on two hosts, three keys: each file can be
  written and one key lost on the way. The sections combine staging, the two URLs
  (production, a directory on the staging host, none) and the bindings.
- `install`: the clock's four seconds are three archives; three pieces of
  material, one in the administrator's hands.
- `self_test`: as `run`, and a domain listed twice; unsteady are one alias and the
  name of one domain.
- `cluster`: two nodes, a designated one with two units and one with one, two
  domains. Three set-ups: the documented roles; `only_local` in the common file
  with `--onlyshared` on the designated node, where the two cancel out; include
  lists that the command line replaces. A lifetime of five periods with a window
  of three and one period that may be missed is the tightest the assumption
  admits: `MaxMisses` + 1 = 2 < 3. `left` and `missed` bound themselves, so
  the periods need no bound.
- `startup`: every meaning of a connection string (three logins, four passwords,
  four hosts, three ports) in every documented spelling, ten malformed ones, nine
  ways a file is refused; five transports and no `--tls`; something after the
  string for three arguments. Arguments and files are
  crossed with two or four of the other: they meet only in `WithConn`.

### Fairness

`run` assumes weak fairness of the run's steps: every command and every
HTTP request is answered or fails. Probes have a timeout of their own (15 s),
the issuance ten minutes, clean-ups 30 s. The check loop and `newACMEClient`
have none and rely on the TCP connection; that is an assumption of this run.
No fairness is assumed of the administrator or of signals.

`challenge` assumes weak fairness of `Progress`, which is a step of the
run other than giving up a wait whose context is live, and of `Expire`, the
timer of `context.WithTimeout` (`main.go` 380). Nothing is assumed of the CA: it
need never decide.

## 4. Theorems

For every value of the constants that satisfies the assumptions of the modules:
`DecisionAssumption` (what `LoadConfig` lets through: a fraction below 1, a floor
that is not negative), `ToASCIIAssumption` (a name that is converted already is
converted to itself), `RunAssumption`, `SelfTestAssumption`, `AccountKeyAssumption`,
`InstallAssumption`, `ChallengeAssumption` and `StartupAssumption` (the types of
the parameters; a numeral is not a separator), `ClusterAssumption` (the set-ups leave no domain out) and
`WindowAssumption` (the window is longer than the periods that may pass a domain
by):

| Theorem | States | Argument |
|---|---|---|
| `RunTyped`, `RunConservesTally`, `ZeroIsSuccess` | `TypeOK`, `TallyConserved`, `ZeroMeansAllSettled` of `Run` | `Tallied` |
| `RunImplementsBatch` | `ImplementsBatch`: `Run` refines `Batch` | `Tallied` before and after each step |
| `OrdersAreRehearsed` | `OrdersOnlyRehearsed` of `Run` | `Sound` |
| `StagingInstallsNothing`, `DisabledIsRespected` | `StagingTouchesNothing`, `DisabledStaysDisabled` | `Sound` |
| `ExcludedNeverOrdered` | `ExcludedStaysOut` of `Run`, if no alias is a domain and no name belongs to two aliases (`AliasesDistinct`) | `Excluding`, `Singly` and `OneVerdict` |
| `RunIsForeseen` | `RenewsAsPredicted` of `Run` | `Predicting` |
| `BlameTakesASignal` | `BlameNeedsSignal` | `BlamedInVain` |
| `SuccessLasts` | `SuccessSettles` | `Settling` |
| `EveryStepAdvances` | `RunAdvances` of `Run` | `Tallied` |
| `ChallengeTyped` | `TypeOK` of `Challenge` | inductive as it stands |
| `NoLitter`, `ChallengeServed` | `Litter`, `Served` of `Challenge` | `Filed` |
| `RunsAdvance` | `RunAdvances` of `Challenge` | `Rehearsed`: no order without a rehearsal before it |
| `AccountKeyTyped` | `TypeOK` of `AccountKey` | inductive as it stands |
| `AccountsAreKept`, `FilesAreKept` | `AccountKeyOnFile`, `FileNeverReplaced`, if runs do not overlap | `Kept` |
| `StagingKeepsApart` | `StagingApart`, if runs do not overlap | type and `ActiveURL` |
| `ClusterTyped`, `ClusterAttends`, `CertificatesLast` | `TypeOK`, `Attended`, `NeverExpires` of `Cluster` | `Covered` |
| `RolesDoNotOverlap` | `OneOwner` of `Cluster` | `Owned` |
| `NobodyIsAsked`, `PortsFit`, `ClearIsAnnounced` | `UnattendedNeverAsks`, `PortFitsTransport`, `CleartextIsWarned` of `Startup` | `Settled` |
| `StartupTyped` | `TypeOK` of `Startup` | `Typed` |
| `ParsedAsSpelled` | a text of any length spells a meaning exactly if `ParseConnString` returns it | cutting and joining |
| `StringsAreDialledAsMeant` | `DialledAsMeant` of `Startup`, if the arguments are `Documented` | `Meant` |
| `ReportCountsTheRun` | `PredictsTheRun` of `SelfTest` | `Predicting` of `SelfTestProofs` |
| `SelfTestTyped`, `ZeroIsVouchedFor` | `TypeOK`, `ZeroVouchesForAll` of `SelfTest` | `Vouched` |
| `InstallTyped` | `TypeOK` of `Install` | inductive as it stands |
| `ArchiveIsWhole` | `ArchivedAsRead`, if runs do not overlap | `Archived` |

*Tallied*. The tally alone is not inductive: whether a step takes a decision off
`todo` depends on there being one, and `ZeroMeansAllSettled` on both lists
being empty when a status is computed. `StepsInPhase` says which steps belong
to which phase, that a domain is in hand at every step but "next", and that
`kept` is empty after the rehearsal; the four conjuncts together are inductive.
Each group of actions has its lemma; counters are added in `CountedOnce` and
`KeptOnce`.

*Filed*. `Litter` must survive a delete, which removes the file of the token in
hand and no other; that needs the file names to be distinct (`FileNames`), and
`Served` that only runs which stored a file hold its token (`Placed`).

*Kept*. A run that found no file must still find none when it writes, and a run
that registers must use the key on file (`FileAsRead`). Both hold because nobody
else writes: the assumption `Runs = {r}` is a process that begins over and over,
wherever the previous one stopped. Without it both are false: two first runs at
once find no file, each registers a key, and the file keeps the later one.

*Archived*. Files of seconds to come do not exist, and a run that comes to its
archive is in a second nobody archived in (`FreshStamps`, from `Issue` taking
longer than a second); the fields before the next are as read, the others
absent (`ArchivedSoFar`).

*Refinement*. `RunImplementsBatch` has one lemma per kind of step: a decision
that leaves `todo` without being kept is an `Examine` or `Renew` of `Batch`, one
that is kept is none in the check and an `Examine` that finds it due in the
rehearsal, everything else stutters but the ends of the run.
`Ahead` is computed before and after the step, so `Tallied` is needed on both
sides.

*Sound*. What is ordered or installed was decided phases earlier, on a server
that has moved on. The invariant follows the decisions from one phase to the
next: those chosen (`Chosen`) concern domains whose PKI Services were enabled or
have been disabled since (`Willing`) and cover what `certificateNames` would
return now, but for aliases added since (`Covering`); those past the rehearsal,
and the orders made of them, only cover names that passed (`Rehearsed`).
`Covering` is what makes `Rehearsed` survive `reconsider`: the second check may
only return names the first one had, less the excluded ones, and the late ones.
*BlamedInVain* adds that the only name ever blamed without being asked was in a
probe when the signal came, after which no order is placed.

*Settling*. Exit status 0 is about every domain of the list, and so is the
invariant: while nothing failed, each is still before the run (`Pending`) or in
order by the verdict of `checkDomain` (`Orderly`). A domain stays in order while
the exclusions grow, because fewer names ask for less; when it is installed,
`Covering` says the certificate has every name it needs, and `ThresholdWithin`
that a new certificate is outside of its own window. The tally empties `Pending`
at the end.

*Covered*. A domain that may not be passed by any more is still before a process
that serves it: on its list, or with the process yet to start (`AllCovered`).
For that, what a selector selects must be what its documentation says
(`SelectsWhatItServes`), and a process that waits between the two listings must
be a local one. `InWindow` bounds the certificate's age by the misses: one that
was looked at has at least the window left, each miss takes one period off it.
*Owned* says the same of `OneOwner`: in the documented roles a domain that did
not move is on the list of the process at its home, if on any.

*Settled*. A configuration goes through eight statements, three of which write
the transport or the port; the invariant says at each of them where the two
came from, so that the port at the end is either named by somebody or the
default of the transport (`TransportSettled`, `PortSettled`), and that whoever
stands before a prompt without a terminal has nothing to ask (`Unattended`).

*Vouched*. Between the start and the exit of a self-test the table, the two
counters and the exclusions all change; while nothing failed and no error was
counted, none of them may have lost a domain. The invariant says of every domain
done that it is vouched for, and that the exclusions are still those of the start.
That each name probed has its row needs the aliases of a domain to be finitely
many (`SelfTestAssumption`, `SequenceOfSet`).

*Excluding*. An order may only name what its decision named, so the invariant
is about decisions, from the first look on: each is about a domain that was not
excluded and names the domain and aliases that were not, in either spelling
(`Cleared`); a name is blamed only out of the decision being rehearsed
(`Blaming`). That covers what the operator excluded.

*Once listed, one verdict.* Of a name that a rehearsal failed, `Rehearsed` says only
that whatever orders it has seen it pass. For a domain that is listed once that
cannot be: its names are probed in one rehearsal, each once, and the names of other
domains are others (`Separate`). So the invariant counts: such a domain has one
place in the lists of the run (`Singly`), nothing is known of a name before its
probe (`Untold`), and none has both passed and failed (`OneVerdict`), but for
aliases that appeared meanwhile. The property exempts a name that passed for a
domain listed twice; `run_excluded` shows that it must. The hypothesis
`AliasesDistinct` is what the CGP server guarantees of its name space. TLC shows
that it is needed: a domain with one alias in both spellings orders the name
although one of the two is excluded.

*Predicting*, of a run. `RenewsAsPredicted` is about places of the list, not
domains, because a list may name a domain twice. A pass that is at place *c* has
the places after *c* in `todo` and those up to *c* that it let through in `kept`
(`Passing`), and the decision at each of those places is found by the place's
rank (`Selects`). Taking the first of `todo` removes the least place, appending
to `kept` adds a greatest one; what that does to the ranks is a fact about
cardinalities, and the least place exists because the naturals are well-founded
(`WFMin`). The two passes exclude more and more names; that this changes no
verdict on what answers is `HarmlessKeepsAnswering` of `DecisionProofs`. Which names
answer is what they do as a rule: the prediction is of runs whose probes came out
that way (`ProbedAsARule`, in the report `ReportedAsARule`), which every run does
in which no unsteady name shows its other side.

*Predicting*, of a self-test. The counter of renewals is the number of places
done whose domain a run would renew (`Counted`). At each step of a domain the
invariant knows which names are still to be probed and that the verdict in hand
is that of the names left; `FirstVerdict` and `LastVerdict` say that it is the
run's.

*Typed*. A start that dials has what `Decision` and `Run` rely on. The window and
the port are checked when the file is read and survive what overrides them
(`Complete`); a login and a password are checked only where nobody can be asked
or everybody has been.

*Cutting and joining*. `ParseConnString` searches a text for the last `@`, the
first and the last `:` and the first `]`; `Spells` joins texts with such tokens
between them. `Joined` and `Cut` say that joining and cutting undo each other,
`FirstJoin` and `LastJoin` that the search finds the token that was put there if
the text before it, or after it, has none. `ParsesBack` and `AcceptedMeans` follow
part by part, and with them that no text has two meanings. *Meant* says that no
file, prompt or default replaces what the string said, that what it did not say is
what is on file until it is asked for (`OnFile`), which a file never leaves empty,
and that `qualifyLogin` is applied once.

*Advancing*. The measure of `Run` is, in this order, the phase, the decisions
left, the place in the turn of the current one, and the names left to probe; that
of `Challenge` the stage of the run, the names and authorizations left, and the
place between storing a file and removing it. Each step of a run changes its measure in
one direction, and the environment leaves the measure alone, except where it starts
or kills a run: with finitely many names a run takes finitely many steps. That is
the part of `RunEnds` and `RunStops` a proof reaches.

Only model-checked: the rest of the liveness properties `RunEnds` and `RunStops`,
namely that a step can always be taken and is, which the prover does not reach (it
handles neither fairness nor ENABLED). That the
instances of `Startup` satisfy `Documented` and those of `Run` `AliasesDistinct`
is checked by TLC (`ArgumentsDocumented`, `InstancesDistinct`).

## 5. Not modelled

- The trace (`trace.go`), which prints what passes through it and changes no
  state; `--version`, the levels of `--verbose`, messages and the layout of the
  self-test's table.
- The TOML parser: a file parses or does not. The range checks of `LoadConfig`
  are modelled; a `renew_fraction` that is not a number, which passes them, is
  not among the rationals of the models.
- A signal at a prompt: reading standard input takes no context. `Startup` lets
  a prompt fail at the end of input, and knows of no other end.
- Two archives of a domain within one second, which would share their files
  (install.go 35): `Install` takes an issuance to last longer than that.
- PEM and DER: `archiveFile` keeps the content it renders. The size of the key:
  a key that cannot be generated is one of `Challenge`'s `GiveUp`.
- Own and effective settings are one: the archive reads the former, the
  decision the latter.
- The kinds of a failed fetch (`transportFailure`) are one verdict.
- The contents of Skin files: a token stands for its key authorization. Skins
  are created or found; two runs that create one at once are a failure of one.

## 6. Plan

1. *Done*: `Decision`, `Run`, `Challenge`, `AccountKey`, `Install`, `SelfTest`,
   `Cluster` with the schedule, `Startup`; `Batch` and the refinement; the
   theorems above.
2. An abstract specification of a challenge file as a lease (stored, in use,
   removed, or left behind with a reason) that `Challenge` implements.
3. A composition of `Run`'s renewal loop with `Install` and `AccountKey` over
   repeated runs, with the administrator in between.
