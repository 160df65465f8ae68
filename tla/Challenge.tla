------------------------------ MODULE Challenge -------------------------------
(***************************************************************************)
(* The Skin files of one domain.  A run rehearses every name of the        *)
(* certificate (probeNames, probeName), then issues it (issueCertificate,  *)
(* solveAuthorization); both store a file, use it and remove it again on a *)
(* context of their own.  Runs may overlap, be interrupted, outlast their  *)
(* deadline or be killed and started again; the CA looks a file up at any  *)
(* moment after a challenge was accepted.                                  *)
(*                                                                         *)
(* A token is a model value: the run draws them for probes, the CA for     *)
(* authorizations.                                                         *)
(***************************************************************************)
EXTENDS Naturals

CONSTANTS
    Runs,       \* processes of the tool working on this domain
    Name,       \* the names of its certificate
    Token,      \* every token that may be drawn
    None        \* no token, no name

ASSUME ChallengeAssumption == None \notin Token

VARIABLES
    (* the CGP server and the CA *)
    skin,       \* the domain has its unnamed Skin
    files,      \* names of the files in it
    authz,      \* per token: what it was drawn for, and where that stands
    ident,      \* per authorization's token, the name it is for
    (* each run *)
    pc, use,
    toProbe,    \* names still to be probed
    toSolve,    \* authorizations of its order still to be solved
    order,      \* all authorizations of its order
    cur,        \* the token it is about to store or has stored
    ok,         \* whether the function with the deferred delete succeeds
    ctx,
    (* history *)
    left,       \* why the file of a token may still be on the server
    storedBy    \* runs that stored the file of a token

remote  == <<skin, files, authz, ident>>
work    == <<toProbe, toSolve, order>>
history == <<left, storedBy>>
vars    == <<remote, pc, use, work, cur, ok, ctx, history>>

-------------------------------------------------------------------------------
(***************************************************************************)
(* File names: CGP stores them lowercased, and removes what it is told to. *)
(* A token is drawn in mixed case.                                         *)
(***************************************************************************)
Spelled(t) == <<t, "mixed">>
ToLower(f) == <<f[1], "lower">>
FileName == Token \X {"mixed", "lower"}

Stored(t) == ToLower(Spelled(t)) \in files

\* Mutation of NameToDelete: the file is deleted by the token as it was drawn.
KeepsCase(t) == Spelled(t)
NameToDelete(t) == ToLower(Spelled(t))

\* Mutation of CleanupContext: the run's own context is used.
RunContext(r) == ctx[r]
\* The context of a clean-up outlives the run's; go-cgp-api sends nothing on a
\* context that is done.
CleanupContext(r) == "live"
Sent(context) == context = "live"

Ended == {"idle", "stopped", "crashed"}
HoldsFile(r) == pc[r] \in {"fetch", "accept", "wait", "delete"}
At(r, p, u) == pc[r] = p /\ use[r] = u

TypeOK ==
    /\ skin \in BOOLEAN
    /\ files \in SUBSET FileName
    /\ authz \in [Token -> {"unused", "probe", "pending", "processing", "valid", "invalid"}]
    /\ ident \in [Token -> Name \cup {None}]
    /\ pc \in [Runs -> Ended \cup {"skin", "create", "store", "fetch", "order", "authz",
                                   "challenge", "accept", "wait", "delete", "finalize"}]
    /\ use \in [Runs -> {"probe", "challenge"}]
    /\ toProbe \in [Runs -> SUBSET Name]
    /\ toSolve \in [Runs -> SUBSET Token]
    /\ order \in [Runs -> SUBSET Token]
    /\ cur \in [Runs -> Token \cup {None}]
    /\ \A r \in Runs : pc[r] = "challenge" \/ HoldsFile(r) => cur[r] \in Token
    /\ ok \in [Runs -> BOOLEAN]
    /\ ctx \in [Runs -> {"live", "done"}]
    /\ left \in [Token -> {"no", "failed", "refused", "unanswered", "crash"}]
    /\ storedBy \in [Token -> SUBSET Runs]

Init ==
    /\ skin \in BOOLEAN
    /\ files = {}
    /\ authz = [t \in Token |-> "unused"]
    /\ ident = [t \in Token |-> None]
    /\ pc = [r \in Runs |-> "idle"]
    /\ use = [r \in Runs |-> "probe"]
    /\ toProbe = [r \in Runs |-> {}]
    /\ toSolve = [r \in Runs |-> {}]
    /\ order = [r \in Runs |-> {}]
    /\ cur = [r \in Runs |-> None]
    /\ ok = [r \in Runs |-> TRUE]
    /\ ctx = [r \in Runs |-> "live"]
    /\ left = [t \in Token |-> "no"]
    /\ storedBy = [t \in Token |-> {}]

-------------------------------------------------------------------------------
(***************************************************************************)
(* A run comes to the domain, and makes sure of its unnamed Skin: once     *)
(* before the rehearsal and once more before the order.                    *)
(***************************************************************************)
Begin(r) ==
    /\ pc[r] \in Ended
    /\ pc' = [pc EXCEPT ![r] = "skin"]
    /\ use' = [use EXCEPT ![r] = "probe"]
    /\ toProbe' = [toProbe EXCEPT ![r] = Name]
    /\ toSolve' = [toSolve EXCEPT ![r] = {}]
    /\ order' = [order EXCEPT ![r] = {}]
    /\ ok' = [ok EXCEPT ![r] = TRUE]
    /\ ctx' = [ctx EXCEPT ![r] = "live"]
    /\ UNCHANGED <<remote, cur, history>>

AfterSkin(r) == IF use[r] = "probe" THEN "store" ELSE "order"

ListSkins(r) ==
    /\ pc[r] = "skin" /\ Sent(ctx[r])
    /\ pc' = [pc EXCEPT ![r] = IF skin THEN AfterSkin(r) ELSE "create"]
    /\ UNCHANGED <<remote, use, work, cur, ok, ctx, history>>

CreateSkin(r) ==
    /\ pc[r] = "create" /\ Sent(ctx[r])
    /\ skin' = TRUE
    /\ pc' = [pc EXCEPT ![r] = AfterSkin(r)]
    /\ UNCHANGED <<files, authz, ident, use, work, cur, ok, ctx, history>>

-------------------------------------------------------------------------------
(***************************************************************************)
(* Storing a file, and removing it.  The delete is deferred only after the *)
(* store was answered; a store that was applied but not answered, because  *)
(* its connection broke or the run was interrupted meanwhile, ends the     *)
(* function with an error.                                                 *)
(***************************************************************************)
StoreFile(r, t, next) ==
    /\ Sent(ctx[r])
    /\ files' = files \cup {ToLower(Spelled(t))}
    /\ storedBy' = [storedBy EXCEPT ![t] = @ \cup {r}]
    /\ \/ /\ pc' = [pc EXCEPT ![r] = next]
          /\ cur' = [cur EXCEPT ![r] = t]
          /\ left' = [left EXCEPT ![t] = "no"]
          /\ UNCHANGED ctx
       \/ /\ pc' = [pc EXCEPT ![r] = "stopped"]
          /\ cur' = [cur EXCEPT ![r] = None]
          /\ left' = [left EXCEPT ![t] = "unanswered"]
          /\ ctx' \in {ctx, [ctx EXCEPT ![r] = "done"]}

AfterRemove(r) ==
    IF ~ok[r] THEN "stopped" ELSE IF use[r] = "probe" THEN "store" ELSE "authz"

\* The deferred function.  A delete that fails is reported on stderr, whether
\* or not the server carried it out; the outcome of its function stands.
Remove(r) ==
    /\ pc[r] = "delete"
    /\ LET t == cur[r]
           sent == Sent(CleanupContext(r))
           failed == [left EXCEPT ![t] = IF sent THEN "failed" ELSE "refused"]
       IN  \/ sent /\ files' = files \ {NameToDelete(t)} /\ left' \in {left, failed}
           \/ files' = files /\ left' = failed
    /\ pc' = [pc EXCEPT ![r] = AfterRemove(r)]
    /\ cur' = [cur EXCEPT ![r] = None]
    /\ UNCHANGED <<skin, authz, ident, use, work, ok, ctx, storedBy>>

-------------------------------------------------------------------------------
(* The rehearsal *)

StoreProbe(r) ==
    /\ At(r, "store", "probe") /\ skin
    /\ \E n \in toProbe[r], t \in Token :
        /\ authz[t] = "unused"
        /\ authz' = [authz EXCEPT ![t] = "probe"]
        /\ toProbe' = [toProbe EXCEPT ![r] = @ \ {n}]
        /\ StoreFile(r, t, "fetch")
    /\ UNCHANGED <<skin, ident, use, toSolve, order, ok>>

\* Whatever the fetch returns is a verdict on the name, never an error.
Fetch(r) ==
    /\ pc[r] = "fetch"
    /\ pc' = [pc EXCEPT ![r] = "delete"]
    /\ UNCHANGED <<remote, use, work, cur, ok, ctx, history>>

\* Every name was probed: the domain is renewed, or it is not.
FinishRehearsal(r) ==
    /\ At(r, "store", "probe") /\ toProbe[r] = {}
    /\ \/ /\ pc' = [pc EXCEPT ![r] = "skin"]
          /\ use' = [use EXCEPT ![r] = "challenge"]
       \/ /\ pc' = [pc EXCEPT ![r] = "stopped"]
          /\ UNCHANGED use
    /\ UNCHANGED <<remote, work, cur, ok, ctx, history>>

-------------------------------------------------------------------------------
(***************************************************************************)
(* The issuance.  The order covers the names the rehearsal left, and the   *)
(* CA gives each a new authorization or one it still has open or valid.    *)
(***************************************************************************)
Reusable(n) == {t \in Token : authz[t] \in {"pending", "processing", "valid"} /\ ident[t] = n}
Offered(n) == Reusable(n) \cup {t \in Token : authz[t] = "unused"}

\* The CA answers an order for these names with the authorizations f gives them.
Granted(r, names, f) ==
    LET tokens == {f[n] : n \in names} IN
    /\ \A n \in names : f[n] \in Offered(n)
    /\ \A n, m \in names : n # m => f[n] # f[m]
    /\ authz' = [t \in Token |-> IF t \in tokens /\ authz[t] = "unused"
                                 THEN "pending" ELSE authz[t]]
    /\ ident' = [t \in Token |-> IF t \in tokens
                                 THEN CHOOSE n \in names : f[n] = t ELSE ident[t]]
    /\ order' = [order EXCEPT ![r] = tokens]
    /\ toSolve' = [toSolve EXCEPT ![r] = tokens]

PlaceOrder(r) ==
    /\ pc[r] = "order" /\ Sent(ctx[r])
    /\ \E names \in (SUBSET Name) \ {{}} : \E f \in [names -> Token] : Granted(r, names, f)
    /\ pc' = [pc EXCEPT ![r] = "authz"]
    /\ UNCHANGED <<skin, files, use, toProbe, cur, ok, ctx, history>>

\* Mutation of GetAuthorization: a missing http-01 challenge goes unnoticed.
IgnoresMissingChallenge(r) ==
    /\ pc[r] = "authz" /\ Sent(ctx[r])
    /\ \E t \in toSolve[r] : toSolve' = [toSolve EXCEPT ![r] = @ \ {t}]
    /\ pc' = [pc EXCEPT ![r] = "challenge"]
    /\ UNCHANGED <<remote, use, toProbe, order, cur, ok, ctx, history>>

\* Mutation of GetAuthorization: the challenge is accepted before it is stored.
AcceptsUnstored(r) ==
    /\ pc[r] = "authz" /\ Sent(ctx[r])
    /\ \E t \in toSolve[r] :
        /\ toSolve' = [toSolve EXCEPT ![r] = @ \ {t}]
        /\ cur' = [cur EXCEPT ![r] = t]
        /\ pc' = [pc EXCEPT ![r] = "accept"]
    /\ UNCHANGED <<remote, use, toProbe, order, ok, ctx, history>>

\* A valid authorization has nothing to solve, and any other that is not pending
\* is an error; it stays pending while its challenge is being processed.  (An
\* order that is not pending to begin with has valid authorizations only.)
GetAuthorization(r) ==
    /\ pc[r] = "authz" /\ Sent(ctx[r])
    /\ \E t \in toSolve[r] :
        /\ toSolve' = [toSolve EXCEPT ![r] = @ \ {t}]
        /\ \/ authz[t] = "valid" /\ UNCHANGED <<pc, cur>>
           \/ /\ authz[t] \in {"pending", "processing"}
              /\ pc' = [pc EXCEPT ![r] = "challenge"]
              /\ cur' = [cur EXCEPT ![r] = t]
    /\ UNCHANGED <<remote, use, toProbe, order, ok, ctx, history>>

StoreChallenge(r) ==
    /\ pc[r] = "challenge" /\ skin
    /\ StoreFile(r, cur[r], "accept")
    /\ UNCHANGED <<skin, authz, ident, use, work, ok>>

\* Mutation of Accept: a lost answer is asked for again, without a limit.
RetriesAccept(r) ==
    /\ pc[r] = "accept" /\ Sent(ctx[r])
    /\ authz' = [authz EXCEPT ![cur[r]] = IF @ = "pending" THEN "processing" ELSE @]
    /\ pc' = pc \/ pc' = [pc EXCEPT ![r] = "wait"]
    /\ UNCHANGED <<skin, files, ident, use, work, cur, ok, ctx, history>>

\* The challenge is accepted; the answer may be lost.
Accept(r) ==
    /\ pc[r] = "accept" /\ Sent(ctx[r])
    /\ authz' = [authz EXCEPT ![cur[r]] = IF @ = "pending" THEN "processing" ELSE @]
    /\ \/ pc' = [pc EXCEPT ![r] = "wait"] /\ UNCHANGED ok
       \/ pc' = [pc EXCEPT ![r] = "delete"] /\ ok' = [ok EXCEPT ![r] = FALSE]
    /\ UNCHANGED <<skin, files, ident, use, work, cur, ctx, history>>

WaitAuthorization(r) ==
    /\ pc[r] = "wait" /\ Sent(ctx[r])
    /\ authz[cur[r]] \in {"valid", "invalid"}
    /\ pc' = [pc EXCEPT ![r] = "delete"]
    /\ ok' = [ok EXCEPT ![r] = authz[cur[r]] = "valid"]
    /\ UNCHANGED <<remote, use, work, cur, ctx, history>>

WaitOrder(r) ==
    /\ pc[r] = "authz" /\ Sent(ctx[r])
    /\ toSolve[r] = {} /\ \A t \in order[r] : authz[t] = "valid"
    /\ pc' = [pc EXCEPT ![r] = "finalize"]
    /\ UNCHANGED <<remote, use, work, cur, ok, ctx, history>>

Finalize(r) ==
    /\ pc[r] = "finalize" /\ Sent(ctx[r])
    /\ pc' = [pc EXCEPT ![r] = "stopped"]
    /\ UNCHANGED <<remote, use, work, cur, ok, ctx, history>>

-------------------------------------------------------------------------------
(***************************************************************************)
(* A command fails: it is refused, its connection breaks, its context is   *)
(* done.  The run stops here, once it has removed the file it holds.       *)
(***************************************************************************)
GiveUp(r) ==
    /\ pc[r] \notin Ended \cup {"fetch", "delete"}
    /\ IF HoldsFile(r)
       THEN pc' = [pc EXCEPT ![r] = "delete"] /\ ok' = [ok EXCEPT ![r] = FALSE]
       ELSE pc' = [pc EXCEPT ![r] = "stopped"] /\ UNCHANGED ok
    /\ UNCHANGED <<remote, use, work, cur, ctx, history>>

\* SIGINT or SIGTERM.
Cancel(r) ==
    /\ pc[r] \notin Ended /\ ctx[r] = "live"
    /\ ctx' = [ctx EXCEPT ![r] = "done"]
    /\ UNCHANGED <<remote, pc, use, work, cur, ok, history>>

\* Mutation of Expire: the issuance has no deadline.
NeverExpires(r) == FALSE /\ UNCHANGED vars
\* The ten minutes renewDomain allows for the issuance.
Expire(r) ==
    /\ pc[r] \notin Ended /\ use[r] = "challenge" /\ ctx[r] = "live"
    /\ ctx' = [ctx EXCEPT ![r] = "done"]
    /\ UNCHANGED <<remote, pc, use, work, cur, ok, history>>

\* SIGKILL, a power cut: no deferred function runs.
Crash(r) ==
    /\ pc[r] \notin Ended
    /\ pc' = [pc EXCEPT ![r] = "crashed"]
    /\ cur' = [cur EXCEPT ![r] = None]
    /\ left' = [t \in Token |-> IF HoldsFile(r) /\ t = cur[r] THEN "crash" ELSE left[t]]
    /\ UNCHANGED <<remote, use, work, ok, ctx, storedBy>>

\* The CA fetches the file from the name.
Validate(t) ==
    /\ authz[t] = "processing"
    /\ \E verdict \in {"valid", "invalid"} :
        /\ verdict = "valid" => Stored(t)
        /\ authz' = [authz EXCEPT ![t] = verdict]
    /\ UNCHANGED <<skin, files, ident, pc, use, work, cur, ok, ctx, history>>

RunStep(r) ==
    \/ ListSkins(r) \/ CreateSkin(r)
    \/ StoreProbe(r) \/ Fetch(r) \/ FinishRehearsal(r)
    \/ PlaceOrder(r) \/ GetAuthorization(r) \/ StoreChallenge(r)
    \/ Accept(r) \/ WaitAuthorization(r) \/ WaitOrder(r) \/ Finalize(r)
    \/ Remove(r)
    \/ GiveUp(r)

Next ==
    \/ \E r \in Runs : Begin(r) \/ RunStep(r) \/ Cancel(r) \/ Expire(r) \/ Crash(r)
    \/ \E t \in Token : Validate(t)

\* Every command is answered or fails.  A poll that finds the authorization
\* still open changes nothing, and nothing makes the CA decide: while waiting,
\* a run only fails once its context is done.
Progress(r) == RunStep(r) /\ ~(pc[r] = "wait" /\ ctx[r] = "live" /\ GiveUp(r))

Spec == Init /\ [][Next]_vars

FairSpec == Spec /\ \A r \in Runs : WF_vars(Progress(r)) /\ WF_vars(Expire(r))

-------------------------------------------------------------------------------
(* Properties *)

\* No file is on the server without a reason: a run holds it and will remove
\* it, a delete that was sent failed and named it on stderr, the process died,
\* or its store was never answered (selftest.go 99-119, issue.go 111-136).
Litter ==
    \A t \in Token : Stored(t) =>
        \/ \E r \in Runs : HoldsFile(r) /\ cur[r] = t
        \/ left[t] \in {"failed", "unanswered", "crash"}

\* From the moment a run may accept a challenge until it starts to clean up,
\* the file the CA will ask for is there, unless another run solved the same
\* authorization and removed it (issue.go 111-146).
Served ==
    \A r \in Runs :
        (pc[r] \in {"accept", "wait"} /\ storedBy[cur[r]] \subseteq {r}) => Stored(cur[r])

\* Every step a run takes brings it nearer to its end: a later stage, a name or
\* an authorization fewer, or the file in hand nearer to its removal.  What is
\* done again is done by a run that is started again, and the polls of a wait are
\* bounded by Expire alone (selftest.go 60-121, issue.go 21-146).
PlaceRank == [skin |-> 0, create |-> 1, order |-> 2,
              fetch |-> 3, challenge |-> 3, accept |-> 4, wait |-> 5, delete |-> 6,
              store |-> 7, authz |-> 7, finalize |-> 8,
              idle |-> 9, stopped |-> 9, crashed |-> 9]
Stage(r) == IF pc[r] \in Ended THEN 3
            ELSE IF use[r] = "probe" THEN 0
            ELSE IF pc[r] \in {"skin", "create", "order"} THEN 1 ELSE 2
Advances(r) ==
    \/ Stage(r)' > Stage(r)
    \/ /\ Stage(r)' = Stage(r)
       /\ toProbe'[r] \subseteq toProbe[r] /\ toSolve'[r] \subseteq toSolve[r]
       /\ \/ toProbe'[r] # toProbe[r] \/ toSolve'[r] # toSolve[r]
          \/ PlaceRank[pc'[r]] > PlaceRank[pc[r]]
RunAdvances == [][\A r \in Runs : RunStep(r) => Advances(r)]_vars

\* A run never waits for ever: not for a CA that does not decide (main.go 380),
\* not in the clean-up.
RunStops == \A r \in Runs : pc[r] \notin Ended ~> pc[r] \in Ended

\* README.md 183-187: an interrupted run still takes its files off the server,
\* and a file whose delete failed is named on stderr.  Fails: the delete is only
\* deferred once the store was answered, and a failed store names no file.
InterruptedRunCleansUp ==
    \A r \in Runs, t \in Token :
        (pc[r] = "stopped" /\ ctx[r] = "done" /\ storedBy[t] = {r} /\ Stored(t))
            => left[t] \in {"failed", "crash"}
===============================================================================
