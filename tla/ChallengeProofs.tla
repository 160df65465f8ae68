--------------------------- MODULE ChallengeProofs ----------------------------
(***************************************************************************)
(* Theorems about Challenge, for every set of runs, names and tokens: any  *)
(* number of overlapping runs, interrupted, killed and started again.      *)
(***************************************************************************)
EXTENDS Challenge, TLAPS

\* The file of a token has one name, and no two tokens share it.
LEMMA FileNames ==
    /\ \A t : ToLower(Spelled(t)) = <<t, "lower">>
    /\ \A t, u : ToLower(Spelled(t)) = ToLower(Spelled(u)) => t = u
    /\ \A t \in Token : ToLower(Spelled(t)) \in FileName
    /\ \A t : NameToDelete(t) = ToLower(Spelled(t))
  BY DEF ToLower, Spelled, FileName, NameToDelete

-------------------------------------------------------------------------------
(* Types, one lemma for each part of the run. *)

LEMMA InitTyped == Init => TypeOK
  BY DEF Init, TypeOK, Ended, HoldsFile

\* Storing a file.
LEMMA StoreTyped ==
    ASSUME TypeOK, NEW r \in Runs, NEW t \in Token, NEW next \in {"fetch", "accept"},
           StoreFile(r, t, next)
    PROVE  /\ files' \in SUBSET FileName
           /\ storedBy' \in [Token -> SUBSET Runs]
           /\ pc' \in [Runs -> Ended \cup {"skin", "create", "store", "fetch", "order",
                          "authz", "challenge", "accept", "wait", "delete", "finalize"}]
           /\ cur' \in [Runs -> Token \cup {None}]
           /\ left' \in [Token -> {"no", "failed", "refused", "unanswered", "crash"}]
           /\ ctx' \in [Runs -> {"live", "done"}]
           /\ \A q \in Runs : (pc[q] = "challenge" \/ HoldsFile(q))' => cur'[q] \in Token
  <1>1. files' \in SUBSET FileName /\ storedBy' \in [Token -> SUBSET Runs]
    BY FileNames DEF TypeOK, StoreFile
  <1>2. CASE /\ pc' = [pc EXCEPT ![r] = next]
             /\ cur' = [cur EXCEPT ![r] = t]
             /\ left' = [left EXCEPT ![t] = "no"]
             /\ UNCHANGED ctx
    BY <1>1, <1>2 DEF TypeOK, Ended, HoldsFile
  <1>3. CASE /\ pc' = [pc EXCEPT ![r] = "stopped"]
             /\ cur' = [cur EXCEPT ![r] = None]
             /\ left' = [left EXCEPT ![t] = "unanswered"]
             /\ ctx' \in {ctx, [ctx EXCEPT ![r] = "done"]}
    BY <1>1, <1>3 DEF TypeOK, Ended, HoldsFile
  <1>4. QED
    BY <1>2, <1>3 DEF StoreFile

LEMMA RehearsalTyped ==
    ASSUME TypeOK, NEW r \in Runs,
           \/ Begin(r) \/ ListSkins(r) \/ CreateSkin(r)
           \/ StoreProbe(r) \/ Fetch(r) \/ FinishRehearsal(r)
    PROVE  TypeOK'
  <1>1. CASE Begin(r)
    BY <1>1 DEF TypeOK, Begin, Ended, HoldsFile, remote, history
  <1>2. CASE ListSkins(r)
    BY <1>2 DEF TypeOK, ListSkins, AfterSkin, Ended, HoldsFile, remote, work, history
  <1>3. CASE CreateSkin(r)
    BY <1>3 DEF TypeOK, CreateSkin, AfterSkin, Ended, HoldsFile, work, history
  <1>4. CASE StoreProbe(r)
    <2>1. PICK n \in toProbe[r], t \in Token :
              /\ authz' = [authz EXCEPT ![t] = "probe"]
              /\ toProbe' = [toProbe EXCEPT ![r] = @ \ {n}]
              /\ StoreFile(r, t, "fetch")
      BY <1>4 DEF StoreProbe
    <2>2. UNCHANGED <<skin, ident, use, toSolve, order, ok>>
      BY <1>4 DEF StoreProbe
    <2>3. /\ authz' \in [Token -> {"unused", "probe", "pending", "processing", "valid", "invalid"}]
          /\ toProbe' \in [Runs -> SUBSET Name]
      BY <2>1 DEF TypeOK
    <2>4. QED
      BY <2>1, <2>2, <2>3, StoreTyped DEF TypeOK, HoldsFile
  <1>5. CASE Fetch(r)
    BY <1>5 DEF TypeOK, Fetch, Ended, HoldsFile, remote, work, history
  <1>6. CASE FinishRehearsal(r)
    BY <1>6 DEF TypeOK, FinishRehearsal, Ended, HoldsFile, remote, work, history
  <1>7. QED
    BY <1>1, <1>2, <1>3, <1>4, <1>5, <1>6

LEMMA IssuanceTyped ==
    ASSUME TypeOK, NEW r \in Runs,
           \/ PlaceOrder(r) \/ GetAuthorization(r) \/ StoreChallenge(r)
           \/ Accept(r) \/ WaitAuthorization(r) \/ WaitOrder(r) \/ Finalize(r)
    PROVE  TypeOK'
  <1>1. CASE PlaceOrder(r)
    <2>1. PICK names \in SUBSET Name : \E f \in [names -> Token] : Granted(r, names, f)
      BY <1>1 DEF PlaceOrder
    <2>2. PICK f \in [names -> Token] : Granted(r, names, f)
      BY <2>1
    <2> DEFINE tokens == {f[n] : n \in names}
    <2>3. tokens \subseteq Token
      OBVIOUS
    <2>4. ident' \in [Token -> Name \cup {None}]
      <3>1. \A t \in tokens : (CHOOSE n \in names : f[n] = t) \in names
        OBVIOUS
      <3>2. QED
        BY <2>2, <2>3, <3>1 DEF TypeOK, Granted
    <2>5. authz' \in [Token -> {"unused", "probe", "pending", "processing", "valid", "invalid"}]
      BY <2>2 DEF TypeOK, Granted
    <2>6. order' \in [Runs -> SUBSET Token] /\ toSolve' \in [Runs -> SUBSET Token]
      BY <2>2, <2>3 DEF TypeOK, Granted
    <2>7. QED
      BY <1>1, <2>4, <2>5, <2>6 DEF TypeOK, PlaceOrder, Ended, HoldsFile, history
  <1>2. CASE GetAuthorization(r)
    BY <1>2 DEF TypeOK, GetAuthorization, Ended, HoldsFile, remote, history
  <1>3. CASE StoreChallenge(r)
    <2>1. cur[r] \in Token /\ StoreFile(r, cur[r], "accept")
      BY <1>3 DEF StoreChallenge, TypeOK
    <2>2. UNCHANGED <<skin, authz, ident, use, toProbe, toSolve, order, ok>>
      BY <1>3 DEF StoreChallenge, work
    <2>3. QED
      BY <2>1, <2>2, StoreTyped DEF TypeOK, HoldsFile
  <1>4. CASE Accept(r)
    <2>1. authz' \in [Token -> {"unused", "probe", "pending", "processing", "valid", "invalid"}]
      BY <1>4 DEF TypeOK, Accept
    <2>2. /\ ok' \in [Runs -> BOOLEAN] /\ HoldsFile(r) /\ UNCHANGED cur
          /\ \E p \in {"wait", "delete"} : pc' = [pc EXCEPT ![r] = p]
      BY <1>4 DEF TypeOK, Accept, HoldsFile
    <2>3. QED
      BY <1>4, <2>1, <2>2 DEF TypeOK, Accept, Ended, HoldsFile, work, history
  <1>5. CASE WaitAuthorization(r)
    BY <1>5 DEF TypeOK, WaitAuthorization, Ended, HoldsFile, remote, work, history
  <1>6. CASE WaitOrder(r)
    BY <1>6 DEF TypeOK, WaitOrder, Ended, HoldsFile, remote, work, history
  <1>7. CASE Finalize(r)
    BY <1>7 DEF TypeOK, Finalize, Ended, HoldsFile, remote, work, history
  <1>8. QED
    BY <1>1, <1>2, <1>3, <1>4, <1>5, <1>6, <1>7

\* A clean-up is always sent: its context is a live one.
LEMMA AlwaysSent == \A r \in Runs : Sent(CleanupContext(r))
  BY DEF Sent, CleanupContext

LEMMA EndsTyped ==
    ASSUME TypeOK, NEW r \in Runs,
           Remove(r) \/ GiveUp(r) \/ Cancel(r) \/ Expire(r) \/ Crash(r)
    PROVE  TypeOK'
  <1>1. CASE Remove(r)
    <2>1. cur[r] \in Token
      BY <1>1 DEF Remove, TypeOK, HoldsFile
    <2>2. files' \in SUBSET FileName
      BY <1>1 DEF Remove, TypeOK
    <2>3. left' \in [Token -> {"no", "failed", "refused", "unanswered", "crash"}]
      BY <1>1, <2>1 DEF Remove, TypeOK
    <2>4. QED
      BY <1>1, <2>2, <2>3 DEF TypeOK, Remove, AfterRemove, Ended, HoldsFile, work
  <1>2. CASE GiveUp(r)
    <2>1. UNCHANGED <<remote, use, work, cur, ctx, history>>
      BY <1>2 DEF GiveUp
    <2>2. CASE HoldsFile(r)
      <3>1. pc' = [pc EXCEPT ![r] = "delete"] /\ ok' = [ok EXCEPT ![r] = FALSE]
        BY <1>2, <2>2 DEF GiveUp
      <3>2. cur[r] \in Token
        BY <2>2 DEF TypeOK
      <3>3. QED
        BY <2>1, <3>1, <3>2 DEF TypeOK, HoldsFile, remote, work, history
    <2>3. CASE ~HoldsFile(r)
      <3>1. pc' = [pc EXCEPT ![r] = "stopped"] /\ ok' = ok
        BY <1>2, <2>3 DEF GiveUp
      <3>2. QED
        BY <2>1, <3>1 DEF TypeOK, Ended, HoldsFile, remote, work, history
    <2>4. QED
      BY <2>2, <2>3
  <1>3. CASE Cancel(r)
    BY <1>3 DEF TypeOK, Cancel, Ended, HoldsFile, remote, work, history
  <1>4. CASE Expire(r)
    BY <1>4 DEF TypeOK, Expire, Ended, HoldsFile, remote, work, history
  <1>5. CASE Crash(r)
    BY <1>5 DEF TypeOK, Crash, Ended, HoldsFile, remote, work
  <1>6. QED
    BY <1>1, <1>2, <1>3, <1>4, <1>5

LEMMA StepTyped == TypeOK /\ [Next]_vars => TypeOK'
  <1> SUFFICES ASSUME TypeOK, [Next]_vars PROVE TypeOK'
    OBVIOUS
  <1>1. ASSUME NEW t \in Token, Validate(t) PROVE TypeOK'
    BY <1>1 DEF TypeOK, Validate, Ended, HoldsFile, work, history
  <1>2. CASE UNCHANGED vars
    BY <1>2 DEF TypeOK, HoldsFile, vars, remote, work, history
  <1>3. QED
    BY <1>1, <1>2, RehearsalTyped, IssuanceTyped, EndsTyped DEF Next, RunStep

-------------------------------------------------------------------------------
(***************************************************************************)
(* Where files come from and go to.  Placed is what Served rests on: only  *)
(* a run that stored a file ever removes it.                               *)
(***************************************************************************)
Placed == \A r \in Runs : HoldsFile(r) => r \in storedBy[cur[r]]

Filed == Litter /\ Served /\ Placed

LEMMA InitFiled == Init => Filed
  BY DEF Init, Filed, Litter, Served, Placed, Stored, HoldsFile

\* A step that leaves the server's files alone, and takes no file up or down.
LEMMA FilesLeftAlone ==
    ASSUME Filed, UNCHANGED <<files, history>>,
           \A q \in Runs : HoldsFile(q) \/ HoldsFile(q)' =>
               HoldsFile(q) /\ HoldsFile(q)' /\ cur'[q] = cur[q],
           \A q \in Runs : pc'[q] \in {"accept", "wait"} => pc[q] \in {"accept", "wait"}
    PROVE  Filed'
  <1>1. UNCHANGED <<files, left, storedBy>>
    BY DEF history
  <1>2. \A t \in Token : Stored(t)' <=> Stored(t)
    BY <1>1 DEF Stored
  <1>3. Litter'
    BY <1>1, <1>2 DEF Filed, Litter
  <1>4. Served'
    <2> SUFFICES ASSUME NEW r \in Runs, pc'[r] \in {"accept", "wait"},
                        storedBy'[cur'[r]] \subseteq {r}
                 PROVE  Stored(cur[r])'
      BY DEF Served
    <2>1. pc[r] \in {"accept", "wait"} /\ cur'[r] = cur[r]
      BY DEF HoldsFile
    <2>2. QED
      BY <1>1, <2>1 DEF Filed, Served, Stored
  <1>5. Placed'
    BY <1>1 DEF Filed, Placed
  <1>6. QED
    BY <1>3, <1>4, <1>5 DEF Filed

\* Storing a file.
LEMMA StoreFiled ==
    ASSUME TypeOK, Filed, NEW r \in Runs, NEW t \in Token, ~HoldsFile(r),
           NEW next \in {"fetch", "accept"}, StoreFile(r, t, next)
    PROVE  Filed'
  <1>1. \A u \in Token : Stored(u)' <=> Stored(u) \/ u = t
    BY FileNames DEF StoreFile, Stored
  <1>2. storedBy' = [storedBy EXCEPT ![t] = @ \cup {r}]
    BY DEF StoreFile
  <1>3. CASE /\ pc' = [pc EXCEPT ![r] = next]
             /\ cur' = [cur EXCEPT ![r] = t]
             /\ left' = [left EXCEPT ![t] = "no"]
    <2>1. HoldsFile(r)' /\ cur'[r] = t
      BY <1>3 DEF TypeOK, HoldsFile
    <2>2. \A q \in Runs \ {r} : pc'[q] = pc[q] /\ cur'[q] = cur[q]
      BY <1>3 DEF TypeOK
    <2>3. Litter'
      <3> SUFFICES ASSUME NEW u \in Token, Stored(u)', u # t
                   PROVE  \/ \E q \in Runs : HoldsFile(q)' /\ cur'[q] = u
                          \/ left'[u] \in {"failed", "unanswered", "crash"}
        BY <2>1 DEF Litter
      <3>1. left'[u] = left[u]
        BY <1>3 DEF TypeOK
      <3>2. QED
        BY <1>1, <2>2, <3>1 DEF Filed, Litter, HoldsFile
    <2>4. Served'
      <3> SUFFICES ASSUME NEW q \in Runs, pc'[q] \in {"accept", "wait"},
                          storedBy'[cur'[q]] \subseteq {q}
                   PROVE  Stored(cur[q])'
        BY DEF Served
      <3>1. CASE q = r
        BY <1>1, <2>1, <3>1
      <3>2. CASE q # r
        <4>1. cur[q] \in Token /\ pc[q] \in {"accept", "wait"} /\ cur'[q] = cur[q]
          BY <2>2, <3>2 DEF TypeOK, HoldsFile
        <4>2. storedBy[cur[q]] \subseteq {q}
          BY <1>2, <4>1 DEF TypeOK
        <4>3. QED
          BY <1>1, <4>1, <4>2 DEF Filed, Served
      <3>3. QED
        BY <3>1, <3>2
    <2>5. Placed'
      <3> SUFFICES ASSUME NEW q \in Runs, HoldsFile(q)'
                   PROVE  q \in storedBy'[cur'[q]]
        BY DEF Placed
      <3>1. CASE q = r
        BY <1>2, <2>1, <3>1 DEF TypeOK
      <3>2. CASE q # r
        BY <1>2, <2>2, <3>2 DEF TypeOK, Filed, Placed, HoldsFile
      <3>3. QED
        BY <3>1, <3>2
    <2>6. QED
      BY <2>3, <2>4, <2>5 DEF Filed
  <1>4. CASE /\ pc' = [pc EXCEPT ![r] = "stopped"]
             /\ cur' = [cur EXCEPT ![r] = None]
             /\ left' = [left EXCEPT ![t] = "unanswered"]
    <2>1. ~HoldsFile(r)'
      BY <1>4 DEF TypeOK, HoldsFile
    <2>2. \A q \in Runs \ {r} : pc'[q] = pc[q] /\ cur'[q] = cur[q]
      BY <1>4 DEF TypeOK
    <2>3. Litter'
      <3> SUFFICES ASSUME NEW u \in Token, Stored(u)', u # t
                   PROVE  \/ \E q \in Runs : HoldsFile(q)' /\ cur'[q] = u
                          \/ left'[u] \in {"failed", "unanswered", "crash"}
        BY <1>4 DEF Litter, TypeOK
      <3>1. left'[u] = left[u]
        BY <1>4 DEF TypeOK
      <3>2. QED
        BY <1>1, <2>2, <3>1 DEF Filed, Litter, HoldsFile
    <2>4. Served'
      <3> SUFFICES ASSUME NEW q \in Runs, pc'[q] \in {"accept", "wait"},
                          storedBy'[cur'[q]] \subseteq {q}
                   PROVE  Stored(cur[q])'
        BY DEF Served
      <3>1. q # r
        BY <2>1 DEF HoldsFile
      <3>2. cur[q] \in Token /\ pc[q] \in {"accept", "wait"} /\ cur'[q] = cur[q]
        BY <2>2, <3>1 DEF TypeOK, HoldsFile
      <3>3. storedBy[cur[q]] \subseteq {q}
        BY <1>2, <3>2 DEF TypeOK
      <3>4. QED
        BY <1>1, <3>2, <3>3 DEF Filed, Served
    <2>5. Placed'
      BY <1>2, <2>1, <2>2 DEF TypeOK, Filed, Placed, HoldsFile
    <2>6. QED
      BY <2>3, <2>4, <2>5 DEF Filed
  <1>5. QED
    BY <1>3, <1>4 DEF StoreFile

\* Removing a file, or failing to.
LEMMA RemoveFiled ==
    ASSUME TypeOK, Filed, NEW r \in Runs, Remove(r)
    PROVE  Filed'
  <1>0. PICK t \in Token : t = cur[r]
    BY DEF Remove, TypeOK, HoldsFile
  <1>1. /\ HoldsFile(r) /\ ~HoldsFile(r)'
        /\ \A q \in Runs \ {r} : pc'[q] = pc[q] /\ cur'[q] = cur[q]
        /\ storedBy' = storedBy
    BY DEF Remove, AfterRemove, TypeOK, HoldsFile
  <1>2. \/ files' = files \ {ToLower(Spelled(t))} /\ left' \in {left, [left EXCEPT ![t] = "failed"]}
        \/ files' = files /\ left' = [left EXCEPT ![t] = "failed"]
    BY <1>0, AlwaysSent, FileNames DEF Remove
  <1>3. \A u \in Token \ {t} : (Stored(u)' <=> Stored(u)) /\ left'[u] = left[u]
    BY <1>1, <1>2, FileNames DEF Stored, TypeOK
  <1>4. Stored(t)' => left'[t] = "failed"
    BY <1>2 DEF Stored, TypeOK
  <1>5. Litter'
    <2> SUFFICES ASSUME NEW u \in Token, Stored(u)', u # t
                 PROVE  \/ \E q \in Runs : HoldsFile(q)' /\ cur'[q] = u
                        \/ left'[u] \in {"failed", "unanswered", "crash"}
      BY <1>4 DEF Litter
    <2>1. QED
      BY <1>0, <1>1, <1>3 DEF Filed, Litter, HoldsFile
  <1>6. Served'
    <2> SUFFICES ASSUME NEW q \in Runs, pc'[q] \in {"accept", "wait"},
                        storedBy'[cur'[q]] \subseteq {q}
                 PROVE  Stored(cur[q])'
      BY DEF Served
    <2>1. q # r
      BY <1>1 DEF HoldsFile
    <2>2. cur[q] \in Token /\ pc[q] \in {"accept", "wait"} /\ cur'[q] = cur[q]
      BY <1>1, <2>1 DEF TypeOK, HoldsFile
    <2>3. cur[q] # t
      BY <1>0, <1>1, <2>1, <2>2 DEF Filed, Placed
    <2>4. Stored(cur[q])
      BY <1>1, <2>2 DEF Filed, Served
    <2>5. QED
      BY <1>3, <2>2, <2>3, <2>4 DEF Stored
  <1>7. Placed'
    BY <1>1 DEF Filed, Placed, HoldsFile
  <1>8. QED
    BY <1>5, <1>6, <1>7 DEF Filed

\* A run that is killed leaves its file behind.
LEMMA CrashFiled ==
    ASSUME TypeOK, Filed, NEW r \in Runs, Crash(r)
    PROVE  Filed'
  <1>1. /\ ~HoldsFile(r)'
        /\ \A q \in Runs \ {r} : pc'[q] = pc[q] /\ cur'[q] = cur[q]
        /\ storedBy' = storedBy /\ files' = files
    BY DEF Crash, TypeOK, HoldsFile, remote
  <1>2. \A u \in Token : left'[u] = IF HoldsFile(r) /\ u = cur[r] THEN "crash" ELSE left[u]
    BY DEF Crash
  <1>3. Litter'
    BY <1>1, <1>2 DEF Filed, Litter, Stored, HoldsFile
  <1>4. Served'
    <2> SUFFICES ASSUME NEW q \in Runs, pc'[q] \in {"accept", "wait"},
                        storedBy'[cur'[q]] \subseteq {q}
                 PROVE  Stored(cur[q])'
      BY DEF Served
    <2>1. q # r
      BY <1>1 DEF HoldsFile
    <2>2. QED
      BY <1>1, <2>1 DEF Filed, Served, Stored
  <1>5. Placed'
    BY <1>1 DEF Filed, Placed, HoldsFile
  <1>6. QED
    BY <1>3, <1>4, <1>5 DEF Filed

\* Every other step of a run.
LEMMA OthersFiled ==
    ASSUME TypeOK, Filed, NEW r \in Runs,
           \/ Begin(r) \/ ListSkins(r) \/ CreateSkin(r) \/ Fetch(r) \/ FinishRehearsal(r)
           \/ PlaceOrder(r) \/ GetAuthorization(r) \/ Accept(r) \/ WaitAuthorization(r)
           \/ WaitOrder(r) \/ Finalize(r) \/ GiveUp(r) \/ Cancel(r) \/ Expire(r)
    PROVE  Filed'
  <1>1. CASE Begin(r) \/ ListSkins(r) \/ CreateSkin(r) \/ FinishRehearsal(r)
    BY <1>1, FilesLeftAlone DEF Begin, ListSkins, CreateSkin, FinishRehearsal, AfterSkin, At,
                                Ended, HoldsFile, TypeOK, remote, history
  <1>2. CASE PlaceOrder(r) \/ GetAuthorization(r) \/ WaitOrder(r) \/ Finalize(r)
    BY <1>2, FilesLeftAlone DEF PlaceOrder, GetAuthorization, WaitOrder, Finalize,
                                HoldsFile, TypeOK, remote, history
  <1>3. CASE Fetch(r) \/ Accept(r) \/ WaitAuthorization(r)
    BY <1>3, FilesLeftAlone DEF Fetch, Accept, WaitAuthorization,
                                HoldsFile, TypeOK, remote, history
  <1>4. CASE GiveUp(r)
    BY <1>4, FilesLeftAlone DEF GiveUp, Ended, HoldsFile, TypeOK, remote, history
  <1>5. CASE Cancel(r) \/ Expire(r)
    BY <1>5, FilesLeftAlone DEF Cancel, Expire, HoldsFile, TypeOK, remote, history
  <1>6. QED
    BY <1>1, <1>2, <1>3, <1>4, <1>5

LEMMA StepFiled == TypeOK /\ Filed /\ [Next]_vars => Filed'
  <1> SUFFICES ASSUME TypeOK, Filed, [Next]_vars PROVE Filed'
    OBVIOUS
  <1>1. ASSUME NEW r \in Runs, StoreProbe(r) PROVE Filed'
    BY <1>1, StoreFiled DEF StoreProbe, At, HoldsFile
  <1>2. ASSUME NEW r \in Runs, StoreChallenge(r) PROVE Filed'
    BY <1>2, StoreFiled DEF StoreChallenge, HoldsFile, TypeOK
  <1>3. ASSUME NEW t \in Token, Validate(t) PROVE Filed'
    BY <1>3, FilesLeftAlone DEF Validate, HoldsFile
  <1>4. CASE UNCHANGED vars
    BY <1>4, FilesLeftAlone DEF vars, remote, HoldsFile
  <1>5. QED
    BY <1>1, <1>2, <1>3, <1>4, RemoveFiled, CrashFiled, OthersFiled DEF Next, RunStep

-------------------------------------------------------------------------------
(* Theorems *)

\* Every state is well formed, however many runs work on the domain.
THEOREM ChallengeTyped == Spec => []TypeOK
  BY InitTyped, StepTyped, PTL DEF Spec

LEMMA AlwaysFiled == Spec => []Filed
  BY ChallengeTyped, InitFiled, StepFiled, PTL DEF Spec

\* No file is left without a reason (selftest.go 106-119, issue.go 119-136).
THEOREM NoLitter == Spec => []Litter
  BY AlwaysFiled, PTL DEF Filed

\* A challenge is served for as long as a run may have the CA look at it, unless
\* another run solved the same authorization (issue.go 111-146).
THEOREM ChallengeServed == Spec => []Served
  BY AlwaysFiled, PTL DEF Filed
-------------------------------------------------------------------------------
(* That a run ends at all: no step of it goes back, and none touches another. *)

\* An order is placed after the rehearsal only: else it would start over.
Rehearsed == \A r \in Runs : pc[r] = "order" => use[r] = "challenge"

LEMMA StepRehearsed == TypeOK /\ Rehearsed /\ [Next]_vars => Rehearsed'
  <1> SUFFICES ASSUME TypeOK, Rehearsed, [Next]_vars, NEW r \in Runs, pc'[r] = "order"
               PROVE  use'[r] = "challenge"
    BY DEF Rehearsed
  <1>1. ASSUME NEW q \in Runs, ListSkins(q) \/ CreateSkin(q) PROVE use'[r] = "challenge"
    BY <1>1 DEF TypeOK, Rehearsed, ListSkins, CreateSkin, AfterSkin
  <1>2. ASSUME NEW q \in Runs, Begin(q) \/ FinishRehearsal(q) PROVE use'[r] = "challenge"
    BY <1>2 DEF TypeOK, Rehearsed, Begin, FinishRehearsal
  <1>3. ASSUME NEW q \in Runs, NEW t, NEW next \in {"fetch", "accept"}, StoreFile(q, t, next),
               UNCHANGED use
        PROVE  use'[r] = "challenge"
    BY <1>3 DEF TypeOK, Rehearsed, StoreFile
  <1>4. ASSUME NEW q \in Runs, StoreProbe(q) \/ StoreChallenge(q) PROVE use'[r] = "challenge"
    BY <1>3, <1>4 DEF StoreProbe, StoreChallenge, work
  <1>5. ASSUME NEW q \in Runs,
               \/ Fetch(q) \/ PlaceOrder(q) \/ GetAuthorization(q) \/ Accept(q)
               \/ WaitAuthorization(q) \/ WaitOrder(q) \/ Finalize(q)
        PROVE  use'[r] = "challenge"
    BY <1>5 DEF TypeOK, Rehearsed, Fetch, PlaceOrder, GetAuthorization, Accept,
                WaitAuthorization, WaitOrder, Finalize
  <1>6. ASSUME NEW q \in Runs, Remove(q) \/ GiveUp(q) \/ Cancel(q) \/ Expire(q) \/ Crash(q)
        PROVE  use'[r] = "challenge"
    BY <1>6 DEF TypeOK, Rehearsed, Remove, AfterRemove, GiveUp, Cancel, Expire, Crash
  <1>7. ASSUME NEW t \in Token, Validate(t) PROVE use'[r] = "challenge"
    BY <1>7 DEF Rehearsed, Validate
  <1>8. CASE UNCHANGED vars
    BY <1>8 DEF Rehearsed, vars
  <1> QED
    BY <1>1, <1>2, <1>4, <1>5, <1>6, <1>7, <1>8 DEF Next, RunStep

\* Storing a file takes the run on, or stops it.
LEMMA StoreAdvances ==
    ASSUME TypeOK, NEW r \in Runs, NEW t, NEW next, StoreFile(r, t, next)
    PROVE  pc'[r] \in {next, "stopped"}
  BY DEF TypeOK, StoreFile

LEMMA StepAdvances ==
    ASSUME TypeOK, Rehearsed, NEW r \in Runs, RunStep(r)
    PROVE  Advances(r)
  <1>1. CASE ListSkins(r) \/ CreateSkin(r)
    <2>1. /\ \/ pc[r] = "skin" /\ pc'[r] \in {"create", AfterSkin(r)}
             \/ pc[r] = "create" /\ pc'[r] = AfterSkin(r)
          /\ UNCHANGED <<use, toProbe, toSolve>>
      BY <1>1 DEF TypeOK, ListSkins, CreateSkin, work
    <2>2. CASE use[r] = "probe"
      BY <2>1, <2>2 DEF AfterSkin, Ended, Advances, Stage, PlaceRank
    <2>3. CASE use[r] # "probe"
      BY <2>1, <2>3 DEF AfterSkin, Ended, Advances, Stage, PlaceRank
    <2> QED
      BY <2>2, <2>3
  <1>2. CASE StoreProbe(r)
    <2>1. PICK n \in toProbe[r], t \in Token :
              toProbe' = [toProbe EXCEPT ![r] = @ \ {n}] /\ StoreFile(r, t, "fetch")
      BY <1>2 DEF StoreProbe
    <2>2. toProbe'[r] = toProbe[r] \ {n} /\ toSolve' = toSolve
      BY <1>2, <2>1 DEF TypeOK, StoreProbe
    <2>3. pc[r] = "store" /\ use[r] = "probe" /\ use' = use
      BY <1>2 DEF StoreProbe, At
    <2> QED
      BY <2>1, <2>2, <2>3, StoreAdvances DEF Ended, Advances, Stage
  <1>3. CASE Fetch(r)
    <2>1. pc[r] = "fetch" /\ pc'[r] = "delete" /\ UNCHANGED <<use, toProbe, toSolve>>
      BY <1>3 DEF TypeOK, Fetch, work
    <2> QED
      BY <2>1 DEF Ended, Advances, Stage, PlaceRank
  <1>4. CASE FinishRehearsal(r)
    <2>1. /\ pc[r] = "store" /\ use[r] = "probe"
          /\ \/ pc'[r] = "skin" /\ use'[r] = "challenge"
             \/ pc'[r] = "stopped"
      BY <1>4 DEF TypeOK, FinishRehearsal, At
    <2> QED
      BY <2>1 DEF Ended, Advances, Stage
  <1>5. CASE GetAuthorization(r)
    BY <1>5 DEF TypeOK, GetAuthorization, Ended, Advances, Stage
  <1>6. CASE StoreChallenge(r)
    BY <1>6, StoreAdvances DEF StoreChallenge, work, Ended, Advances, Stage, PlaceRank
  <1>7. CASE Accept(r) \/ WaitAuthorization(r)
    BY <1>7 DEF TypeOK, Accept, WaitAuthorization, work, Ended, Advances, Stage, PlaceRank
  <1>8. CASE Remove(r)
    BY <1>8 DEF TypeOK, Remove, AfterRemove, work, Ended, Advances, Stage, PlaceRank
  <1>9. CASE GiveUp(r)
    <2>1. UNCHANGED <<use, toProbe, toSolve>>
      BY <1>9 DEF GiveUp, work
    <2>2. CASE HoldsFile(r)
      <3>1. pc[r] \in {"accept", "wait"} /\ pc'[r] = "delete"
        BY <1>9, <2>2 DEF TypeOK, GiveUp, HoldsFile
      <3> QED
        BY <2>1, <3>1 DEF Ended, Advances, Stage, PlaceRank
    <2>3. CASE ~HoldsFile(r)
      BY <1>9, <2>3 DEF TypeOK, GiveUp, Ended, Advances, Stage
    <2> QED
      BY <2>2, <2>3
  <1>10. CASE PlaceOrder(r)
    BY <1>10 DEF TypeOK, Rehearsed, PlaceOrder, Ended, Advances, Stage
  <1>11. CASE WaitOrder(r) \/ Finalize(r)
    <2>1. /\ \/ pc[r] = "authz" /\ pc'[r] = "finalize"
             \/ pc[r] = "finalize" /\ pc'[r] = "stopped"
          /\ UNCHANGED <<use, toProbe, toSolve>>
      BY <1>11 DEF TypeOK, WaitOrder, Finalize, work
    <2> QED
      BY <2>1 DEF Ended, Advances, Stage, PlaceRank
  <1> QED
    BY <1>1, <1>2, <1>3, <1>4, <1>5, <1>6, <1>7, <1>8, <1>9, <1>10, <1>11 DEF RunStep

Onward == \A r \in Runs : RunStep(r) => Advances(r)

\* A run works through its names and authorizations without going back, whatever
\* the server, the CA and other runs do meanwhile (selftest.go 60-121, issue.go 21-146).
THEOREM RunsAdvance == Spec => RunAdvances
  <1>1. Init => Rehearsed
    BY DEF Init, Rehearsed
  <1>2. TypeOK /\ Rehearsed /\ [Next]_vars => [Onward]_vars
    BY StepAdvances DEF Onward
  <1> QED
    BY <1>1, <1>2, StepRehearsed, ChallengeTyped, PTL DEF Spec, RunAdvances, Onward
===============================================================================
