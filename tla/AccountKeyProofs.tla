--------------------------- MODULE AccountKeyProofs ---------------------------
(***************************************************************************)
(* What holds of the account key whatever the number of keys and the       *)
(* endpoints: its type, and, as long as runs do not overlap, that no       *)
(* account loses its key and no key file is replaced.                      *)
(***************************************************************************)
EXTENDS AccountKey, TLAPS

\* What a run knows of the file between two commands, when no other run works.
FileAsRead ==
    \A r \in Runs :
        /\ pc[r] = "write" => file[KeyPath(Endpoint(r))] = Missing
        /\ pc[r] = "register" => file[KeyPath(Endpoint(r))] = key[r]

Kept == TypeOK /\ AccountKeyOnFile /\ FileAsRead

KeepsFiles == \A p \in Paths : file[p] # Missing => file'[p] = file[p]

LEMMA PathOfEndpoint == \A e \in Endpoints : KeyPath(e) \in Paths
  BY DEF Paths

\* A run that was not refused works with one of the endpoints.
LEMMA EndpointAccepted ==
  ASSUME TypeOK, NEW r \in Runs, pc[r] \notin Ended
  PROVE  Endpoint(r) \in Endpoints
  BY DEF TypeOK, Accepted, Endpoint

-------------------------------------------------------------------------------
LEMMA TypeOKStep == TypeOK /\ [Next]_vars => TypeOK'
  <1> SUFFICES ASSUME TypeOK, [Next]_vars PROVE TypeOK'
    OBVIOUS
  <1> USE AccountKeyAssumption, PathOfEndpoint DEF TypeOK, Ended, Goto
  <1>1. CASE UNCHANGED vars
    BY <1>1 DEF vars
  <1>2. ASSUME NEW r \in Runs, Begin(r) PROVE TypeOK'
    <2>1. PICK c \in Configs : /\ conf' = [conf EXCEPT ![r] = c]
                               /\ pc' = [pc EXCEPT ![r] = IF Accepted(c) THEN "read" ELSE "failed"]
      BY <1>2 DEF Begin
    <2>2. \A s \in Runs : pc'[s] \notin Ended => Accepted(conf'[s])
      BY <2>1
    <2> QED
      BY <1>2, <2>1, <2>2 DEF Begin
  <1>3. ASSUME NEW r \in Runs, ReadKey(r) PROVE TypeOK'
    BY <1>3 DEF ReadKey
  <1>4. ASSUME NEW r \in Runs, ReadFails(r) PROVE TypeOK'
    BY <1>4 DEF ReadFails
  <1>5. ASSUME NEW r \in Runs, WriteKey(r) PROVE TypeOK'
    <2>1. PICK k \in Key \ drawn : /\ drawn' = drawn \cup {k}
                                   /\ key' = [key EXCEPT ![r] = k]
                                   /\ file' = [file EXCEPT ![KeyPath(Endpoint(r))] = k]
      BY <1>5 DEF WriteKey
    <2>2. pc' \in [Runs -> Ended \cup {"read", "write", "register", "ready"}]
      BY <1>5 DEF WriteKey
    <2>3. \A s \in Runs : pc'[s] \notin Ended => Accepted(conf'[s])
      BY <1>5 DEF WriteKey
    <2>4. \A s \in Runs : pc'[s] \in {"register", "ready"} => key'[s] \in Key
      BY <1>5, <2>1 DEF WriteKey
    <2> QED
      BY <1>5, <2>1, <2>2, <2>3, <2>4 DEF WriteKey
  <1>6. ASSUME NEW r \in Runs, WriteFails(r) PROVE TypeOK'
    BY <1>6 DEF WriteFails
  <1>7. ASSUME NEW r \in Runs, Register(r) PROVE TypeOK'
    BY <1>7 DEF Register
  <1>8. ASSUME NEW r \in Runs, RegisterFails(r) PROVE TypeOK'
    BY <1>8 DEF RegisterFails
  <1>9. ASSUME NEW r \in Runs, Finish(r) PROVE TypeOK'
    BY <1>9 DEF Finish
  <1> QED
    BY <1>1, <1>2, <1>3, <1>4, <1>5, <1>6, <1>7, <1>8, <1>9 DEF Next

\* The account key's state keeps its type, however many runs overlap.
THEOREM AccountKeyTyped == Spec => []TypeOK
  <1>1. Init => TypeOK
    BY DEF Init, TypeOK, Ended
  <1> QED
    BY <1>1, TypeOKStep, PTL DEF Spec

-------------------------------------------------------------------------------
(* Runs that do not overlap: to the storage they are one process that      *)
(* begins over and over.                                                   *)

LEMMA KeptStep ==
  ASSUME NEW r, Runs = {r}
  PROVE  Kept /\ [Next]_vars => Kept' /\ (KeepsFiles \/ UNCHANGED vars)
  <1> SUFFICES ASSUME Kept, [Next]_vars PROVE Kept' /\ (KeepsFiles \/ UNCHANGED vars)
    OBVIOUS
  <1>t. TypeOK'
    BY TypeOKStep DEF Kept
  <1> USE <1>t, AccountKeyAssumption, PathOfEndpoint
      DEF Kept, TypeOK, AccountKeyOnFile, FileAsRead, KeepsFiles, Ended, Goto
  <1>1. CASE UNCHANGED vars
    BY <1>1 DEF vars, Endpoint
  <1>2. CASE Begin(r)
    <2>1. pc'[r] \in {"read", "failed"} /\ UNCHANGED <<file, account>>
      BY <1>2 DEF Begin
    <2> QED
      BY <2>1
  <1>3. CASE ReadKey(r)
    <2>1. Endpoint(r)' = Endpoint(r)
      BY <1>3 DEF ReadKey, Endpoint
    <2> QED
      BY <1>3, <2>1 DEF ReadKey
  <1>4. CASE ReadFails(r)
    BY <1>4 DEF ReadFails
  <1>5. CASE WriteKey(r)
    <2>1. PICK k \in Key \ drawn : file' = [file EXCEPT ![KeyPath(Endpoint(r))] = k]
                                   /\ key' = [key EXCEPT ![r] = k]
      BY <1>5 DEF WriteKey
    <2>2. file[KeyPath(Endpoint(r))] = Missing /\ KeyPath(Endpoint(r)) \in Paths
      BY <1>5 DEF WriteKey
    \* The file is missing, so the CA knows no key for this path yet.
    <2>3. \A e \in Endpoints : KeyPath(e) = KeyPath(Endpoint(r)) => account[e] = {}
      BY <2>2
    <2>4. AccountKeyOnFile'
      BY <1>5, <2>1, <2>2, <2>3 DEF WriteKey
    <2>5. FileAsRead'
      <3>1. Endpoint(r)' = Endpoint(r) /\ pc'[r] \in {"register", "failed"}
        BY <1>5 DEF WriteKey, Endpoint
      <3>2. file'[KeyPath(Endpoint(r))] = key'[r]
        BY <2>1, <2>2
      <3> QED
        BY <3>1, <3>2
    <2>6. KeepsFiles
      BY <2>1, <2>2
    <2> QED
      BY <2>4, <2>5, <2>6
  <1>6. CASE WriteFails(r)
    BY <1>6 DEF WriteFails
  <1>7. CASE Register(r)
    BY <1>7 DEF Register
  <1>8. CASE RegisterFails(r)
    BY <1>8 DEF RegisterFails
  <1>9. CASE Finish(r)
    BY <1>9 DEF Finish
  <1> QED
    BY <1>1, <1>2, <1>3, <1>4, <1>5, <1>6, <1>7, <1>8, <1>9 DEF Next

LEMMA InitKept == Init => Kept
  BY DEF Init, Kept, TypeOK, AccountKeyOnFile, FileAsRead, Ended

\* Runs that follow one another, whatever fails in them and wherever they die,
\* never leave an account whose key is not on file.
THEOREM AccountsAreKept ==
  ASSUME NEW r, Runs = {r}
  PROVE  Spec => []AccountKeyOnFile
  <1>1. Kept /\ [Next]_vars => Kept'
    BY KeptStep
  <1>2. Kept => AccountKeyOnFile
    BY DEF Kept
  <1> QED
    BY <1>1, <1>2, InitKept, PTL DEF Spec

\* Nor do they ever replace a key file, be it a key or not.
THEOREM FilesAreKept ==
  ASSUME NEW r, Runs = {r}
  PROVE  Spec => FileNeverReplaced
  <1>1. Kept /\ [Next]_vars => Kept'
    BY KeptStep
  <1>2. Kept /\ [Next]_vars => [KeepsFiles]_vars
    BY KeptStep
  <1> QED
    BY <1>1, <1>2, InitKept, PTL DEF Spec, FileNeverReplaced, KeepsFiles

-------------------------------------------------------------------------------
(* A staging run and production: what such a run writes or registers, it    *)
(* writes or registers under its own endpoint, which is the staging URL.    *)

ProductionSpared ==
    \A r \in Runs :
        LET production == conf[r].directory IN
        (/\ pc[r] \notin Ended /\ conf[r].staging
         /\ production \in Endpoints /\ production # conf[r].stagingURL)
            => /\ account'[production] = account[production]
               /\ KeyPath(production) # KeyPath(Endpoint(r))
                    => file'[KeyPath(production)] = file[KeyPath(production)]

\* However it is configured, a staging run never changes production's accounts,
\* nor production's key file when the two are on different hosts.
THEOREM StagingKeepsApart ==
  ASSUME NEW r, Runs = {r}
  PROVE  Spec => StagingApart
  <1>1. TypeOK /\ [Next]_vars => [ProductionSpared]_vars
    <2> SUFFICES ASSUME TypeOK, Next,
                        pc[r] \notin Ended, conf[r].staging,
                        conf[r].directory \in Endpoints,
                        conf[r].directory # conf[r].stagingURL
                 PROVE  /\ account'[conf[r].directory] = account[conf[r].directory]
                        /\ KeyPath(conf[r].directory) # KeyPath(Endpoint(r))
                             => file'[KeyPath(conf[r].directory)] = file[KeyPath(conf[r].directory)]
      BY DEF ProductionSpared
    <2> USE PathOfEndpoint DEF TypeOK
    <2>1. Endpoint(r) \in Endpoints /\ Endpoint(r) # conf[r].directory
      BY EndpointAccepted DEF Endpoint, ActiveURL
    <2>2. \A k : account' = [account EXCEPT ![Endpoint(r)] = k]
                  => account'[conf[r].directory] = account[conf[r].directory]
      BY <2>1
    <2>3. \A k : file' = [file EXCEPT ![KeyPath(Endpoint(r))] = k]
                  => (KeyPath(conf[r].directory) # KeyPath(Endpoint(r))
                        => file'[KeyPath(conf[r].directory)] = file[KeyPath(conf[r].directory)])
      BY <2>1
    <2>4. CASE WriteKey(r)
      BY <2>3, <2>4 DEF WriteKey
    <2>5. CASE Register(r)
      BY <2>2, <2>5 DEF Register
    <2>6. ~Begin(r)
      BY DEF Begin
    <2>7. CASE ReadKey(r) \/ ReadFails(r) \/ WriteFails(r) \/ RegisterFails(r) \/ Finish(r)
      BY <2>7 DEF ReadKey, ReadFails, WriteFails, RegisterFails, Finish
    <2> QED
      BY <2>4, <2>5, <2>6, <2>7 DEF Next
  <1>2. Init => TypeOK
    BY InitKept DEF Kept
  <1> QED
    BY <1>1, <1>2, TypeOKStep, PTL DEF Spec, StagingApart, ProductionSpared
===============================================================================
