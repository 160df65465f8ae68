------------------------------ MODULE AccountKey ------------------------------
(***************************************************************************)
(* The ACME account of a run: newACMEClient reads its key from the CLI     *)
(* account's File Storage, generates and stores one if there is none, and  *)
(* registers with the CA.  Runs come one after the other or overlap, with  *)
(* any endpoint they are configured for; commands fail, their answers are  *)
(* lost, and the process may die after any of them.                        *)
(***************************************************************************)
CONSTANTS
    Runs,       \* processes of the tool
    Endpoints,  \* directory URLs in use, each with a host and a path
    NoURL,      \* a URL that is empty or does not parse
    Configs,    \* the [acme] sections runs may be configured with
    Key,        \* every key that may be generated
    Missing,    \* no such file
    Garbage     \* a file that is not a PKCS#1 key

ASSUME AccountKeyAssumption ==
    /\ \A e \in Endpoints : {"host", "path"} \subseteq DOMAIN e
    /\ NoURL \notin Endpoints
    /\ Configs \subseteq [staging : BOOLEAN,
                          directory : Endpoints \cup {NoURL}, stagingURL : Endpoints \cup {NoURL},
                          kid : BOOLEAN, hmac : {"absent", "garbled", "decodes"}]
    /\ Missing \notin Key /\ Garbage \notin Key /\ Missing # Garbage

\* Mutation of ActiveURL: without a staging_url, production it is.
FallsBack(c) == IF c.staging /\ c.stagingURL # NoURL THEN c.stagingURL ELSE c.directory
\* acmeEndpoint: the directory of the run, and its key file account-<host>.key.
ActiveURL(c) == IF c.staging THEN c.stagingURL ELSE c.directory
KeyPath(e) == e.host
Paths == {KeyPath(e) : e \in Endpoints}

\* externalAccountBinding: neither half, or both and the key decodes.
BindingAccepted(c) == IF c.kid THEN c.hmac = "decodes" ELSE c.hmac = "absent"
Accepted(c) == ActiveURL(c) \in Endpoints /\ BindingAccepted(c)

VARIABLES
    file,       \* the account-key files in File Storage
    account,    \* per endpoint, the keys its CA has an account for
    drawn,      \* keys generated so far
    pc, conf, key

vars == <<file, account, drawn, pc, conf, key>>

Ended == {"idle", "failed"}

TypeOK ==
    /\ file \in [Paths -> Key \cup {Missing, Garbage}]
    /\ account \in [Endpoints -> SUBSET Key]
    /\ drawn \in SUBSET Key
    /\ pc \in [Runs -> Ended \cup {"read", "write", "register", "ready"}]
    /\ conf \in [Runs -> Configs]
    /\ \A r \in Runs : pc[r] \notin Ended => Accepted(conf[r])
    /\ key \in [Runs -> Key \cup {Missing}]
    /\ \A r \in Runs : pc[r] \in {"register", "ready"} => key[r] \in Key

Init ==
    /\ file \in [Paths -> {Missing, Garbage}]
    /\ account = [e \in Endpoints |-> {}]
    /\ drawn = {}
    /\ pc = [r \in Runs |-> "idle"]
    /\ conf \in [Runs -> Configs]
    /\ key = [r \in Runs |-> Missing]

-------------------------------------------------------------------------------
Endpoint(r) == ActiveURL(conf[r])
Goto(r, p) == pc' = [pc EXCEPT ![r] = p]

\* A configuration that is refused fails before any command.
Begin(r) ==
    /\ pc[r] \in Ended
    /\ \E c \in Configs :
        /\ conf' = [conf EXCEPT ![r] = c]
        /\ Goto(r, IF Accepted(c) THEN "read" ELSE "failed")
    /\ key' = [key EXCEPT ![r] = Missing]
    /\ UNCHANGED <<file, account, drawn>>

\* Mutation of ReadKey: a file that does not parse is taken for a key.
SkipsParsing(r) ==
    /\ pc[r] = "read"
    /\ key' = [key EXCEPT ![r] = file[KeyPath(Endpoint(r))]]
    /\ Goto(r, IF key'[r] = Missing THEN "write" ELSE "register")
    /\ UNCHANGED <<file, account, drawn, conf>>

\* The file is a key, or it is not there; 599 is the server's word for that.
ReadKey(r) ==
    /\ pc[r] = "read"
    /\ LET found == file[KeyPath(Endpoint(r))] IN
        \/ /\ found \in Key
           /\ key' = [key EXCEPT ![r] = found]
           /\ Goto(r, "register")
        \/ /\ found = Missing
           /\ Goto(r, "write")
           /\ UNCHANGED key
    /\ UNCHANGED <<file, account, drawn, conf>>

\* Mutation of ReadFails: whatever the error, a key is generated.
GeneratesAnyway(r) ==
    /\ pc[r] = "read"
    /\ Goto(r, "write")
    /\ UNCHANGED <<file, account, drawn, conf, key>>

\* Any other answer, and a file that does not parse, is an error.
ReadFails(r) ==
    /\ pc[r] = "read"
    /\ Goto(r, "failed")
    /\ UNCHANGED <<file, account, drawn, conf, key>>

\* Mutation of WriteKey: the error of the write is ignored.
RegistersUnsaved(r) ==
    /\ pc[r] = "write"
    /\ \E k \in Key \ drawn :
        /\ drawn' = drawn \cup {k}
        /\ key' = [key EXCEPT ![r] = k]
        /\ file' \in {file, [file EXCEPT ![KeyPath(Endpoint(r))] = k]}
    /\ Goto(r, "register")
    /\ UNCHANGED <<account, conf>>

\* WRITESTORAGEFILE replaces the file; its answer may be lost.
WriteKey(r) ==
    /\ pc[r] = "write"
    /\ \E k \in Key \ drawn :
        /\ drawn' = drawn \cup {k}
        /\ key' = [key EXCEPT ![r] = k]
        /\ file' = [file EXCEPT ![KeyPath(Endpoint(r))] = k]
    /\ Goto(r, "register") \/ Goto(r, "failed")
    /\ UNCHANGED <<account, conf>>

WriteFails(r) ==
    /\ pc[r] = "write"
    /\ Goto(r, "failed")
    /\ UNCHANGED <<file, account, drawn, conf, key>>

\* The CA creates an account for the key, or answers that there is one; the
\* answer may be lost.
Register(r) ==
    /\ pc[r] = "register"
    /\ account' = [account EXCEPT ![Endpoint(r)] = @ \cup {key[r]}]
    /\ Goto(r, "ready") \/ Goto(r, "failed")
    /\ UNCHANGED <<file, drawn, conf, key>>

RegisterFails(r) ==
    /\ pc[r] = "register"
    /\ Goto(r, "failed")
    /\ UNCHANGED <<file, account, drawn, conf, key>>

\* The run has renewed its domains, or died at any moment.
Finish(r) ==
    /\ pc[r] \notin Ended
    /\ Goto(r, "idle")
    /\ UNCHANGED <<file, account, drawn, conf, key>>

Next == \E r \in Runs :
    \/ Begin(r) \/ ReadKey(r) \/ ReadFails(r)
    \/ WriteKey(r) \/ WriteFails(r) \/ Register(r) \/ RegisterFails(r)
    \/ Finish(r)

Spec == Init /\ [][Next]_vars

-------------------------------------------------------------------------------
(* Properties *)

\* No account is lost: every key a CA knows can be read back by the next run
\* (acmeclient.go 188-199: the key is saved before it is used).
AccountKeyOnFile ==
    \A e \in Endpoints : \A k \in account[e] : file[KeyPath(e)] = k

\* Whatever stands in a key file stays there, a file that does not parse
\* included: only "file is not found" leads to a new key (acmeclient.go 183-186).
FileNeverReplaced ==
    [][\A p \in Paths : file[p] # Missing => file'[p] = file[p]]_vars

\* A staging run leaves production alone: the CA's accounts, and the key file too
\* unless staging has the same host (acmeclient.go 111-132).
StagingApart ==
    [][\A r \in Runs :
        LET production == conf[r].directory IN
        (/\ pc[r] \notin Ended /\ conf[r].staging
         /\ production \in Endpoints /\ production # conf[r].stagingURL)
            => /\ account'[production] = account[production]
               /\ KeyPath(production) # KeyPath(Endpoint(r))
                    => file'[KeyPath(production)] = file[KeyPath(production)]]_vars
=====
