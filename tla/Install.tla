-------------------------------- MODULE Install --------------------------------
(***************************************************************************)
(* The end of renewDomain: the material in place is read and archived, one *)
(* file per field, and the new material installed in one command.  Runs    *)
(* may overlap, a command may fail or its answer be lost, and the server's *)
(* administrator may install material by hand in between.                  *)
(*                                                                         *)
(* PKI Services, which the installation also switches on, are in Run.  The *)
(* rendering of a field (archiveFile, PEM or raw DER) keeps its content.   *)
(***************************************************************************)
EXTENDS Naturals, Sequences

CONSTANTS
    Runs,       \* processes of the tool working on this domain
    Material,   \* a key and its certificates, of which the administrator has some
    ByHand,     \* settings the administrator may install
    Absent,     \* a field that is not set, or empty
    Garbled,    \* a field settingBytes cannot decode
    LastSecond  \* bound of the clock

Fields == <<"PrivateSecureKey", "SecureCertificate", "CAChain">>
Field  == {Fields[i] : i \in 1..Len(Fields)}

ASSUME InstallAssumption ==
    /\ Absent \notin Material /\ Garbled \notin Material /\ Absent # Garbled
    /\ ByHand \subseteq [Field -> Material \cup {Absent, Garbled}]
    /\ LastSecond \in Nat

VARIABLES
    (* the CGP server *)
    settings,   \* the three fields of the domain
    archive,    \* per second, the files of that stamp
    clock,
    (* each run *)
    pc, new, snapshot, stamp,
    field,      \* index of the field to archive next
    (* history *)
    used,       \* material somebody has obtained
    installed   \* the run has come to its installation

server == <<settings, archive>>
local  == <<new, snapshot, stamp>>
vars   == <<server, clock, pc, local, field, used, installed>>

Nothing == [f \in Field |-> Absent]
Stored  == [Field -> Material \cup {Absent, Garbled}]

TypeOK ==
    /\ settings \in Stored
    /\ archive \in [0..LastSecond -> [Field -> Material \cup {Absent}]]
    /\ clock \in 0..LastSecond
    /\ pc \in [Runs -> {"idle", "issued", "archive"}]
    /\ new \in [Runs -> Material \cup {Absent}]
    /\ snapshot \in [Runs -> Stored]
    /\ stamp \in [Runs -> 0..LastSecond]
    /\ field \in [Runs -> 1..4]
    /\ used \in SUBSET Material
    /\ installed \in [Runs -> BOOLEAN]

Init ==
    /\ settings \in {Nothing} \cup ByHand
    /\ archive = [s \in 0..LastSecond |-> Nothing]
    /\ clock = 0
    /\ pc = [r \in Runs |-> "idle"]
    /\ new = [r \in Runs |-> Absent]
    /\ snapshot = [r \in Runs |-> Nothing]
    /\ stamp = [r \in Runs |-> 0]
    /\ field = [r \in Runs |-> 1]
    /\ used = {s[f] : s \in ByHand, f \in Field} \cap Material
    /\ installed = [r \in Runs |-> FALSE]

-------------------------------------------------------------------------------
Goto(r, p) == pc' = [pc EXCEPT ![r] = p]

\* issueCertificate returned.  The stamps have a resolution of one second, and
\* an issuance is taken to last longer than that.
Issue(r) ==
    /\ pc[r] = "idle" /\ clock < LastSecond
    /\ clock' = clock + 1
    /\ \E m \in Material \ used :
        /\ used' = used \cup {m}
        /\ new' = [new EXCEPT ![r] = m]
    /\ installed' = [installed EXCEPT ![r] = FALSE]
    /\ Goto(r, "issued")
    /\ UNCHANGED <<server, snapshot, stamp, field>>

ReadSettings(r) ==
    /\ pc[r] = "issued"
    /\ snapshot' = [snapshot EXCEPT ![r] = settings]
    /\ stamp' = [stamp EXCEPT ![r] = clock]
    /\ field' = [field EXCEPT ![r] = 1]
    /\ Goto(r, "archive")
    /\ UNCHANGED <<server, clock, new, used, installed>>

Archiving(r) == pc[r] = "archive" /\ field[r] <= Len(Fields)
InHand(r) == snapshot[r][Fields[field[r]]]

SkipField(r) ==
    /\ Archiving(r)
    /\ InHand(r) = Absent
    /\ field' = [field EXCEPT ![r] = @ + 1]
    /\ UNCHANGED <<server, clock, pc, local, used, installed>>

\* Mutation of ArchiveField: each field is read from the server when its turn comes.
ReadsEachField(r) ==
    /\ Archiving(r)
    /\ settings[Fields[field[r]]] \in Material
    /\ archive' = [archive EXCEPT ![stamp[r]][Fields[field[r]]] = settings[Fields[field[r]]]]
    /\ field' = [field EXCEPT ![r] = @ + 1]
    /\ UNCHANGED <<settings, clock, pc, local, used, installed>>

\* Mutation of ArchiveField: what does not decode is archived as it is.
ArchivesUndecoded(r) ==
    /\ Archiving(r)
    /\ InHand(r) # Absent
    /\ archive' = [archive EXCEPT ![stamp[r]][Fields[field[r]]] = InHand(r)]
    /\ field' = [field EXCEPT ![r] = @ + 1]
    /\ UNCHANGED <<settings, clock, pc, local, used, installed>>

\* One file is written; its answer may be lost.
ArchiveField(r) ==
    /\ Archiving(r)
    /\ InHand(r) \in Material
    /\ archive' = [archive EXCEPT ![stamp[r]][Fields[field[r]]] = InHand(r)]
    /\ \/ field' = [field EXCEPT ![r] = @ + 1] /\ UNCHANGED pc
       \/ Goto(r, "idle") /\ UNCHANGED field
    /\ UNCHANGED <<settings, clock, local, used, installed>>

\* Mutation of ArchiveFails: the run goes on without the file.
GoesOnUnarchived(r) ==
    /\ Archiving(r)
    /\ field' = [field EXCEPT ![r] = @ + 1]
    /\ UNCHANGED <<server, clock, pc, local, used, installed>>

\* A field does not decode or its file cannot be written: nothing is installed.
ArchiveFails(r) ==
    /\ Archiving(r)
    /\ Goto(r, "idle")
    /\ UNCHANGED <<server, clock, local, field, used, installed>>

\* The CA may send the leaf without a chain.
InstallCertificate(r) ==
    /\ pc[r] = "archive" /\ field[r] > Len(Fields)
    /\ \E chain \in {new[r], Absent} :
        settings' = [f \in Field |-> IF f = "CAChain" THEN chain ELSE new[r]]
    /\ installed' = [installed EXCEPT ![r] = TRUE]
    /\ Goto(r, "idle")
    /\ UNCHANGED <<archive, clock, local, field, used>>

\* Reading or installing fails, or the process dies.
Fails(r) ==
    /\ pc[r] # "idle"
    /\ Goto(r, "idle")
    /\ UNCHANGED <<server, clock, local, field, used, installed>>

\* The administrator installs something else.
EditByHand ==
    /\ settings' \in ByHand
    /\ UNCHANGED <<archive, clock, pc, local, field, used, installed>>

Tick ==
    /\ clock < LastSecond
    /\ clock' = clock + 1
    /\ UNCHANGED <<server, pc, local, field, used, installed>>

RunStep(r) ==
    \/ Issue(r) \/ ReadSettings(r) \/ SkipField(r) \/ ArchiveField(r)
    \/ ArchiveFails(r) \/ InstallCertificate(r) \/ Fails(r)

Next == (\E r \in Runs : RunStep(r)) \/ EditByHand \/ Tick

Spec == Init /\ [][Next]_vars

-------------------------------------------------------------------------------
(* Properties *)

\* Whoever installed something has left, under its stamp, exactly the settings
\* it had read: all fields of one moment, none missing, none from another stamp
\* (install.go 30-64, main.go 393-398).
ArchivedAsRead ==
    \A r \in Runs : installed[r] => archive[stamp[r]] = snapshot[r]
===============================================================================
