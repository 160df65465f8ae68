------------------------------ MODULE MCInstall -------------------------------
(***************************************************************************)
(* Instances of Install for TLC.  The administrator installs a full set, a *)
(* certificate without a chain, or something that does not decode.         *)
(***************************************************************************)
EXTENDS Install

CONSTANTS hand

Edits == {[f \in Field |-> hand],
          [f \in Field |-> IF f = "CAChain" THEN Absent ELSE hand],
          [f \in Field |-> IF f = "SecureCertificate" THEN Garbled ELSE hand]}
===============================================================================
