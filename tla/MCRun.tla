-------------------------------- MODULE MCRun ---------------------------------
(***************************************************************************)
(* Instances of Run for TLC.  Two domains: d1 has a plain alias, d2 an     *)
(* alias spelt in Unicode, and either may carry one no profile converts.   *)
(***************************************************************************)
EXTENDS Run

CONSTANTS d1, d2, plain, unicode, punycode, artifact, late, none

Names == {d1, d2, plain, unicode, punycode, artifact, late}

Spelling == [n \in Names |-> IF n = unicode THEN punycode
                             ELSE IF n = artifact THEN none ELSE n]

\* Two domains in one run, or one domain that domains.include names twice.
Domains == {d1, d2}
Alone   == {d2}
PairOrTwice == {<<d1, d2>>, <<d2, d2>>}
Twice   == {<<d2>>, <<d2, d2>>}

Aliases == {[d \in Domain |-> IF d = d1 THEN {plain} ELSE {unicode, artifact}]}

Certified(names, left) ==
    [certType |-> "YES", cert |-> [names |-> names, lifetime |-> 9, left |-> left]]
Covered == {d1, d2, plain, punycode}

\* Never certified; current; due; lacking its alias; unreadable; disabled.
Never == [certType |-> "unset", cert |-> NoCert]
Lacking == Certified({d1, d2}, 9)
Disabled == [certType |-> "NO", cert |-> NoCert]
AnyCase == {Never, Certified(Covered, 3), Certified(Covered, 2), Lacking,
            [certType |-> "YES", cert |-> Garbled], Disabled}
Found == {s \in [Domain -> AnyCase] :
            d1 \in Domain => s[d1] = Lacking \/ (s[d1] = Disabled /\ s[d2] = Lacking)}

\* Nothing excluded, the artifact, either spelling of the alias, a domain.
Exclusions == {{}, {artifact}, {unicode, artifact}, {punycode, artifact}, {d1, artifact}}

\* All names answer; no alias does; d2 does not answer for itself.
Answering == {Names, {d1, d2}, {d1, plain, punycode}}

NoneLate == [d \in Domain |-> {}]
OneLate  == [d \in Domain |-> IF d = d2 THEN {late} ELSE {}]

ASSUME InstancesDistinct == AliasesDistinct
===============================================================================
