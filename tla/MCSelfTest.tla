------------------------------ MODULE MCSelfTest ------------------------------
(***************************************************************************)
(* Instances of SelfTest for TLC: two domains, one with a plain alias and  *)
(* one with an alias in Unicode and, maybe, one no profile converts.       *)
(***************************************************************************)
EXTENDS SelfTest

CONSTANTS d1, d2, plain, unicode, punycode, artifact, none

Names == {d1, d2, plain, unicode, punycode, artifact}

Spelling == [n \in Names |-> IF n = unicode THEN punycode
                             ELSE IF n = artifact THEN none ELSE n]

Domains == {d1, d2}
Pair    == {<<d1, d2>>, <<d2, d2>>}

Aliases == {[d \in Domain |-> IF d = d1 THEN {plain} ELSE {unicode} \cup more] :
              more \in {{}, {artifact}}}

Certified(names, left) ==
    [certType |-> "YES", cert |-> [names |-> names, lifetime |-> 9, left |-> left]]

\* Never certified; current; due; lacking its alias; unreadable; disabled.
Found == {[certType |-> "unset", cert |-> NoCert],
          Certified({d1, d2, plain, punycode}, 3), Certified({d1, d2, plain, punycode}, 2),
          Certified({d1, d2}, 9),
          [certType |-> "YES", cert |-> Garbled],
          [certType |-> "NO", cert |-> NoCert]}

Exclusions == {{}, {artifact}, {unicode, artifact}, {punycode}, {d1}}
Answering  == {Names, {d1, d2}, {d1, plain, punycode}}
===============================================================================
