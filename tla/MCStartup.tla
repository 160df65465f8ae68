------------------------------- MODULE MCStartup -------------------------------
(***************************************************************************)
(* Instances of Startup for TLC: connection strings written the way the    *)
(* documentation says and ones that make no sense, files good and bad in   *)
(* each of the three places, every transport, with and without a terminal. *)
(***************************************************************************)
EXTENDS Startup

CONSTANTS mail, pw, admin, corp, hex, junk, file, fileSecret

Numerals == [t \in {"0", "106", "2106", "70000"} |->
    CASE t = "0" -> 0 [] t = "106" -> 106 [] t = "2106" -> 2106 [] t = "70000" -> 70000]
Numeral == [n \in {106, 2106} |-> IF n = 106 THEN "106" ELSE "2106"]

V6 == <<hex, ":", ":", "1">>
Local6 == <<":", ":", "1">>
Loopbacks == {Localhost, Local6}

Meanings == {[login |-> l, password |-> p, host |-> h, port |-> n] :
    l \in {<<>>, <<admin>>, <<admin, "@", corp>>},
    p \in {<<>>, <<pw>>, <<pw, ":", pw>>, <<pw, "@", pw>>},
    h \in {<<mail>>, Localhost, V6, Local6}, n \in {0, 106, 2106}}

\* How a meaning is written; an IPv6 literal is bracketed, and must be with a port.
Written(m, bracketed) ==
    LET user == IF m.login = <<>> THEN <<>>
                ELSE m.login \o (IF m.password = <<>> THEN <<>> ELSE <<":">> \o m.password)
                             \o <<"@">>
        host == IF bracketed THEN <<"[">> \o m.host \o <<"]">> ELSE m.host
    IN  user \o host \o (IF m.port = 0 THEN <<>> ELSE <<":", Numeral[m.port]>>)

Sensible == {[meant |-> m, text |-> Written(m, b)] :
    m \in {m \in Meanings : m.login = <<>> => m.password = <<>>}, b \in BOOLEAN}
Arguments ==
    {a \in Sensible :
        LET v6 == a.meant.host \in {V6, Local6}
            bracketed == Contains(a.text, "[")
        IN  (bracketed => v6) /\ (v6 /\ a.meant.port # 0 => bracketed)}
    \cup {[meant |-> Nothing, text |-> t] : t \in {
        <<>>, <<admin, ":", pw, "@">>, <<":", "106">>, <<mail, ":", "0">>, <<mail, ":", "70000">>,
        <<mail, ":", junk>>, <<"[", hex, ":">>, <<"[", hex, "]", junk>>, <<"[", "]">>,
        <<"[", hex, "]", ":", "0">>}}

\* The arguments are Documented; what is no meaning of a text is looked for among
\* the pieces of the text.
Pieces(text) == {SubSeq(text, i, j) : i, j \in 1..Len(text)} \cup {<<>>}
Readings(text) == [login : Pieces(text), password : Pieces(text), host : Pieces(text),
                   port : {0} \cup {Numerals[t] : t \in DOMAIN Numerals}]
ASSUME ArgumentsDocumented ==
    \A a \in Arguments :
        /\ a.text \in Text
        /\ IF a.meant # Nothing THEN a.meant \in Meaning /\ Spells(a.text, a.meant)
           ELSE \A m \in Readings(a.text) \cap Meaning : ~Spells(a.text, m)

Good == [parses |-> TRUE, directory |-> TRUE, host |-> <<mail>>, port |-> 2106, login |-> <<file>>,
         password |-> <<fileSecret>>, tls |-> "starttls", fraction |-> 33, before |-> 0]
NoPort == [Good EXCEPT !.port = 0, !.tls = "tls", !.host = Localhost]
Plain == [NoPort EXCEPT !.tls = "", !.fraction = 0, !.before = 1]
Bad == {[Good EXCEPT !.parses = FALSE], [Good EXCEPT !.login = <<>>], [Good EXCEPT !.password = <<>>],
        [Good EXCEPT !.tls = junk], [Good EXCEPT !.port = 70000], [Good EXCEPT !.directory = FALSE],
        [Good EXCEPT !.fraction = 100], [Good EXCEPT !.before = -1], [Good EXCEPT !.fraction = 0]}

Places(c, b, e) == [config |-> c, beside |-> b, etc |-> e]
Found == {Places(Nothing, Nothing, Nothing), Places(Nothing, Good, Plain),
          Places(Nothing, Nothing, Good), Places(NoPort, Good, Nothing), Places(Plain, Nothing, Good)}
    \cup {Places(f, Nothing, Good) : f \in Bad} \cup {Places(Nothing, f, Good) : f \in Bad}

Start(arg, extra, found, tls, terminal) ==
    [arg |-> arg, extra |-> extra, config |-> found.config, beside |-> found.beside, etc |-> found.etc,
     tls |-> tls, terminal |-> terminal]
\* Every argument with some files, and every place and file with some arguments.
SomeArguments == {Nothing, [meant |-> Nothing, text |-> <<>>],
    CHOOSE a \in Arguments : a.text = <<mail>>, CHOOSE a \in Arguments : a.text = <<admin, "@", mail>>}
SomeFound == {Places(Nothing, Nothing, Nothing), Places(Nothing, Nothing, Good)}
Starts == {Start(x[1], FALSE, x[2], t, b) :
    x \in (Arguments \X SomeFound) \cup (SomeArguments \X Found),
    t \in Modes \cup {Nothing, junk}, b \in BOOLEAN}
  \cup {Start(a, TRUE, f, Nothing, TRUE) : a \in SomeArguments \ {Nothing}, f \in SomeFound}

Typed == {<<>>, <<mail>>, <<admin>>, <<pw>>, <<"2106">>, <<"0">>}
===============================================================================
