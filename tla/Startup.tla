-------------------------------- MODULE Startup --------------------------------
(***************************************************************************)
(* From the command line to the address that is dialled: the connection    *)
(* string, the configuration file or the fileless defaults, what overrides *)
(* what, and the prompts for what is still missing (main.go, config.go,    *)
(* interactive.go).  Text is a sequence of tokens, of which only the       *)
(* separators "@" ":" "[" "]" and the numerals mean anything here.         *)
(***************************************************************************)
EXTENDS Integers, FiniteSets, SequencesExt

CONSTANTS
    Given,          \* what the run may be started with, see Input
    Replies,        \* what the operator may type at a prompt
    Number,         \* the tokens that are numerals, with their values
    LoopbackHosts,  \* hosts that stay inside the machine
    Invalid,        \* a port that is none
    Nothing         \* no argument, no such file, no flag

(***************************************************************************)
(* A file with `parses = FALSE` is unreadable, no TOML or has unknown      *)
(* keys.  The fraction is in percent.  An argument is its text and what    *)
(* the operator meant by it, Nothing if it makes no sense; `extra` says    *)
(* that something follows it, a flag for instance.                         *)
(***************************************************************************)
Input == {"arg", "extra", "config", "beside", "etc", "tls", "terminal"}

\* A token is a string: a separator, or any other.
Separators == {"@", ":", "[", "]"}
Token == Separators \cup STRING

ASSUME StartupAssumption ==
    /\ \A g \in Given : DOMAIN g = Input
    /\ \A t \in DOMAIN Number : Number[t] \in Int
    /\ DOMAIN Number \subseteq Token \ Separators
    /\ Invalid \notin Int

VARIABLES
    given,      \* the command line, the files and whether stdin is a terminal
    pc,
    conn,       \* connCGP
    cfg, fileless,
    reply,      \* per prompt that was answered, the answer
    warned,     \* the cleartext warning was printed
    port        \* the port dialled

vars == <<given, pc, conn, cfg, fileless, reply, warned, port>>

-------------------------------------------------------------------------------
(* Ports and transports *)

MaxPort == 256 * 256 - 1
Modes == {"", "none", "tls", "starttls"}
DefaultPort(mode) == IF mode = "tls" THEN 1106 ELSE 106
PortFor(c) == IF c.port # 0 THEN c.port ELSE DefaultPort(c.tls)

ParsePort(s) ==
    IF Len(s) = 1 /\ s[1] \in DOMAIN Number /\ Number[s[1]] \in 1..MaxPort
    THEN Number[s[1]] ELSE Invalid

-------------------------------------------------------------------------------
(* The connection string *)

Before(s, i) == SubSeq(s, 1, i - 1)
After(s, i) == SubSeq(s, i + 1, Len(s))
IndexOf(s, t) == SelectInSeq(s, LAMBDA x : x = t)
LastIndexOf(s, t) == SelectLastInSeq(s, LAMBDA x : x = t)

HostPort(h, p) == [host |-> h, port |-> p]
\* What follows the "]" of a bracketed literal.
BracketedPort(rest) ==
    IF rest = <<>> THEN 0
    ELSE IF rest[1] = ":" THEN ParsePort(Tail(rest)) ELSE Invalid
\* A bracketed IPv6 literal; a bare one, which has no port; a name or IPv4 address.
SplitHostPort(s) ==
    LET end == IndexOf(s, "]")
        colon == IndexOf(s, ":")
    IN  IF s # <<>> /\ s[1] = "["
        THEN HostPort(SubSeq(s, 2, end - 1), IF end = 0 THEN Invalid ELSE BracketedPort(After(s, end)))
        ELSE IF colon # 0 /\ colon = LastIndexOf(s, ":")
             THEN HostPort(Before(s, colon), ParsePort(After(s, colon)))
             ELSE HostPort(s, 0)

\* Mutation of UserInfoEnd: the host is taken after the first "@".
FirstAt(s) == IndexOf(s, "@")
UserInfoEnd(s) == LastIndexOf(s, "@")

ParseConnString(s) ==
    LET at == UserInfoEnd(s)
        user == Before(s, at)
        colon == IndexOf(user, ":")
        hp == SplitHostPort(After(s, at))
    IN  [login    |-> IF colon = 0 THEN user ELSE Before(user, colon),
         password |-> IF colon = 0 THEN <<>> ELSE After(user, colon),
         host     |-> hp.host,
         port     |-> IF hp.host = <<>> THEN Invalid ELSE hp.port]

-------------------------------------------------------------------------------
(* The configuration *)

\* Mutation of Valid: a file may turn the renewal off.
AllowsNoWindow(f) ==
    /\ f.parses /\ f.login # <<>> /\ f.password # <<>> /\ f.directory
    /\ f.tls \in Modes /\ f.port \in 0..MaxPort
    /\ f.fraction \in 0..99 /\ f.before >= 0

\* What LoadConfig accepts.
Valid(f) ==
    /\ f.parses /\ f.login # <<>> /\ f.password # <<>> /\ f.directory
    /\ f.tls \in Modes /\ f.port \in 0..MaxPort
    /\ f.fraction \in 0..99 /\ f.before >= 0
    /\ f.fraction + f.before > 0

Localhost == <<"localhost">>
StandaloneConfig ==
    [host |-> Localhost, port |-> 0, login |-> <<>>, password |-> <<>>, tls |-> "",
     fraction |-> 33, before |-> 0]

\* An explicit -config, else the file next to the executable, else the one in /etc.
Source == IF given.config # Nothing THEN given.config
          ELSE IF given.beside # Nothing THEN given.beside ELSE given.etc

\* What main needs to rely on once it dials: Decision assumes the window.
Usable(c) ==
    /\ c.login # <<>> /\ c.password # <<>> /\ c.tls \in Modes /\ PortFor(c) \in 1..MaxPort
    /\ c.fraction \in 0..99 /\ c.before >= 0 /\ c.fraction + c.before > 0

Prompts == {"host", "port", "login", "password"}

TypeOK ==
    /\ pc \in Prompts \cup {"parse", "load", "override", "collect", "qualify", "resolve",
                            "dialling", "failed"}
    /\ fileless \in BOOLEAN /\ warned \in BOOLEAN
    /\ reply \in [Prompts -> Replies \cup {Nothing}]
    /\ pc = "dialling" => Usable(cfg) /\ port \in 1..MaxPort

Init ==
    /\ given \in Given
    /\ pc = "parse"
    /\ conn = Nothing /\ cfg = StandaloneConfig /\ fileless = FALSE
    /\ reply = [f \in Prompts |-> Nothing]
    /\ warned = FALSE /\ port = 0

-------------------------------------------------------------------------------
(* The steps of run, in their order. *)

ParseArgument ==
    /\ pc = "parse"
    /\ LET parsed == ParseConnString(given.arg.text) IN
       IF given.arg = Nothing THEN pc' = "load" /\ UNCHANGED conn
       ELSE IF given.extra \/ parsed.port = Invalid THEN pc' = "failed" /\ UNCHANGED conn
       ELSE pc' = "load" /\ conn' = parsed
    /\ UNCHANGED <<given, cfg, fileless, reply, warned, port>>

\* A file that is named or found must load; only without any the run is fileless.
Load ==
    /\ pc = "load"
    /\ \/ /\ Source = Nothing
          /\ fileless' = TRUE /\ pc' = "override" /\ UNCHANGED cfg
       \/ /\ Source # Nothing /\ Valid(Source)
          /\ cfg' = [f \in DOMAIN StandaloneConfig |-> Source[f]]
          /\ pc' = "override" /\ UNCHANGED fileless
       \/ /\ Source # Nothing /\ ~Valid(Source)
          /\ pc' = "failed" /\ UNCHANGED <<cfg, fileless>>
    /\ UNCHANGED <<given, conn, reply, warned, port>>

\* The connection string replaces host and port, and what it says of the login.
WithConn(c) ==
    [c EXCEPT !.host = conn.host, !.port = conn.port,
              !.login = IF conn.login # <<>> THEN conn.login ELSE @,
              !.password = IF conn.password # <<>> THEN conn.password ELSE @]

Override ==
    /\ pc = "override"
    /\ LET c == IF conn # Nothing THEN WithConn(cfg) ELSE cfg IN
       cfg' = IF given.tls # Nothing THEN [c EXCEPT !.tls = given.tls] ELSE c
    /\ pc' = IF conn # Nothing \/ fileless THEN "collect" ELSE "resolve"
    /\ UNCHANGED <<given, conn, fileless, reply, warned, port>>

-------------------------------------------------------------------------------
(* collectCGP *)

Full == conn = Nothing
Asks(f) == Full \/ (f # "port" /\ cfg[f] = <<>>)

\* Mutation of Collect: only a missing field is looked for, not a full prompt.
ForgetsFull ==
    /\ pc = "collect"
    /\ pc' = IF ~given.terminal /\ cfg.host = <<>> THEN "failed" ELSE "host"
    /\ UNCHANGED <<given, conn, cfg, fileless, reply, warned, port>>

Collect ==
    /\ pc = "collect"
    /\ pc' = IF ~given.terminal /\ \E f \in Prompts : Asks(f) THEN "failed" ELSE "host"
    /\ UNCHANGED <<given, conn, cfg, fileless, reply, warned, port>>

\* A field is asked for or left as it is; the prompt may meet the end of input.
Prompt(f, next, value) ==
    /\ pc = f
    /\ \/ ~Asks(f) /\ pc' = next /\ UNCHANGED <<cfg, reply>>
       \/ Asks(f) /\ pc' = "failed" /\ UNCHANGED <<cfg, reply>>
       \/ /\ Asks(f)
          /\ \E r \in Replies :
              /\ value[r] # Invalid
              /\ cfg' = [cfg EXCEPT ![f] = value[r]]
              /\ reply' = [reply EXCEPT ![f] = r]
          /\ pc' = next
    /\ UNCHANGED <<given, conn, fileless, warned, port>>

Or(r, default) == IF r = <<>> THEN default ELSE r

PromptHost == Prompt("host", "port", [r \in Replies |-> Or(r, Or(cfg.host, Localhost))])

\* Mutation of OfferedPort: the plain port is offered whatever the transport.
OffersPlain(c) == DefaultPort("none")
\* The port offered as the default.
OfferedPort(c) == PortFor(c)

\* An unknown transport fails here: it has no port to offer.
PromptPort ==
    /\ Asks("port") => cfg.tls \in Modes
    /\ Prompt("port", "login", [r \in Replies |-> IF r = <<>> THEN OfferedPort(cfg) ELSE ParsePort(r)])
PortFails ==
    /\ pc = "port" /\ Asks("port") /\ cfg.tls \notin Modes
    /\ pc' = "failed"
    /\ UNCHANGED <<given, conn, cfg, fileless, reply, warned, port>>

PromptLogin == Prompt("login", "password", [r \in Replies |-> Or(r, Or(cfg.login, <<"postmaster">>))])
PromptSecret == Prompt("password", "qualify", [r \in Replies |-> r])

QualifyLogin(login, host) ==
    IF login = <<>> \/ Contains(login, "@") THEN login ELSE login \o <<"@">> \o host

Qualify ==
    /\ pc = "qualify"
    /\ LET login == QualifyLogin(cfg.login, cfg.host) IN
       /\ cfg' = [cfg EXCEPT !.login = login]
       /\ pc' = IF login = <<>> \/ cfg.password = <<>> THEN "failed" ELSE "resolve"
    /\ UNCHANGED <<given, conn, fileless, reply, warned, port>>

-------------------------------------------------------------------------------
\* Mutation of Exposed: the host of the file is looked at, not the string's.
ExposedByFile(c) ==
    c.tls \in {"", "none"} /\ (IF fileless THEN c.host ELSE Source.host) \notin LoopbackHosts
\* The session is neither encrypted nor local.
Exposed(c) == c.tls \in {"", "none"} /\ c.host \notin LoopbackHosts

\* The transport is resolved after every override, then the server is dialled.
Resolve ==
    /\ pc = "resolve"
    /\ \/ cfg.tls \notin Modes /\ pc' = "failed" /\ UNCHANGED <<warned, port>>
       \/ /\ cfg.tls \in Modes /\ pc' = "dialling"
          /\ warned' = Exposed(cfg)
          /\ port' = PortFor(cfg)
    /\ UNCHANGED <<given, conn, cfg, fileless, reply>>

Started == pc \in {"dialling", "failed"} /\ UNCHANGED vars

Next ==
    \/ ParseArgument \/ Load \/ Override
    \/ Collect \/ PromptHost \/ PromptPort \/ PortFails \/ PromptLogin \/ PromptSecret
    \/ Qualify \/ Resolve
    \/ Started

Spec == Init /\ [][Next]_vars

-------------------------------------------------------------------------------
(***************************************************************************)
(* What a connection string means to whoever writes it, after README.md    *)
(* 44-62: "[login[:password]@]host[:port]".  An IPv6 literal is bracketed  *)
(* wherever a port follows it; a password may contain anything.            *)
(***************************************************************************)
Text == Seq(Token)
Meaning == [login : Text, password : Text, host : Text, port : 0..MaxPort]

SpellsUser(u, m) ==
    /\ ~Contains(m.login, ":")
    /\ \/ u = <<>> /\ m.login = <<>> /\ m.password = <<>>
       \/ u = m.login \o <<"@">> /\ m.password = <<>>
       \/ u = m.login \o <<":">> \o m.password \o <<"@">>

PortSpellings(n) ==
    IF n = 0 THEN {<<>>} ELSE {<<":", t>> : t \in {t \in DOMAIN Number : Number[t] = n}}

SpellsHost(s, m) ==
    /\ m.host # <<>> /\ ~Contains(s, "@")
    /\ \E p \in PortSpellings(m.port) :
        \/ s = <<"[">> \o m.host \o <<"]">> \o p /\ ~Contains(m.host, "]")
        \/ s = m.host \o p /\ ~Contains(m.host, ":") /\ m.host[1] # "["
        \/ /\ s = m.host /\ p = <<>> /\ m.host[1] # "["
           /\ \E i, j \in 1..Len(s) : i # j /\ s[i] = ":" /\ s[j] = ":"

Spells(text, m) ==
    \E i \in 0..Len(text) :
        SpellsUser(SubSeq(text, 1, i), m) /\ SpellsHost(SubSeq(text, i + 1, Len(text)), m)

\* The operator means what the string spells, and by one that spells nothing
\* nothing at all.
Documented ==
    \A g \in Given : g.arg # Nothing =>
        /\ g.arg.text \in Text
        /\ IF g.arg.meant # Nothing
           THEN g.arg.meant \in Meaning /\ Spells(g.arg.text, g.arg.meant)
           ELSE \A m \in Meaning : ~Spells(g.arg.text, m)

-------------------------------------------------------------------------------
(* Properties *)

\* The transport asked for: by --tls, by the file, or none.
Transport == IF given.tls # Nothing THEN given.tls
             ELSE IF fileless THEN "" ELSE Source.tls

\* What a connection string says nothing of is the file's, or what was typed.
LeftOut(f) == IF fileless THEN reply[f] ELSE Source[f]

\* What the operator means by a connection string is what is dialled, whatever
\* a file says and in every spelling the documentation names: "@" and ":" in a
\* password, a login with its domain, IPv6 literals (interactive.go 81-150).  What
\* it leaves out comes from one place: credentials from the file, or from the
\* prompts where there is none, the transport from --tls before the file, and the
\* port from neither (main.go 169-189).  Nothing may follow the string, so that a
\* flag that does is not ignored (main.go 137-139).
DialledAsMeant ==
    (pc = "dialling" /\ conn # Nothing) =>
        LET m == given.arg.meant
            login == IF m.login # <<>> THEN m.login ELSE Or(LeftOut("login"), <<"postmaster">>)
        IN  /\ m # Nothing /\ ~given.extra
            /\ cfg.host = m.host
            /\ port = IF m.port # 0 THEN m.port ELSE DefaultPort(Transport)
            /\ cfg.login = QualifyLogin(login, m.host)
            /\ cfg.password = IF m.password # <<>> THEN m.password ELSE LeftOut("password")
            /\ cfg.tls = Transport

\* A port that nobody named is the one of the transport the session will have,
\* in a file, a connection string or a prompt (main.go 179-183).
PortNamed ==
    IF conn # Nothing THEN conn.port # 0
    ELSE IF fileless THEN reply["port"] # <<>>
    ELSE Source.port # 0
PortFitsTransport ==
    (pc = "dialling" /\ ~PortNamed) => port = DefaultPort(Transport)

\* No session in the clear leaves the machine without a warning, wherever host
\* and transport came from (main.go 237-245).
CleartextIsWarned ==
    (pc = "dialling" /\ Transport \in {"", "none"} /\ cfg.host \notin LoopbackHosts) => warned

\* A run without a terminal never waits for an answer (interactive.go 159-163):
\* the timer's run dials or fails.
UnattendedNeverAsks ==
    pc \in Prompts /\ Asks(pc) => given.terminal

\* interactive.go 218-219: a configuration file's login is used verbatim.  Fails:
\* collectCGP qualifies whatever login it finds, also one the string did not give.
FileLoginVerbatim ==
    (pc = "dialling" /\ ~fileless /\ (conn # Nothing => conn.login = <<>>))
        => cfg.login = Source.login

===============================================================================
