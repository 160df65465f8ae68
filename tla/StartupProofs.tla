---------------------------- MODULE StartupProofs ----------------------------
(***************************************************************************)
(* What holds of a start whatever is on the command line, in the files and *)
(* typed at the prompts: an unattended run asks nothing, the port is the   *)
(* one of the transport, no session in the clear goes unannounced, a start *)
(* that dials is complete, and a connection string is dialled as meant.    *)
(***************************************************************************)
EXTENDS Startup, SequenceTheorems, NaturalsInduction, WellFoundedInduction, TLAPS

Fields == DOMAIN StandaloneConfig

\* The configuration and the answers are functions of the same fields throughout.
Shape ==
    /\ DOMAIN cfg = Fields /\ cfg = [f \in Fields |-> cfg[f]]
    /\ DOMAIN reply = Prompts /\ reply = [f \in Prompts |-> reply[f]]

LEMMA FieldsKnown ==
    Fields = {"host", "port", "login", "password", "tls", "fraction", "before"}
  BY DEF Fields, StandaloneConfig

-------------------------------------------------------------------------------
(* The inductive invariant *)

\* Nobody at the terminal: there is nothing to ask.
Unattended == (pc \in Prompts /\ ~given.terminal) => \A f \in Prompts : ~Asks(f)

\* What Load found is what Override overrides.
Loaded ==
    /\ pc \in {"parse", "load"} => cfg = StandaloneConfig /\ ~fileless
    /\ pc = "override" =>
        /\ cfg.tls = IF fileless THEN "" ELSE Source.tls
        /\ cfg.port = IF fileless THEN 0 ELSE Source.port

Collecting == Prompts \cup {"collect", "qualify"}
Overridden == Collecting \cup {"resolve", "dialling"}

TransportSettled == pc \in Overridden => cfg.tls = Transport

\* A port nobody named is absent, or the one that was offered for the transport.
PortSettled ==
    /\ pc \in Overridden /\ conn # Nothing => cfg.port = conn.port
    /\ pc \in {"collect", "host", "port"} /\ conn = Nothing => fileless /\ cfg.port = 0
    /\ /\ pc \in {"login", "password", "qualify", "resolve", "dialling"}
       /\ conn = Nothing /\ fileless /\ reply["port"] = <<>>
      => cfg.port = DefaultPort(Transport)
    /\ pc \in {"login", "password", "qualify"} /\ conn = Nothing => fileless
    /\ pc \in {"resolve", "dialling"} /\ conn = Nothing /\ ~fileless => cfg.port = Source.port

Dialled == pc = "dialling" => port = PortFor(cfg) /\ warned = Exposed(cfg)

Settled == Shape /\ Unattended /\ Loaded /\ TransportSettled /\ PortSettled /\ Dialled

LEMMA InitSettled == Init => Settled
  BY FieldsKnown
     DEF Init, Settled, Shape, Unattended, Loaded, TransportSettled, PortSettled, Dialled,
         Overridden, Collecting, Prompts, Fields, StandaloneConfig

-------------------------------------------------------------------------------
(* One lemma per part of the start. *)

LEMMA ConfigurationSettled ==
    ASSUME Settled, ParseArgument \/ Load \/ Override
    PROVE  Settled'
  <1> USE FieldsKnown DEF Settled, Shape, Prompts
  <1>1. CASE ParseArgument
    <2>1. pc = "parse" /\ pc' \in {"load", "failed"} /\ UNCHANGED <<cfg, reply, fileless>>
      BY <1>1 DEF ParseArgument
    <2> QED
      BY <2>1 DEF Unattended, Loaded, TransportSettled, PortSettled, Dialled, Overridden, Collecting
  <1>2. CASE Load
    <2>1. pc' \in {"override", "failed"} /\ UNCHANGED <<given, conn, reply>> /\ Source' = Source
      BY <1>2 DEF Load, Source
    <2>2. Shape'
      BY <1>2 DEF Load, Fields
    <2>3. Loaded'
      <3>1. pc = "load" /\ cfg = StandaloneConfig /\ ~fileless
        BY <1>2 DEF Load, Loaded
      <3>2. cfg.tls = "" /\ cfg.port = 0
        BY <3>1 DEF StandaloneConfig
      <3>3. CASE fileless' = TRUE /\ UNCHANGED cfg
        BY <2>1, <3>2, <3>3 DEF Loaded
      <3>4. CASE cfg' = [f \in Fields |-> Source[f]] /\ UNCHANGED fileless
        BY <2>1, <3>1, <3>4 DEF Loaded
      <3>5. CASE pc' = "failed"
        BY <3>5 DEF Loaded
      <3> QED
        BY <1>2, <3>3, <3>4, <3>5 DEF Load, Fields
    <2> QED
      BY <2>1, <2>2, <2>3 DEF Unattended, TransportSettled, PortSettled, Dialled, Overridden, Collecting
  <1>3. CASE Override
    <2>1. UNCHANGED <<given, conn, fileless, reply>> /\ Source' = Source /\ Transport' = Transport
      BY <1>3 DEF Override, Source, Transport
    <2>2. pc = "override" /\ pc' = IF conn # Nothing \/ fileless THEN "collect" ELSE "resolve"
      BY <1>3 DEF Override
    <2>3. Shape' /\ cfg'.tls = Transport /\ cfg'.port = IF conn # Nothing THEN conn.port ELSE cfg.port
      <3> DEFINE c == IF conn # Nothing THEN WithConn(cfg) ELSE cfg
      <3>1. /\ DOMAIN c = Fields /\ c = [f \in Fields |-> c[f]] /\ c.tls = cfg.tls
            /\ c.port = IF conn # Nothing THEN conn.port ELSE cfg.port
        BY DEF WithConn
      <3>2. cfg' = IF given.tls # Nothing THEN [c EXCEPT !.tls = given.tls] ELSE c
        BY <1>3 DEF Override
      <3>3. cfg.tls = IF fileless THEN "" ELSE Source.tls
        BY <2>2 DEF Loaded
      <3> HIDE DEF c
      <3>4. Shape'
        BY <2>1, <3>1, <3>2
      <3> QED
        BY <3>1, <3>2, <3>3, <3>4 DEF Transport
    <2>4. PortSettled'
      BY <2>1, <2>2, <2>3 DEF PortSettled, Loaded, Overridden, Collecting
    <2> QED
      BY <2>1, <2>2, <2>3, <2>4 DEF Unattended, Loaded, TransportSettled, Dialled
  <1> QED
    BY <1>1, <1>2, <1>3
-------------------------------------------------------------------------------
\* What a prompt does, be it skipped, failed or answered with a value v.
Prompted(f, next) ==
    /\ pc = f /\ pc' \in {next, "failed"}
    /\ UNCHANGED <<given, conn, fileless, warned, port>>
    /\ \/ UNCHANGED <<cfg, reply>> /\ (pc' = next => ~Asks(f))
       \/ /\ Asks(f)
          /\ \E r, v : cfg' = [cfg EXCEPT ![f] = v] /\ reply' = [reply EXCEPT ![f] = r]

LEMMA PromptsPrompt ==
    /\ PromptHost => Prompted("host", "port")
    /\ PromptPort => Prompted("port", "login")
    /\ PromptLogin => Prompted("login", "password")
    /\ PromptSecret => Prompted("password", "qualify")
  <1>1. PromptHost => Prompted("host", "port")
    BY DEF PromptHost, Prompt, Prompted
  <1>2. PromptPort => Prompted("port", "login")
    BY DEF PromptPort, Prompt, Prompted
  <1>3. PromptLogin => Prompted("login", "password")
    BY DEF PromptLogin, Prompt, Prompted
  <1>4. PromptSecret => Prompted("password", "qualify")
    BY DEF PromptSecret, Prompt, Prompted
  <1> QED
    BY <1>1, <1>2, <1>3, <1>4

LEMMA PromptedSettled ==
    ASSUME Settled, NEW f \in Prompts, NEW next \in Prompts \cup {"qualify"}, Prompted(f, next)
    PROVE  Shape' /\ Unattended' /\ Loaded' /\ TransportSettled' /\ Dialled'
  <1>1. pc = f /\ pc' \in Prompts \cup {"qualify", "failed"} /\ f # "tls"
        /\ UNCHANGED <<given, conn, fileless>> /\ Transport' = Transport
    BY DEF Prompted, Prompts, Transport, Source
  <1>2. Shape' /\ cfg'.tls = cfg.tls
    BY FieldsKnown DEF Settled, Shape, Prompted, Prompts
  <1>3. TransportSettled'
    BY <1>1, <1>2 DEF Settled, TransportSettled, Overridden, Collecting
  <1>4. Unattended'
    <2>1. CASE UNCHANGED cfg
      BY <1>1, <2>1 DEF Settled, Unattended, Asks, Full
    <2>2. CASE Asks(f)
      BY <1>1, <2>2 DEF Settled, Unattended
    <2> QED
      BY <2>1, <2>2 DEF Prompted
  <1> QED
    BY <1>1, <1>2, <1>3, <1>4 DEF Loaded, Dialled, Prompts

LEMMA PromptsSettled ==
    ASSUME Settled, PromptHost \/ PromptPort \/ PromptLogin \/ PromptSecret
    PROVE  Settled'
  <1> USE DEF Prompts
  <1>1. CASE PromptPort
    <2>1. Prompted("port", "login")
      BY <1>1, PromptsPrompt
    <2>2. PortSettled'
      <3>1. pc = "port" /\ pc' \in {"login", "failed"} /\ UNCHANGED <<given, conn, fileless>>
            /\ Transport' = Transport /\ cfg.tls = Transport
        BY <2>1 DEF Prompted, Transport, Source, Settled, TransportSettled, Overridden, Collecting
      <3>2. CASE conn # Nothing
        BY <2>1, <3>1, <3>2 DEF Prompted, Asks, Full, Settled, PortSettled, Overridden, Collecting
      <3>3. CASE conn = Nothing /\ pc' = "login"
        <4>1. fileless /\ cfg.port = 0
          BY <3>1, <3>3 DEF Settled, PortSettled
        <4>2. PICK r \in Replies :
                /\ cfg' = [cfg EXCEPT !["port"] = IF r = <<>> THEN OfferedPort(cfg) ELSE ParsePort(r)]
                /\ reply' = [reply EXCEPT !["port"] = r]
          BY <1>1, <3>1, <3>3 DEF PromptPort, Prompt, Asks, Full
        <4>3. reply'["port"] = r /\ cfg'.port = IF r = <<>> THEN DefaultPort(Transport) ELSE ParsePort(r)
          BY <3>1, <4>1, <4>2, FieldsKnown DEF Settled, Shape, OfferedPort, PortFor
        <4> QED
          BY <3>1, <3>3, <4>1, <4>3 DEF PortSettled
      <3>4. CASE pc' = "failed"
        BY <3>4 DEF PortSettled, Overridden, Collecting
      <3> QED
        BY <3>1, <3>2, <3>3, <3>4
    <2> QED
      BY <2>1, <2>2, PromptedSettled DEF Settled
  <1>2. ASSUME NEW f \in Prompts \ {"port"}, NEW next \in {"port", "password", "qualify"},
               Prompted(f, next), f = "host" <=> next = "port"
        PROVE  Settled'
    <2>1. /\ pc = f /\ pc' \in {next, "failed"} /\ UNCHANGED <<conn, fileless>>
          /\ Transport' = Transport /\ Source' = Source
      BY <1>2 DEF Prompted, Transport, Source
    <2>2. cfg'.port = cfg.port /\ reply'["port"] = reply["port"]
      BY <1>2, FieldsKnown DEF Settled, Shape, Prompted
    <2>3. PortSettled'
      BY <1>2, <2>1, <2>2 DEF Settled, PortSettled, Overridden, Collecting
    <2> QED
      BY <1>2, <2>3, PromptedSettled DEF Settled
  <1> QED
    BY <1>1, <1>2, PromptsPrompt

LEMMA EndSettled ==
    ASSUME Settled, Collect \/ PortFails \/ Qualify \/ Resolve \/ UNCHANGED vars
    PROVE  Settled'
  <1> USE DEF Prompts
  <1>1. CASE Collect
    <2>1. pc = "collect" /\ pc' \in {"host", "failed"} /\ UNCHANGED <<given, conn, fileless, cfg, reply>>
          /\ Transport' = Transport /\ Source' = Source
      BY <1>1 DEF Collect, Transport, Source
    <2>2. Unattended'
      BY <1>1, <2>1 DEF Collect, Unattended, Asks, Full
    <2> QED
      BY <2>1, <2>2
         DEF Settled, Shape, Loaded, TransportSettled, PortSettled, Dialled, Overridden, Collecting
  <1>2. CASE PortFails
    BY <1>2 DEF PortFails, Settled, Shape, Unattended, Loaded, TransportSettled, PortSettled, Dialled,
                Overridden, Collecting
  <1>3. CASE Qualify
    <2>1. pc = "qualify" /\ pc' \in {"resolve", "failed"} /\ UNCHANGED <<given, conn, fileless, reply>>
          /\ Transport' = Transport /\ Source' = Source
      BY <1>3 DEF Qualify, Transport, Source
    <2>2. Shape' /\ cfg'.port = cfg.port /\ cfg'.tls = cfg.tls
      BY <1>3, FieldsKnown DEF Qualify, Settled, Shape
    <2> QED
      BY <2>1, <2>2
         DEF Settled, Unattended, Loaded, TransportSettled, PortSettled, Dialled, Overridden, Collecting
  <1>4. CASE Resolve
    <2>1. pc = "resolve" /\ pc' \in {"dialling", "failed"}
          /\ UNCHANGED <<given, conn, fileless, reply, cfg>>
          /\ Transport' = Transport /\ Source' = Source
      BY <1>4 DEF Resolve, Transport, Source
    <2>2. Dialled'
      <3>1. PortFor(cfg)' = PortFor(cfg)
        BY <2>1 DEF PortFor, DefaultPort
      <3>2. Exposed(cfg)' = Exposed(cfg)
        BY <2>1 DEF Exposed
      <3>3. pc' = "dialling" => port' = PortFor(cfg) /\ warned' = Exposed(cfg)
        BY <1>4, Zenon DEF Resolve
      <3> QED
        BY <3>1, <3>2, <3>3, Zenon DEF Dialled
    <2> QED
      BY <2>1, <2>2
         DEF Settled, Shape, Unattended, Loaded, TransportSettled, PortSettled, Overridden, Collecting
  <1>5. CASE UNCHANGED vars
    <2>1. Transport' = Transport /\ Source' = Source
      BY <1>5 DEF vars, Transport, Source
    <2> QED
      BY <1>5, <2>1 DEF vars, Settled, Shape, Unattended, Asks, Full, Loaded, TransportSettled, PortSettled,
                 Dialled, Exposed, PortFor
  <1> QED
    BY <1>1, <1>2, <1>3, <1>4, <1>5

LEMMA StepSettled == Settled /\ [Next]_vars => Settled'
  BY ConfigurationSettled, PromptsSettled, EndSettled DEF Next, Started

LEMMA AlwaysSettled == Spec => []Settled
  BY InitSettled, StepSettled, PTL DEF Spec

-------------------------------------------------------------------------------
\* A run without a terminal never waits for an answer, whatever is missing.
THEOREM NobodyIsAsked == Spec => []UnattendedNeverAsks
  <1>1. Settled => UnattendedNeverAsks
    BY DEF Settled, Unattended, UnattendedNeverAsks
  <1> QED
    BY <1>1, AlwaysSettled, PTL

\* A port nobody named is that of the transport in force.
THEOREM PortsFit == Spec => []PortFitsTransport
  <1>1. Settled => PortFitsTransport
    <2> SUFFICES ASSUME Settled, pc = "dialling", ~PortNamed PROVE port = DefaultPort(Transport)
      BY DEF PortFitsTransport
    <2>1. cfg.tls = Transport /\ port = PortFor(cfg)
      BY DEF Settled, TransportSettled, Dialled, Overridden
    <2>2. cfg.port = 0 \/ cfg.port = DefaultPort(Transport)
      BY DEF PortNamed, Settled, PortSettled, Overridden, Collecting
    <2> QED
      BY <2>1, <2>2 DEF PortFor
  <1> QED
    BY <1>1, AlwaysSettled, PTL

\* No session in the clear leaves the machine without a warning.
THEOREM ClearIsAnnounced == Spec => []CleartextIsWarned
  <1>1. Settled => CleartextIsWarned
    BY DEF Settled, TransportSettled, Dialled, Overridden, Exposed, CleartextIsWarned
  <1> QED
    BY <1>1, AlwaysSettled, PTL

-------------------------------------------------------------------------------
(***************************************************************************)
(* What is dialled with is complete: whatever the strings, the files and   *)
(* the answers were, a start that gets there has a login, a password, a    *)
(* port, a transport and a renewal window.                                 *)
(***************************************************************************)
\* The ports of the transports are ports.
LEMMA PortsKnown ==
    MaxPort \in Nat /\ 0 \in 0..MaxPort /\ \A mode : DefaultPort(mode) \in 1..MaxPort
  BY DEF MaxPort, DefaultPort

\* A port is one, is still to be settled, or the string is refused.
LEMMA ParsedPortTyped ==
    ASSUME NEW s
    PROVE  ParseConnString(s).port \in 0..MaxPort \cup {Invalid}
  <1>1. \A t : ParsePort(t) \in 0..MaxPort \cup {Invalid}
    BY PortsKnown DEF ParsePort
  <1>2. \A t : BracketedPort(t) \in 0..MaxPort \cup {Invalid}
    BY <1>1, PortsKnown DEF BracketedPort
  <1>3. \A t : SplitHostPort(t).port \in 0..MaxPort \cup {Invalid}
    BY <1>1, <1>2, PortsKnown DEF SplitHostPort, HostPort
  <1> QED
    BY <1>3 DEF ParseConnString

\* An accepted string is the one on the command line.
ConnParsed ==
    /\ pc = "parse" => conn = Nothing
    /\ conn # Nothing => /\ given.arg # Nothing /\ conn = ParseConnString(given.arg.text)
                         /\ conn.port # Invalid

Answers ==
    /\ pc \in Prompts \cup {"parse", "load", "override", "collect", "qualify", "resolve",
                            "dialling", "failed"}
    /\ fileless \in BOOLEAN /\ warned \in BOOLEAN
    /\ reply \in [Prompts -> Replies \cup {Nothing}]

\* A file's window and port are checked as it is read, and nothing leaves them out.
Complete ==
    /\ cfg.port \in 0..MaxPort
    /\ cfg.fraction \in 0..99 /\ cfg.before >= 0 /\ cfg.fraction + cfg.before > 0
    /\ (pc = "override" /\ ~fileless) \/ pc \in {"resolve", "dialling"} =>
           cfg.login # <<>> /\ cfg.password # <<>>
    /\ pc = "dialling" => cfg.tls \in Modes

Typed == Settled /\ ConnParsed /\ Answers /\ Complete

LEMMA InitTyped == Init => Typed
  <1> SUFFICES ASSUME Init PROVE ConnParsed /\ Answers /\ Complete
    BY InitSettled DEF Typed
  <1>1. ConnParsed /\ Answers
    BY DEF Init, ConnParsed, Answers
  <1>2. Complete
    <2>1. cfg.port = 0 /\ cfg.fraction = 33 /\ cfg.before = 0 /\ pc = "parse"
      BY DEF Init, StandaloneConfig
    <2> QED
      BY <2>1, PortsKnown DEF Complete
  <1> QED
    BY <1>1, <1>2

LEMMA StepConnParsed == ConnParsed /\ [Next]_vars => ConnParsed'
  <1> SUFFICES ASSUME ConnParsed, [Next]_vars PROVE ConnParsed'
    OBVIOUS
  <1>1. given' = given
    BY DEF Next, ParseArgument, Load, Override, Collect, PromptHost, PromptPort, PortFails, PromptLogin,
           PromptSecret, Prompt, Qualify, Resolve, Started, vars
  <1>2. CASE ParseArgument
    BY <1>1, <1>2 DEF ParseArgument, ConnParsed
  <1>3. CASE conn' = conn /\ (pc' = "parse" => pc = "parse")
    BY <1>1, <1>3 DEF ConnParsed
  <1> QED
    BY <1>2, <1>3
       DEF Next, Load, Override, Collect, PromptHost, PromptPort, PortFails, PromptLogin,
           PromptSecret, Prompt, Qualify, Resolve, Started, vars

\* The step of a prompt, as far as the configuration goes.
LEMMA PromptTyped ==
    ASSUME Typed, NEW f \in Prompts, NEW next \in Prompts \cup {"qualify"}, NEW value,
           Prompt(f, next, value),
           f = "port" => \A r \in Replies : value[r] \in 0..MaxPort \cup {Invalid}
    PROVE  Answers' /\ Complete'
  <1>1. pc = f /\ pc' \in Prompts \cup {"qualify", "failed"} /\ UNCHANGED <<fileless, warned>>
    BY DEF Prompt
  <1>2. reply \in [Prompts -> Replies \cup {Nothing}] /\ DOMAIN cfg = Fields
    BY DEF Typed, Settled, Shape, Answers
  <1>3. CASE UNCHANGED <<cfg, reply>>
    BY <1>1, <1>3 DEF Typed, Answers, Complete, Prompts
  <1>4. CASE \E r \in Replies : /\ value[r] # Invalid
                                /\ cfg' = [cfg EXCEPT ![f] = value[r]]
                                /\ reply' = [reply EXCEPT ![f] = r]
    <2>1. PICK r \in Replies : /\ value[r] # Invalid
                               /\ cfg' = [cfg EXCEPT ![f] = value[r]]
                               /\ reply' = [reply EXCEPT ![f] = r]
      BY <1>4
    <2>2. reply' \in [Prompts -> Replies \cup {Nothing}]
      BY <1>2, <2>1
    <2>3. cfg'.port \in 0..MaxPort
      BY <1>2, <2>1, FieldsKnown DEF Typed, Complete, Prompts
    <2>4. cfg'.fraction = cfg.fraction /\ cfg'.before = cfg.before
      BY <1>2, <2>1, FieldsKnown DEF Prompts
    <2> QED
      BY <1>1, <2>2, <2>3, <2>4 DEF Typed, Answers, Complete, Prompts
  <1> QED
    BY <1>3, <1>4 DEF Prompt

LEMMA StepTyped == Typed /\ [Next]_vars => Typed'
  <1> SUFFICES ASSUME Typed, [Next]_vars PROVE Answers' /\ Complete'
    BY StepSettled, StepConnParsed DEF Typed
  <1>a. DOMAIN cfg = Fields
    BY DEF Typed, Settled, Shape
  <1>1. CASE ParseArgument
    <2>1. pc = "parse" /\ pc' \in {"load", "failed"} /\ UNCHANGED <<cfg, reply, fileless, warned>>
      BY <1>1 DEF ParseArgument
    <2> QED
      BY <2>1 DEF Typed, Answers, Complete
  <1>2. CASE Load
    <2>1. /\ pc' \in {"override", "failed"} /\ UNCHANGED <<reply, warned>> /\ fileless' \in BOOLEAN
          /\ \/ UNCHANGED cfg /\ (pc' = "override" => fileless' = TRUE)
             \/ Valid(Source) /\ cfg' = [f \in Fields |-> Source[f]]
      BY <1>2 DEF Load, Typed, Answers, Fields
    <2>2. Complete'
      <3>1. CASE UNCHANGED cfg /\ (pc' = "override" => fileless' = TRUE)
        <4>1. cfg' = cfg /\ pc' \notin {"resolve", "dialling"} /\ ~(pc' = "override" /\ ~fileless')
          BY <2>1, <3>1
        <4> QED
          BY <4>1 DEF Typed, Complete
      <3>2. CASE Valid(Source) /\ cfg' = [f \in Fields |-> Source[f]]
        <4>1. /\ pc' \in {"override", "failed"} /\ cfg'.port = Source.port /\ cfg'.login = Source.login
              /\ cfg'.password = Source.password /\ cfg'.fraction = Source.fraction
              /\ cfg'.before = Source.before
          BY <2>1, <3>2, FieldsKnown
        <4> QED
          BY <3>2, <4>1 DEF Complete, Valid
      <3> QED
        BY <2>1, <3>1, <3>2
    <2> QED
      BY <2>1, <2>2 DEF Typed, Answers
  <1>3. CASE Override
    <2>1. /\ pc = "override" /\ pc' \in {"collect", "resolve"} /\ UNCHANGED <<reply, warned, fileless>>
          /\ pc' = "resolve" => conn = Nothing /\ ~fileless
      BY <1>3 DEF Override
    <2>2. /\ cfg'.port \in 0..MaxPort /\ cfg'.fraction = cfg.fraction /\ cfg'.before = cfg.before
          /\ conn = Nothing => cfg'.login = cfg.login /\ cfg'.password = cfg.password
      <3>1. conn # Nothing => conn.port \in 0..MaxPort
        BY ParsedPortTyped DEF Typed, ConnParsed
      <3>2. cfg.port \in 0..MaxPort
        BY DEF Typed, Complete
      <3> QED
        BY <1>a, <1>3, <3>1, <3>2, FieldsKnown DEF Override, WithConn
    <2> QED
      BY <2>1, <2>2 DEF Typed, Answers, Complete
  <1>4. CASE PromptHost \/ PromptPort \/ PromptLogin \/ PromptSecret
    <2>1. cfg.port \in 0..MaxPort
      BY DEF Typed, Complete
    <2>2. CASE PromptPort
      <3> DEFINE value == [r \in Replies |-> IF r = <<>> THEN OfferedPort(cfg) ELSE ParsePort(r)]
      <3>1. \A r \in Replies : value[r] \in 0..MaxPort \cup {Invalid}
        BY <2>1, PortsKnown DEF OfferedPort, PortFor, ParsePort
      <3>2. Prompt("port", "login", value)
        BY <2>2 DEF PromptPort
      <3> HIDE DEF value
      <3> QED
        BY <3>1, <3>2, PromptTyped DEF Prompts
    <2>3. CASE PromptHost
      BY <2>3, PromptTyped DEF PromptHost, Prompts
    <2>4. CASE PromptLogin
      BY <2>4, PromptTyped DEF PromptLogin, Prompts
    <2>5. CASE PromptSecret
      BY <2>5, PromptTyped DEF PromptSecret, Prompts
    <2> QED
      BY <1>4, <2>2, <2>3, <2>4, <2>5
  <1>5. CASE Collect \/ PortFails
    <2>1. /\ pc \in {"collect", "port"} /\ pc' \in {"host", "failed"}
          /\ UNCHANGED <<cfg, reply, fileless, warned>>
      BY <1>5 DEF Collect, PortFails
    <2> QED
      BY <2>1 DEF Typed, Answers, Complete, Prompts
  <1>6. CASE Qualify
    <2>1. /\ pc = "qualify" /\ UNCHANGED <<reply, fileless, warned>>
          /\ cfg'.port = cfg.port /\ cfg'.fraction = cfg.fraction /\ cfg'.before = cfg.before
          /\ cfg'.login = QualifyLogin(cfg.login, cfg.host) /\ cfg'.password = cfg.password
          /\ pc' \in {"failed", "resolve"}
          /\ pc' = "resolve" => cfg'.login # <<>> /\ cfg.password # <<>>
      BY <1>a, <1>6, FieldsKnown DEF Qualify
    <2> QED
      BY <2>1 DEF Typed, Answers, Complete
  <1>7. CASE Resolve
    <2>1. /\ pc = "resolve" /\ pc' \in {"dialling", "failed"} /\ UNCHANGED <<cfg, reply, fileless>>
          /\ pc' = "dialling" => cfg.tls \in Modes
      BY <1>7 DEF Resolve
    <2>2. warned' \in BOOLEAN
      BY <1>7 DEF Resolve, Exposed, Typed, Answers
    <2> QED
      BY <2>1, <2>2 DEF Typed, Answers, Complete
  <1>8. CASE UNCHANGED vars
    BY <1>8 DEF vars, Typed, Answers, Complete
  <1> QED
    BY <1>1, <1>2, <1>3, <1>4, <1>5, <1>6, <1>7, <1>8 DEF Next, Started

LEMMA AlwaysTyped == Spec => []Typed
  BY InitTyped, StepTyped, PTL DEF Spec

\* Every start that dials has all that the run relies on, its renewal window
\* included, whatever was given, found and typed (config.go 121-232, main.go 169-251).
THEOREM StartupTyped == Spec => []TypeOK
  <1>1. Typed => TypeOK
    <2> SUFFICES ASSUME Typed, pc = "dialling" PROVE Usable(cfg) /\ port \in 1..MaxPort
      BY DEF Typed, Answers, TypeOK
    <2>1. PortFor(cfg) \in 1..MaxPort
      BY PortsKnown DEF Typed, Complete, PortFor
    <2>2. port = PortFor(cfg)
      BY DEF Typed, Settled, Dialled
    <2> QED
      BY <2>1, <2>2 DEF Typed, Complete, Usable
  <1> QED
    BY <1>1, AlwaysTyped, PTL

-------------------------------------------------------------------------------
(***************************************************************************)
(* What the parser of a connection string reads is what the string spells: *)
(* it accepts the strings that spell something, and the meaning of each is *)
(* the one it returns.  First, where a token is found.                     *)
(***************************************************************************)
LEMMA LeastOne ==
    ASSUME NEW S \in SUBSET Nat, S # {}
    PROVE  Min(S) \in S /\ \A i \in S : Min(S) <= i
  <1> DEFINE Smaller == {ss \in Nat \X Nat : ss[1] < ss[2]}
  <1>1. IsWellFoundedOn(Smaller, Nat)
    BY NatLessThanWellFounded DEF OpToRel
  <1> HIDE DEF Smaller
  <1>2. PICK p \in S : \A i \in S : ~(<<i, p>> \in Smaller)
    BY <1>1, WFMin
  <1>3. \A i, j \in Nat : i < j => <<i, j>> \in Smaller
    BY DEF Smaller
  <1>4. \A i \in S : p \in Nat /\ i \in Nat /\ ~(i < p)
    BY <1>2, <1>3
  <1>5. \A i \in S : p =< i
    BY <1>4
  <1> QED
    BY <1>5 DEF Min

LEMMA GreatestOne ==
    ASSUME NEW n \in Nat, NEW S \in SUBSET (1..n), S # {}
    PROVE  Max(S) \in S /\ \A i \in S : Max(S) >= i
  <1> DEFINE T == {n - i : i \in S}
  <1>1. T \in SUBSET Nat /\ T # {}
    <2>1. \A i \in S : n - i \in Nat
      OBVIOUS
    <2> QED
      BY <2>1
  <1>2. Min(T) \in T /\ \A i \in T : Min(T) <= i
    BY <1>1, LeastOne
  <1>3. PICK p \in S : Min(T) = n - p
    BY <1>2
  <1>4. \A i \in S : p >= i
    <2> SUFFICES ASSUME NEW i \in S PROVE p >= i
      OBVIOUS
    <2>1. n - i \in T /\ i \in Nat /\ p \in Nat
      OBVIOUS
    <2>2. n - p <= n - i
      BY <1>2, <1>3, <2>1
    <2> QED
      BY <2>1, <2>2
  <1> QED
    BY <1>4 DEF Max

LEMMA FirstFound ==
    ASSUME NEW T, NEW s \in Seq(T), NEW t
    PROVE  /\ IndexOf(s, t) \in 0..Len(s) /\ Len(s) \in Nat
           /\ IndexOf(s, t) = 0 <=> ~Contains(s, t)
           /\ IndexOf(s, t) # 0 => /\ s[IndexOf(s, t)] = t
                                   /\ \A j \in 1..Len(s) : s[j] = t => IndexOf(s, t) <= j
  <1> DEFINE found == {i \in 1..Len(s) : s[i] = t}
  <1>1. Len(s) \in Nat /\ found \in SUBSET Nat
    BY LenProperties
  <1>2. IndexOf(s, t) = IF found # {} THEN Min(found) ELSE 0
    BY DEF IndexOf, SelectInSeq
  <1>3. found # {} => Min(found) \in found /\ \A i \in found : Min(found) <= i
    BY <1>1, LeastOne
  <1>4. found = {} <=> ~Contains(s, t)
    BY DEF Contains
  <1> QED
    BY <1>1, <1>2, <1>3, <1>4

LEMMA LastFound ==
    ASSUME NEW T, NEW s \in Seq(T), NEW t
    PROVE  /\ LastIndexOf(s, t) \in 0..Len(s) /\ Len(s) \in Nat
           /\ LastIndexOf(s, t) = 0 <=> ~Contains(s, t)
           /\ LastIndexOf(s, t) # 0 => /\ s[LastIndexOf(s, t)] = t
                                       /\ \A j \in 1..Len(s) : s[j] = t => LastIndexOf(s, t) >= j
  <1> DEFINE found == {i \in 1..Len(s) : s[i] = t}
  <1>1. Len(s) \in Nat /\ found \in SUBSET (1..Len(s))
    BY LenProperties
  <1>2. LastIndexOf(s, t) = IF found # {} THEN Max(found) ELSE 0
    BY DEF LastIndexOf, SelectLastInSeq
  <1>3. found # {} => Max(found) \in found /\ \A i \in found : Max(found) >= i
    BY <1>1, GreatestOne
  <1>4. found = {} <=> ~Contains(s, t)
    BY DEF Contains
  <1> QED
    BY <1>1, <1>2, <1>3, <1>4

-------------------------------------------------------------------------------
(* Cutting a text at a token, and putting it together again. *)

\* Two texts with a token between them, which is not in the one or in the other.
LEMMA Joined ==
    ASSUME NEW T, NEW a \in Seq(T), NEW b \in Seq(T), NEW t \in T
    PROVE  LET s == (a \o <<t>>) \o b
           IN  /\ s \in Seq(T) /\ Len(s) = Len(a) + 1 + Len(b)
               /\ Len(a) \in Nat /\ Len(b) \in Nat
               /\ s[Len(a) + 1] = t
               /\ \A i \in 1..Len(a) : s[i] = a[i]
               /\ \A i \in 1..Len(b) : s[Len(a) + 1 + i] = b[i]
               /\ Before(s, Len(a) + 1) = a /\ After(s, Len(a) + 1) = b
  <1> DEFINE one == <<t>>
             front == a \o one
             s == front \o b
  <1>1. one \in Seq(T) /\ Len(one) = 1 /\ one[1] = t
    OBVIOUS
  <1>2. Len(a) \in Nat /\ Len(b) \in Nat
    BY LenProperties
  <1> HIDE DEF one
  <1>3. /\ front \in Seq(T) /\ Len(front) = Len(a) + 1
        /\ \A i \in 1..Len(a) : front[i] = a[i]
        /\ front[Len(a) + 1] = t
    <2>0. Len(a) + 1 \in 1..(Len(a) + 1) /\ (Len(a) + 1) - Len(a) = 1 /\ ~(Len(a) + 1 <= Len(a))
      BY <1>2
    <2>1. /\ a \o one \in Seq(T) /\ Len(a \o one) = Len(a) + Len(one)
          /\ \A i \in 1..(Len(a) + Len(one)) :
                (a \o one)[i] = IF i <= Len(a) THEN a[i] ELSE one[i - Len(a)]
      BY <1>1, ConcatProperties
    <2> QED
      BY <1>1, <1>2, <2>0, <2>1
  <1> HIDE DEF front, s
  <1>4. /\ s \in Seq(T) /\ Len(s) = Len(a) + 1 + Len(b)
        /\ \A i \in 1..(Len(a) + 1) : s[i] = front[i]
        /\ \A i \in 1..Len(b) : s[Len(a) + 1 + i] = b[i]
    <2>1. /\ s \in Seq(T) /\ Len(s) = Len(front) + Len(b)
          /\ \A i \in 1..(Len(front) + Len(b)) :
                s[i] = IF i <= Len(front) THEN front[i] ELSE b[i - Len(front)]
      BY <1>3, ConcatProperties DEF s
    <2>2. \A i \in 1..Len(b) : s[Len(a) + 1 + i] = b[i]
      <3> SUFFICES ASSUME NEW i \in 1..Len(b) PROVE s[Len(a) + 1 + i] = b[i]
        OBVIOUS
      <3>1. Len(a) + 1 + i \in 1..(Len(front) + Len(b)) /\ ~(Len(a) + 1 + i <= Len(front))
            /\ (Len(a) + 1 + i) - Len(front) = i
        BY <1>2, <1>3
      <3> QED
        BY <2>1, <3>1
    <2> QED
      BY <1>2, <1>3, <2>1, <2>2
  <1>5. s[Len(a) + 1] = t /\ \A i \in 1..Len(a) : s[i] = a[i]
    BY <1>2, <1>3, <1>4
  <1>6. Before(s, Len(a) + 1) = a
    <2>1. \A i \in 1..Len(a) : s[i] \in T
      BY <1>2, <1>4, ElementOfSeq
    <2>2. /\ Before(s, Len(a) + 1) \in Seq(T) /\ Len(Before(s, Len(a) + 1)) = Len(a)
          /\ \A i \in 1..Len(a) : Before(s, Len(a) + 1)[i] = s[i]
      <3>1. Before(s, Len(a) + 1) = SubSeq(s, 1, Len(a))
        BY <1>2 DEF Before
      <3>2. /\ SubSeq(s, 1, Len(a)) \in Seq(T)
            /\ Len(SubSeq(s, 1, Len(a))) = IF 1 <= Len(a) THEN Len(a) - 1 + 1 ELSE 0
            /\ \A i \in 1..(Len(a) - 1 + 1) : SubSeq(s, 1, Len(a))[i] = s[1 + i - 1]
        BY <1>2, <2>1, SubSeqProperties
      <3> QED
        BY <1>2, <3>1, <3>2
    <2> QED
      BY <1>5, <2>2, SeqEqual
  <1>7. After(s, Len(a) + 1) = b
    <2> DEFINE m == Len(a) + 2
    <2>1. After(s, Len(a) + 1) = SubSeq(s, m, Len(s)) /\ m \in Int /\ Len(s) \in Int
      BY <1>2, <1>4 DEF After
    <2>2. \A i \in m..Len(s) : s[i] \in T
      BY <1>2, <1>4, ElementOfSeq
    <2> HIDE DEF m
    <2>3. /\ SubSeq(s, m, Len(s)) \in Seq(T)
          /\ Len(SubSeq(s, m, Len(s))) = IF m <= Len(s) THEN Len(s) - m + 1 ELSE 0
          /\ \A i \in 1..(Len(s) - m + 1) : SubSeq(s, m, Len(s))[i] = s[m + i - 1]
      BY <2>1, <2>2, SubSeqProperties
    <2>4. Len(s) - m + 1 = Len(b) /\ Len(SubSeq(s, m, Len(s))) = Len(b)
      BY <1>2, <1>4, <2>3 DEF m
    <2>5. \A i \in 1..Len(b) : SubSeq(s, m, Len(s))[i] = b[i]
      <3> SUFFICES ASSUME NEW i \in 1..Len(b) PROVE SubSeq(s, m, Len(s))[i] = b[i]
        OBVIOUS
      <3>1. m + i - 1 = Len(a) + 1 + i
        BY <1>2 DEF m
      <3> QED
        BY <1>4, <2>3, <2>4, <3>1
    <2> QED
      BY <2>1, <2>3, <2>4, <2>5, SeqEqual
  <1> QED
    BY <1>2, <1>4, <1>5, <1>6, <1>7 DEF s, front, one

\* A text is what it has before a place, the token there, and what it has after it.
LEMMA Cut ==
    ASSUME NEW T, NEW s \in Seq(T), NEW i \in 1..Len(s)
    PROVE  /\ Before(s, i) \in Seq(T) /\ After(s, i) \in Seq(T) /\ s[i] \in T
           /\ s = (Before(s, i) \o <<s[i]>>) \o After(s, i)
           /\ Len(Before(s, i)) = i - 1
           /\ \A j \in 1..(i - 1) : Before(s, i)[j] = s[j]
           /\ \A j \in 1..Len(After(s, i)) : After(s, i)[j] = s[i + j] /\ i + j \in 1..Len(s)
  <1>1. Len(s) \in Nat /\ i \in Nat /\ i - 1 \in Int /\ i + 1 \in Int /\ i - 1 >= 0 /\ i <= Len(s)
    BY LenProperties
  <1>2. \A j \in 1..Len(s) : s[j] \in T
    BY ElementOfSeq
  <1>3. /\ SubSeq(s, 1, i - 1) \in Seq(T)
        /\ Len(SubSeq(s, 1, i - 1)) = IF 1 <= i - 1 THEN (i - 1) - 1 + 1 ELSE 0
        /\ \A j \in 1..((i - 1) - 1 + 1) : SubSeq(s, 1, i - 1)[j] = s[1 + j - 1]
    <2>1. \A j \in 1..(i - 1) : s[j] \in T
      BY <1>1, <1>2
    <2> QED
      BY <1>1, <2>1, SubSeqProperties
  <1>4. /\ SubSeq(s, i + 1, Len(s)) \in Seq(T)
        /\ Len(SubSeq(s, i + 1, Len(s))) = IF i + 1 <= Len(s) THEN Len(s) - (i + 1) + 1 ELSE 0
        /\ \A j \in 1..(Len(s) - (i + 1) + 1) : SubSeq(s, i + 1, Len(s))[j] = s[i + 1 + j - 1]
    <2>1. \A j \in (i + 1)..Len(s) : s[j] \in T
      BY <1>1, <1>2
    <2> QED
      BY <1>1, <2>1, SubSeqProperties
  <1>5. s = (SubSeq(s, 1, i - 1) \o <<s[i]>>) \o SubSeq(s, i + 1, Len(s))
    <2>1. SubSeq(s, 1, i) = SubSeq(s, 1, i - 1) \o <<s[i]>>
      BY <1>1, SubSeqRecursiveSecond
    <2>2. SubSeq(s, 1, i) \o SubSeq(s, i + 1, Len(s)) = SubSeq(s, 1, Len(s))
      BY <1>1, ConcatAdjacentSubSeq
    <2> QED
      BY <2>1, <2>2, SubSeqFull
  <1>6. Len(SubSeq(s, 1, i - 1)) = i - 1 /\ Len(SubSeq(s, i + 1, Len(s))) = Len(s) - i
    BY <1>1, <1>3, <1>4
  <1>7. \A j \in 1..(i - 1) : SubSeq(s, 1, i - 1)[j] = s[j]
    BY <1>1, <1>3
  <1>8. \A j \in 1..(Len(s) - i) : SubSeq(s, i + 1, Len(s))[j] = s[i + j] /\ i + j \in 1..Len(s)
    BY <1>1, <1>4
  <1> QED
    BY <1>2, <1>3, <1>4, <1>5, <1>6, <1>7, <1>8 DEF Before, After

\* The first of a token is where the text without it ends ...
LEMMA FirstJoin ==
    ASSUME NEW T, NEW a \in Seq(T), NEW b \in Seq(T), NEW t \in T, ~Contains(a, t)
    PROVE  IndexOf((a \o <<t>>) \o b, t) = Len(a) + 1
  <1> DEFINE s == (a \o <<t>>) \o b
             i == IndexOf(s, t)
  <1>1. /\ s \in Seq(T) /\ Len(s) = Len(a) + 1 + Len(b) /\ Len(a) \in Nat /\ Len(b) \in Nat
        /\ s[Len(a) + 1] = t /\ \A j \in 1..Len(a) : s[j] = a[j]
    BY Joined
  <1> HIDE DEF s
  <1>2. Len(a) + 1 \in 1..Len(s)
    BY <1>1
  <1>3. Contains(s, t)
    BY <1>1, <1>2 DEF Contains
  <1>4. i \in 1..Len(s) /\ s[i] = t /\ i <= Len(a) + 1
    BY <1>1, <1>2, <1>3, FirstFound
  <1>5. ~(i \in 1..Len(a))
    BY <1>1, <1>4 DEF Contains
  <1> QED
    BY <1>1, <1>4, <1>5 DEF s

\* ... and the last of one where the text without it begins.
LEMMA LastJoin ==
    ASSUME NEW T, NEW a \in Seq(T), NEW b \in Seq(T), NEW t \in T, ~Contains(b, t)
    PROVE  LastIndexOf((a \o <<t>>) \o b, t) = Len(a) + 1
  <1> DEFINE s == (a \o <<t>>) \o b
             i == LastIndexOf(s, t)
  <1>1. /\ s \in Seq(T) /\ Len(s) = Len(a) + 1 + Len(b) /\ Len(a) \in Nat /\ Len(b) \in Nat
        /\ s[Len(a) + 1] = t /\ \A j \in 1..Len(b) : s[Len(a) + 1 + j] = b[j]
    BY Joined
  <1> HIDE DEF s
  <1>2. Len(a) + 1 \in 1..Len(s)
    BY <1>1
  <1>3. Contains(s, t)
    BY <1>1, <1>2 DEF Contains
  <1>4. i \in 1..Len(s) /\ s[i] = t /\ i >= Len(a) + 1
    <2>0. s \in Seq(T)
      BY <1>1
    <2>1. /\ i \in 0..Len(s) /\ Len(s) \in Nat
          /\ i = 0 <=> ~Contains(s, t)
          /\ i # 0 => s[i] = t /\ \A j \in 1..Len(s) : s[j] = t => i >= j
      BY <2>0, LastFound
    <2> HIDE DEF i
    <2>2. i # 0
      BY <1>3, <2>1
    <2> QED
      BY <1>1, <1>2, <2>1, <2>2
  <1>5. i \in Int /\ i <= Len(s)
    BY <1>1, <1>4
  <1> HIDE DEF i
  <1>6. ~(i > Len(a) + 1)
    <2> SUFFICES ASSUME i > Len(a) + 1 PROVE FALSE
      OBVIOUS
    <2>1. PICK j \in 1..Len(b) : Len(a) + 1 + j = i
      <3>1. i - (Len(a) + 1) \in 1..Len(b)
        BY <1>5, <1>1
      <3>2. Len(a) + 1 + (i - (Len(a) + 1)) = i
        BY <1>5, <1>1
      <3> QED
        BY <3>1, <3>2
    <2> QED
      BY <1>1, <1>4, <2>1 DEF Contains
  <1> QED
    BY <1>5, <1>1, <1>4, <1>6 DEF s, i

\* No token of that kind before the first one, none after the last one.
LEMMA CutApart ==
    ASSUME NEW T, NEW s \in Seq(T), NEW t
    PROVE  /\ IndexOf(s, t) # 0 => ~Contains(Before(s, IndexOf(s, t)), t)
           /\ LastIndexOf(s, t) # 0 => ~Contains(After(s, LastIndexOf(s, t)), t)
  <1>1. ASSUME IndexOf(s, t) # 0 PROVE ~Contains(Before(s, IndexOf(s, t)), t)
    <2> DEFINE i == IndexOf(s, t)
    <2>1. i \in 1..Len(s) /\ Len(s) \in Nat /\ \A j \in 1..Len(s) : s[j] = t => i <= j
      BY <1>1, FirstFound
    <2> HIDE DEF i
    <2>2. Len(Before(s, i)) = i - 1 /\ \A j \in 1..(i - 1) : Before(s, i)[j] = s[j]
      BY <2>1, Cut
    <2>3. \A j \in 1..(i - 1) : s[j] # t
      BY <2>1
    <2>4. ~Contains(Before(s, i), t)
      BY <2>2, <2>3 DEF Contains
    <2> QED
      BY <2>4 DEF i
  <1>2. ASSUME LastIndexOf(s, t) # 0 PROVE ~Contains(After(s, LastIndexOf(s, t)), t)
    <2> DEFINE i == LastIndexOf(s, t)
    <2>1. i \in 1..Len(s) /\ Len(s) \in Nat /\ \A j \in 1..Len(s) : s[j] = t => i >= j
      BY <1>2, LastFound
    <2> HIDE DEF i
    <2>2. \A j \in 1..Len(After(s, i)) : After(s, i)[j] = s[i + j] /\ i + j \in 1..Len(s)
      BY <2>1, Cut
    <2>3. \A j \in 1..Len(After(s, i)) : s[i + j] # t
      <3> SUFFICES ASSUME NEW j \in 1..Len(After(s, i)), s[i + j] = t PROVE FALSE
        OBVIOUS
      <3>1. After(s, i) \in Seq(T)
        BY <2>1, Cut
      <3>2. j \in Nat /\ j > 0
        BY <3>1, LenProperties
      <3> QED
        BY <2>1, <2>2, <3>2
    <2>4. ~Contains(After(s, i), t)
      BY <2>2, <2>3 DEF Contains
    <2> QED
      BY <2>4 DEF i
  <1> QED
    BY <1>1, <1>2

-------------------------------------------------------------------------------
(***************************************************************************)
(* A string is parsed as what it spells.  The tokens are those of any set  *)
(* that has the separators and the numerals.                               *)
(***************************************************************************)
\* How a port is spelled: not at all, or by one numeral, which is no separator.
LEMMA PortSpelled ==
    ASSUME NEW T, Separators \cup DOMAIN Number \subseteq T,
           NEW n \in 0..MaxPort, NEW p \in PortSpellings(n)
    PROVE  \/ n = 0 /\ p = <<>>
           \/ /\ n # 0
              /\ \E t \in T : /\ p = <<":">> \o <<t>> /\ <<t>> \in Seq(T) /\ ~Contains(<<t>>, ":")
                              /\ ParsePort(<<t>>) = n
  <1>1. CASE n = 0
    BY <1>1 DEF PortSpellings
  <1>2. CASE n # 0
    <2>1. PICK t \in DOMAIN Number : Number[t] = n /\ p = <<":", t>>
      BY <1>2 DEF PortSpellings
    <2>2. t \in T /\ t # ":"
      BY <2>1, StartupAssumption DEF StartupAssumption, Separators
    <2>3. Len(<<t>>) = 1 /\ <<t>>[1] = t /\ <<t>> \in Seq(T)
      BY <2>2
    <2>4. n \in 1..MaxPort
      BY <1>2, PortsKnown
    <2>5. ParsePort(<<t>>) = n
      BY <2>1, <2>3, <2>4 DEF ParsePort
    <2>6. ~Contains(<<t>>, ":")
      BY <2>2, <2>3 DEF Contains
    <2>7. <<":", t>> = <<":">> \o <<t>>
      BY <2>2
    <2> QED
      BY <1>2, <2>1, <2>2, <2>3, <2>5, <2>6, <2>7
  <1> QED
    BY <1>1, <1>2

\* The port after a bracketed literal.
LEMMA BracketedPortSpelled ==
    ASSUME NEW T, Separators \cup DOMAIN Number \subseteq T,
           NEW n \in 0..MaxPort, NEW p \in PortSpellings(n)
    PROVE  BracketedPort(p) = n /\ p \in Seq(T)
  <1>1. CASE n = 0 /\ p = <<>>
    BY <1>1 DEF BracketedPort
  <1>2. ASSUME NEW t \in T, p = <<":">> \o <<t>>, ParsePort(<<t>>) = n
        PROVE  BracketedPort(p) = n /\ p \in Seq(T)
    <2>1. ":" \in T
      BY DEF Separators
    <2>2. <<":", t>> = <<":">> \o <<t>>
      BY <2>1
    <2>3. <<":", t>> \in Seq(T) /\ <<":", t>> # <<>> /\ <<":", t>>[1] = ":"
      BY <2>1
    <2>4. Tail(<<":", t>>) = <<t>>
      BY <2>1
    <2> QED
      BY <1>2, <2>2, <2>3, <2>4 DEF BracketedPort
  <1>3. \/ n = 0 /\ p = <<>>
        \/ n # 0 /\ \E t \in T : p = <<":">> \o <<t>> /\ ParsePort(<<t>>) = n
    BY PortSpelled
  <1> QED
    BY <1>1, <1>2, <1>3

\* A bracketed literal with what follows it: the brackets are found again.
LEMMA BracketsFound ==
    ASSUME NEW T, Separators \subseteq T, NEW h \in Seq(T), NEW p \in Seq(T), ~Contains(h, "]"),
           NEW text, text = ((<<"[">> \o h) \o <<"]">>) \o p
    PROVE  /\ text # <<>> /\ text[1] = "["
           /\ IndexOf(text, "]") # 0 /\ SubSeq(text, 2, IndexOf(text, "]") - 1) = h
           /\ After(text, IndexOf(text, "]")) = p
  <1> DEFINE one == <<"[">>
             a == one \o h
             s == (a \o <<"]">>) \o p
             end == IndexOf(s, "]")
  <1>0. text = s
    OBVIOUS
  <1>1. "[" \in T /\ "]" \in T /\ "[" # "]"
    BY DEF Separators
  <1>2. one \in Seq(T) /\ Len(one) = 1 /\ one[1] = "["
    BY <1>1
  <1>3. Len(h) \in Nat /\ \A i \in 1..Len(h) : h[i] \in T /\ h[i] # "]"
    BY LenProperties, ElementOfSeq DEF Contains
  <1> HIDE DEF one
  <1>4. a \in Seq(T) /\ Len(a) = 1 + Len(h) /\ a[1] = "[" /\ \A i \in 1..Len(h) : a[1 + i] = h[i]
    <2>1. /\ one \o h \in Seq(T) /\ Len(one \o h) = Len(one) + Len(h)
          /\ \A i \in 1..(Len(one) + Len(h)) :
                (one \o h)[i] = IF i <= Len(one) THEN one[i] ELSE h[i - Len(one)]
      BY <1>2, ConcatProperties
    <2>2. \A i \in 1..Len(h) : 1 + i \in 1..(Len(one) + Len(h)) /\ ~(1 + i <= Len(one))
                               /\ (1 + i) - Len(one) = i
      BY <1>2, <1>3
    <2> QED
      BY <1>2, <1>3, <2>1, <2>2
  <1> HIDE DEF a
  <1>5. ~Contains(a, "]")
    <2> SUFFICES ASSUME NEW j \in 1..Len(a), a[j] = "]" PROVE FALSE
      BY DEF Contains
    <2>1. j # 1
      BY <1>1, <1>4
    <2>2. PICK i \in 1..Len(h) : 1 + i = j
      <3>1. j - 1 \in 1..Len(h) /\ 1 + (j - 1) = j
        BY <1>3, <1>4, <2>1
      <3> QED
        BY <3>1
    <2> QED
      BY <1>3, <1>4, <2>2
  <1>6. end = Len(a) + 1
    BY <1>1, <1>4, <1>5, FirstJoin
  <1>7. /\ s \in Seq(T) /\ Len(s) = Len(a) + 1 + Len(p) /\ Len(p) \in Nat
        /\ \A i \in 1..Len(a) : s[i] = a[i]
        /\ After(s, Len(a) + 1) = p
    <2>1. "]" \in T /\ a \in Seq(T) /\ p \in Seq(T)
      BY <1>1, <1>4
    <2>2. s \in Seq(T) /\ Len(s) = Len(a) + 1 + Len(p) /\ Len(p) \in Nat
      BY <2>1, Joined
    <2>3. \A i \in 1..Len(a) : s[i] = a[i]
      BY <2>1, Joined
    <2>4. After(s, Len(a) + 1) = p
      BY <2>1, Joined
    <2> QED
      BY <2>2, <2>3, <2>4
  <1> HIDE DEF s
  <1>8. s # <<>> /\ s[1] = "["
    <2>1. 1 \in 1..Len(a) /\ Len(s) > 0
      BY <1>3, <1>4, <1>7
    <2> QED
      BY <1>4, <1>7, <2>1
  <1>9. SubSeq(s, 2, Len(a)) = h
    <2> DEFINE n == Len(a)
    <2>1. n = 1 + Len(h)
      BY <1>4
    <2>2. \A i \in 1..Len(h) : s[1 + i] = h[i]
      BY <1>3, <1>4, <1>7
    <2>3. \A i \in 2..n : s[i] \in T
      BY <1>3, <1>4, <1>7, ElementOfSeq
    <2> HIDE DEF n
    <2>4. /\ SubSeq(s, 2, n) \in Seq(T)
          /\ Len(SubSeq(s, 2, n)) = IF 2 <= n THEN n - 2 + 1 ELSE 0
          /\ \A i \in 1..(n - 2 + 1) : SubSeq(s, 2, n)[i] = s[2 + i - 1]
      BY <1>3, <2>1, <2>3, SubSeqProperties
    <2>5. Len(SubSeq(s, 2, n)) = Len(h)
      BY <1>3, <2>1, <2>4
    <2>6. \A i \in 1..Len(h) : SubSeq(s, 2, n)[i] = h[i]
      <3> SUFFICES ASSUME NEW i \in 1..Len(h) PROVE SubSeq(s, 2, n)[i] = h[i]
        OBVIOUS
      <3>1. i \in 1..(n - 2 + 1) /\ 2 + i - 1 = 1 + i
        BY <1>3, <2>1
      <3> QED
        BY <2>2, <2>4, <3>1
    <2>7. SubSeq(s, 2, n) = h
      BY <2>4, <2>5, <2>6, SeqEqual
    <2> QED
      BY <2>7 DEF n
  <1>10. end # 0 /\ end - 1 = Len(a)
    BY <1>3, <1>4, <1>6
  <1>11. SubSeq(s, 2, end - 1) = h /\ After(s, end) = p
    BY <1>6, <1>7, <1>9, <1>10
  <1> QED
    BY <1>0, <1>8, <1>10, <1>11

\* The host part of a string, in each of its three shapes.
LEMMA HostParsesBack ==
    ASSUME NEW T, Separators \cup DOMAIN Number \subseteq T,
           NEW s, NEW m, m.host \in Seq(T), m.port \in 0..MaxPort, SpellsHost(s, m)
    PROVE  SplitHostPort(s) = HostPort(m.host, m.port)
  <1> DEFINE h == m.host
             n == m.port
  <1>1. PICK p \in PortSpellings(n) :
           \/ s = ((<<"[">> \o h) \o <<"]">>) \o p /\ ~Contains(h, "]")
           \/ s = h \o p /\ ~Contains(h, ":") /\ h[1] # "["
           \/ /\ s = h /\ p = <<>> /\ h[1] # "["
              /\ \E i, j \in 1..Len(s) : i # j /\ s[i] = ":" /\ s[j] = ":"
    BY DEF SpellsHost
  <1>2. h \in Seq(T) /\ h # <<>> /\ n \in 0..MaxPort /\ Separators \subseteq T /\ ":" \in T
    BY DEF SpellsHost, Separators
  <1>3. BracketedPort(p) = n /\ p \in Seq(T)
    BY BracketedPortSpelled
  <1>4. \/ n = 0 /\ p = <<>>
        \/ /\ n # 0
           /\ \E t \in T : /\ p = <<":">> \o <<t>> /\ <<t>> \in Seq(T) /\ ~Contains(<<t>>, ":")
                           /\ ParsePort(<<t>>) = n
    BY PortSpelled
  <1>5. Len(h) \in Nat /\ Len(h) # 0
    BY <1>2, LenProperties, EmptySeq
  <1> HIDE DEF h, n
  <1>6. CASE s = ((<<"[">> \o h) \o <<"]">>) \o p /\ ~Contains(h, "]")
    <2>1. /\ s # <<>> /\ s[1] = "["
          /\ IndexOf(s, "]") # 0 /\ SubSeq(s, 2, IndexOf(s, "]") - 1) = h
          /\ After(s, IndexOf(s, "]")) = p
      BY <1>2, <1>3, <1>6, BracketsFound
    <2> QED
      BY <1>3, <2>1 DEF SplitHostPort, h, n
  <1>7. ASSUME ~Contains(h, ":"), h[1] # "[", s = h, n = 0
        PROVE  SplitHostPort(s) = HostPort(h, n)
    <2>1. IndexOf(s, ":") = 0
      BY <1>2, <1>7, FirstFound
    <2> QED
      BY <1>7, <2>1 DEF SplitHostPort
  <1>8. ASSUME NEW t \in T, ~Contains(h, ":"), h[1] # "[", s = h \o (<<":">> \o <<t>>),
               <<t>> \in Seq(T), ~Contains(<<t>>, ":"), ParsePort(<<t>>) = n
        PROVE  SplitHostPort(s) = HostPort(h, n)
    <2> DEFINE b == <<t>>
    <2>1. s = (h \o <<":">>) \o b
      <3>1. <<":">> \in Seq(T)
        BY <1>2
      <3> QED
        BY <1>2, <1>8, <3>1, ConcatAssociative
    <2>2. b \in Seq(T) /\ ~Contains(b, ":") /\ ParsePort(b) = n /\ ~Contains(h, ":")
      BY <1>8
    <2> HIDE DEF b
    <2>3. IndexOf(s, ":") = Len(h) + 1 /\ LastIndexOf(s, ":") = Len(h) + 1
      <3>1. IndexOf(s, ":") = Len(h) + 1
        BY <1>2, <2>1, <2>2, FirstJoin
      <3>2. LastIndexOf(s, ":") = Len(h) + 1
        BY <1>2, <2>1, <2>2, LastJoin
      <3> QED
        BY <3>1, <3>2
    <2>4. /\ Before(s, Len(h) + 1) = h /\ After(s, Len(h) + 1) = b
          /\ \A i \in 1..Len(h) : s[i] = h[i]
      BY <1>2, <2>1, <2>2, Joined
    <2>5. Len(h) + 1 # 0 /\ s[1] # "["
      BY <1>5, <1>8, <2>4
    <2> QED
      BY <2>2, <2>3, <2>4, <2>5 DEF SplitHostPort
  <1>9. ASSUME NEW i \in 1..Len(h), NEW j \in 1..Len(h), i # j, h[i] = ":", h[j] = ":",
               h[1] # "[", s = h, n = 0
        PROVE  SplitHostPort(s) = HostPort(h, n)
    <2>1. IndexOf(h, ":") # LastIndexOf(h, ":")
      <3>1. Contains(h, ":")
        BY <1>9 DEF Contains
      <3>2. IndexOf(h, ":") # 0 /\ LastIndexOf(h, ":") # 0
        BY <1>2, <3>1, FirstFound, LastFound
      <3>3. /\ \A k \in 1..Len(h) : h[k] = ":" => IndexOf(h, ":") <= k
            /\ IndexOf(h, ":") \in 0..Len(h)
        BY <1>2, <3>2, FirstFound
      <3>4. /\ \A k \in 1..Len(h) : h[k] = ":" => LastIndexOf(h, ":") >= k
            /\ LastIndexOf(h, ":") \in 0..Len(h)
        BY <1>2, <3>2, LastFound
      <3>5. IndexOf(h, ":") <= i /\ IndexOf(h, ":") <= j /\ LastIndexOf(h, ":") >= i /\ LastIndexOf(h, ":") >= j
        BY <1>9, <3>3, <3>4
      <3> QED
        BY <1>5, <1>9, <3>3, <3>4, <3>5
    <2> QED
      BY <1>9, <2>1 DEF SplitHostPort
  <1>10. CASE s = h \o p /\ ~Contains(h, ":") /\ h[1] # "["
    <2>1. CASE n = 0 /\ p = <<>>
      <3>1. s = h
        BY <1>2, <1>10, <2>1, ConcatEmptySeq
      <3>2. SplitHostPort(s) = HostPort(h, n)
        BY <1>7, <1>10, <2>1, <3>1
      <3> QED
        BY <3>2 DEF h, n
    <2>2. ASSUME NEW t \in T, p = <<":">> \o <<t>>, <<t>> \in Seq(T), ~Contains(<<t>>, ":"),
                 ParsePort(<<t>>) = n
          PROVE  SplitHostPort(s) = HostPort(h, n)
      BY <1>8, <1>10, <2>2
    <2> QED
      BY <1>4, <2>1, <2>2 DEF h, n
  <1>11. CASE /\ s = h /\ p = <<>> /\ h[1] # "["
              /\ \E i, j \in 1..Len(s) : i # j /\ s[i] = ":" /\ s[j] = ":"
    <2>1. n = 0
      <3>1. \A t \in T : <<":">> \o <<t>> # <<>>
        OBVIOUS
      <3> QED
        BY <1>4, <1>11, <3>1
    <2>2. SplitHostPort(s) = HostPort(h, n)
      BY <1>9, <1>11, <2>1
    <2> QED
      BY <2>2 DEF h, n
  <1> QED
    BY <1>1, <1>6, <1>10, <1>11 DEF h

\* The part before the last "@": a login, and the password after its first ":".
LEMMA UserParsesBack ==
    ASSUME NEW T, Separators \subseteq T, NEW m, m.login \in Seq(T), m.password \in Seq(T),
           ~Contains(m.login, ":"), NEW user,
           \/ user = m.login /\ m.password = <<>>
           \/ user = (m.login \o <<":">>) \o m.password
    PROVE  LET colon == IndexOf(user, ":") IN
           /\ (IF colon = 0 THEN user ELSE Before(user, colon)) = m.login
           /\ (IF colon = 0 THEN <<>> ELSE After(user, colon)) = m.password
  <1>1. CASE user = m.login /\ m.password = <<>>
    <2>1. IndexOf(user, ":") = 0
      BY <1>1, FirstFound
    <2> QED
      BY <1>1, <2>1
  <1>2. CASE user = (m.login \o <<":">>) \o m.password
    <2>1. ":" \in T
      BY DEF Separators
    <2>2. IndexOf(user, ":") = Len(m.login) + 1
      BY <1>2, <2>1, FirstJoin
    <2>3. Len(m.login) + 1 # 0
      BY LenProperties
    <2>4. Before(user, Len(m.login) + 1) = m.login
      BY <1>2, <2>1, Joined
    <2>5. After(user, Len(m.login) + 1) = m.password
      BY <1>2, <2>1, Joined
    <2> QED
      BY <2>2, <2>3, <2>4, <2>5
  <1> QED
    BY <1>1, <1>2

\* Where the host begins, as the writer of the string sees it and as the parser does.
LEMMA HostFound ==
    ASSUME NEW T, Separators \subseteq T, NEW text \in Seq(T), NEW i \in 0..Len(text),
           ~Contains(SubSeq(text, i + 1, Len(text)), "@"), i # 0 => text[i] = "@"
    PROVE  LastIndexOf(text, "@") = i
  <1> DEFINE at == LastIndexOf(text, "@")
             hp == SubSeq(text, i + 1, Len(text))
  <1>1. Len(text) \in Nat /\ i \in Nat /\ i <= Len(text)
    BY LenProperties
  <1>2. at \in 0..Len(text) /\ (at = 0 <=> ~Contains(text, "@"))
        /\ (at # 0 => text[at] = "@" /\ \A j \in 1..Len(text) : text[j] = "@" => at >= j)
    BY FirstFound, LastFound
  <1> HIDE DEF at
  <1>3. \A j \in (i + 1)..Len(text) : text[j] # "@"
    <2>1. \A j \in 1..Len(text) : text[j] \in T
      BY ElementOfSeq
    <2>2. \A j \in (i + 1)..Len(text) : text[j] \in T
      BY <1>1, <2>1
    <2>3. /\ Len(hp) = IF i + 1 <= Len(text) THEN Len(text) - (i + 1) + 1 ELSE 0
          /\ \A j \in 1..(Len(text) - (i + 1) + 1) : hp[j] = text[i + 1 + j - 1]
      BY <1>1, <2>2, SubSeqProperties
    <2>4. \A j \in 1..Len(hp) : hp[j] # "@"
      BY DEF Contains
    <2> HIDE DEF hp
    <2>5. Len(hp) = Len(text) - i /\ \A j \in 1..(Len(text) - i) : hp[j] = text[i + j]
      BY <1>1, <2>3
    <2> SUFFICES ASSUME NEW j \in (i + 1)..Len(text), text[j] = "@" PROVE FALSE
      OBVIOUS
    <2>6. j - i \in 1..(Len(text) - i) /\ i + (j - i) = j
      BY <1>1
    <2> QED
      BY <2>4, <2>5, <2>6
  <1>4. at <= i
    <2> SUFFICES ASSUME at > i PROVE FALSE
      BY <1>1, <1>2
    <2>1. at \in (i + 1)..Len(text) /\ at # 0
      BY <1>1, <1>2
    <2> QED
      BY <1>2, <1>3, <2>1
  <1>5. i # 0 => at # 0 /\ at >= i
    <2> SUFFICES ASSUME i # 0 PROVE at # 0 /\ at >= i
      OBVIOUS
    <2>1. i \in 1..Len(text)
      BY <1>1
    <2>2. Contains(text, "@")
      BY <2>1 DEF Contains
    <2> QED
      BY <1>2, <2>1, <2>2
  <1>6. at = i
    BY <1>1, <1>2, <1>4, <1>5
  <1> QED
    BY <1>6 DEF at

\* Whatever a string spells is what it is parsed as; so it spells one thing only.
LEMMA ParsesBack ==
    ASSUME NEW T, Separators \cup DOMAIN Number \subseteq T,
           NEW text \in Seq(T), NEW m,
           m.login \in Seq(T), m.password \in Seq(T), m.host \in Seq(T), m.port \in 0..MaxPort,
           Spells(text, m)
    PROVE  LET c == ParseConnString(text) IN
           /\ c.login = m.login /\ c.password = m.password
           /\ c.host = m.host /\ c.port = m.port
  <1>1. PICK i \in 0..Len(text) :
           SpellsUser(SubSeq(text, 1, i), m) /\ SpellsHost(SubSeq(text, i + 1, Len(text)), m)
    BY DEF Spells
  <1> DEFINE u == SubSeq(text, 1, i)
             hp == SubSeq(text, i + 1, Len(text))
             x == (m.login \o <<":">>) \o m.password
  <1>2. Len(text) \in Nat /\ i \in Nat /\ i <= Len(text) /\ Separators \subseteq T
    BY LenProperties
  <1>3. \A j \in 1..Len(text) : text[j] \in T
    BY ElementOfSeq
  <1>4. u \in Seq(T) /\ Len(u) = i /\ \A j \in 1..i : u[j] = text[j]
    <2>1. \A j \in 1..i : text[j] \in T
      BY <1>2, <1>3
    <2>2. /\ u \in Seq(T) /\ Len(u) = IF 1 <= i THEN i - 1 + 1 ELSE 0
          /\ \A j \in 1..(i - 1 + 1) : u[j] = text[1 + j - 1]
      BY <1>2, <2>1, SubSeqProperties
    <2> HIDE DEF u
    <2> QED
      BY <1>2, <2>2
  <1>5. SplitHostPort(hp) = HostPort(m.host, m.port) /\ m.host # <<>> /\ ~Contains(hp, "@")
    <2>1. SplitHostPort(hp) = HostPort(m.host, m.port)
      BY <1>1, HostParsesBack
    <2> QED
      BY <1>1, <2>1 DEF SpellsHost
  <1>6. ASSUME NEW user \in Seq(T), u = user \o <<"@">>
        PROVE  i # 0 /\ text[i] = "@" /\ Before(text, i) = user
    <2> DEFINE none == <<>>
               s == (user \o <<"@">>) \o none
    <2>1. "@" \in T /\ none \in Seq(T)
      BY DEF Separators
    <2>2. s = u /\ Len(none) = 0
      BY <1>4, <1>6, ConcatEmptySeq
    <2> HIDE DEF none
    <2>3. Len(s) = Len(user) + 1 + Len(none) /\ Len(user) \in Nat /\ s[Len(user) + 1] = "@"
      BY <2>1, Joined
    <2>4. Before(s, Len(user) + 1) = user
      BY <2>1, Joined
    <2> HIDE DEF s
    <2>5. i = Len(user) + 1
      BY <1>2, <1>4, <2>3, <2>2
    <2>6. i \in 1..i /\ i # 0
      BY <2>3, <2>5
    <2>7. Before(text, i) = Before(u, i)
      <3>1. \A j \in 1..Len(text) : text[j] \in T
        BY <1>3
      <3>2. i \in 1..Len(text) /\ i \in 1..Len(u)
        BY <1>2, <1>4, <2>6
      <3>3. /\ Before(text, i) \in Seq(T) /\ Len(Before(text, i)) = i - 1
            /\ \A j \in 1..(i - 1) : Before(text, i)[j] = text[j]
        BY <3>2, Cut
      <3>4. /\ Before(u, i) \in Seq(T) /\ Len(Before(u, i)) = i - 1
            /\ \A j \in 1..(i - 1) : Before(u, i)[j] = u[j]
        BY <1>4, <3>2, Cut
      <3>5. \A j \in 1..(i - 1) : text[j] = u[j]
        BY <1>2, <1>4
      <3> QED
        BY <3>3, <3>4, <3>5, SeqEqual
    <2> QED
      BY <1>4, <2>3, <2>4, <2>2, <2>5, <2>6, <2>7
  <1>7. \/ i = 0 /\ m.login = <<>> /\ m.password = <<>>
        \/ /\ i # 0 /\ text[i] = "@"
           /\ \/ Before(text, i) = m.login /\ m.password = <<>>
              \/ Before(text, i) = x
    <2>1. CASE u = <<>> /\ m.login = <<>> /\ m.password = <<>>
      BY <1>4, <2>1, EmptySeq
    <2>2. CASE u = m.login \o <<"@">> /\ m.password = <<>>
      BY <1>6, <2>2
    <2>3. CASE u = x \o <<"@">>
      <3>1. ":" \in T
        BY DEF Separators
      <3>2. x \in Seq(T)
        BY <3>1, Joined
      <3> QED
        BY <1>6, <2>3, <3>2
    <2> QED
      BY <1>1, <2>1, <2>2, <2>3 DEF SpellsUser
  <1>8. LastIndexOf(text, "@") = i
    BY <1>2, <1>5, <1>7, HostFound
  <1>9. After(text, i) = hp
    BY DEF After
  <1>10. ~Contains(m.login, ":")
    BY <1>1 DEF SpellsUser
  <1> DEFINE user == Before(text, i)
             colon == IndexOf(user, ":")
  <1>11. /\ (IF colon = 0 THEN user ELSE Before(user, colon)) = m.login
         /\ (IF colon = 0 THEN <<>> ELSE After(user, colon)) = m.password
    <2>1. CASE i = 0 /\ m.login = <<>> /\ m.password = <<>>
      <3>1. user = <<>>
        BY <2>1, SubSeqEmpty DEF Before
      <3>2. IndexOf(<<>>, ":") = 0
        <4>1. ~Contains(<<>>, ":")
          BY DEF Contains
        <4> QED
          BY <4>1, EmptySeq, FirstFound
      <3> QED
        BY <2>1, <3>1, <3>2
    <2>2. CASE \/ user = m.login /\ m.password = <<>>
               \/ user = x
      BY <1>2, <1>10, <2>2, UserParsesBack
    <2> QED
      BY <1>7, <2>1, <2>2
  <1> HIDE DEF hp
  <1>12. /\ ParseConnString(text).login = (IF colon = 0 THEN user ELSE Before(user, colon))
         /\ ParseConnString(text).password = (IF colon = 0 THEN <<>> ELSE After(user, colon))
    BY <1>8 DEF ParseConnString, UserInfoEnd
  <1>13. /\ ParseConnString(text).host = SplitHostPort(hp).host
         /\ ParseConnString(text).port =
                (IF SplitHostPort(hp).host = <<>> THEN Invalid ELSE SplitHostPort(hp).port)
    BY <1>8, <1>9 DEF ParseConnString, UserInfoEnd
  <1>14. SplitHostPort(hp).host = m.host /\ SplitHostPort(hp).port = m.port
    BY <1>5 DEF HostPort
  <1> QED
    BY <1>5, <1>11, <1>12, <1>13, <1>14

-------------------------------------------------------------------------------
(* Only what spells something is accepted. *)

\* A port that is one is spelled by a colon and a numeral.
LEMMA PortAccepted ==
    ASSUME NEW T, Separators \subseteq T, NEW w \in Seq(T), ParsePort(w) # Invalid
    PROVE  ParsePort(w) \in 0..MaxPort /\ <<":">> \o w \in PortSpellings(ParsePort(w))
  <1>1. /\ Len(w) = 1 /\ w[1] \in DOMAIN Number /\ Number[w[1]] \in 1..MaxPort
        /\ ParsePort(w) = Number[w[1]]
    BY DEF ParsePort
  <1> DEFINE t == w[1]
  <1>2. t \in DOMAIN Number /\ Number[t] # 0 /\ Number[t] \in 0..MaxPort
    BY <1>1, PortsKnown
  <1>3. w = <<t>>
    <2>1. t \in T
      <3>1. 1 \in 1..Len(w)
        BY <1>1
      <3> QED
        BY <3>1, ElementOfSeq
    <2>2. <<t>> \in Seq(T) /\ Len(<<t>>) = 1 /\ <<t>>[1] = t
      BY <2>1
    <2>3. \A i \in 1..Len(w) : w[i] = <<t>>[i]
      BY <1>1, <2>2
    <2> HIDE DEF t
    <2> QED
      BY <1>1, <2>2, <2>3, SeqEqual
  <1> HIDE DEF t
  <1>4. <<":", t>> = <<":">> \o <<t>>
    OBVIOUS
  <1>5. <<":", t>> \in PortSpellings(Number[t])
    BY <1>2 DEF PortSpellings
  <1> QED
    BY <1>1, <1>2, <1>3, <1>4, <1>5 DEF t

\* A literal taken out of its brackets, and what is left after them.
LEMMA BracketsTaken ==
    ASSUME NEW T, Separators \subseteq T, NEW s \in Seq(T), s # <<>>, s[1] = "[",
           IndexOf(s, "]") # 0
    PROVE  LET end == IndexOf(s, "]")
               h == SubSeq(s, 2, end - 1)
           IN  /\ h \in Seq(T) /\ After(s, end) \in Seq(T) /\ ~Contains(h, "]")
               /\ s = ((<<"[">> \o h) \o <<"]">>) \o After(s, end)
  <1> DEFINE end == IndexOf(s, "]")
             h == SubSeq(s, 2, end - 1)
  <1>1. /\ end \in 1..Len(s) /\ Len(s) \in Nat /\ s[end] = "]"
        /\ \A j \in 1..Len(s) : s[j] = "]" => end <= j
    BY FirstFound
  <1> HIDE DEF end
  <1>2. end # 1
    BY <1>1
  <1>3. /\ Before(s, end) \in Seq(T) /\ After(s, end) \in Seq(T)
        /\ s = (Before(s, end) \o <<s[end]>>) \o After(s, end)
    BY <1>1, Cut
  <1>4. \A j \in 1..Len(s) : s[j] \in T
    BY ElementOfSeq
  <1>5. h \in Seq(T) /\ ~Contains(h, "]")
    <2>1. \A j \in 2..(end - 1) : s[j] \in T
      BY <1>1, <1>2, <1>4
    <2>2. /\ h \in Seq(T) /\ Len(h) = IF 2 <= end - 1 THEN (end - 1) - 2 + 1 ELSE 0
          /\ \A j \in 1..((end - 1) - 2 + 1) : h[j] = s[2 + j - 1]
      BY <1>1, <2>1, SubSeqProperties
    <2> HIDE DEF h
    <2>3. Len(h) = end - 2 /\ \A j \in 1..(end - 2) : h[j] = s[1 + j]
      BY <1>1, <1>2, <2>2
    <2>4. \A j \in 1..(end - 2) : s[1 + j] # "]"
      BY <1>1
    <2> QED
      BY <2>2, <2>3, <2>4 DEF Contains
  <1>6. Before(s, end) = <<"[">> \o h
    <2>1. 1 \in 1..Len(s) /\ end - 1 \in 1..Len(s) /\ end - 1 \in 1..(end - 1)
      BY <1>1, <1>2
    <2>2. SubSeq(s, 1, end - 1) = <<s[1]>> \o SubSeq(s, 1 + 1, end - 1)
      BY <2>1, SubSeqRecursiveFirst
    <2>3. s[1] = "[" /\ 1 + 1 = 2
      OBVIOUS
    <2> QED
      BY <2>2, <2>3 DEF Before
  <1> QED
    BY <1>1, <1>3, <1>5, <1>6 DEF end

LEMMA HostPortFields ==
    ASSUME NEW h, NEW p PROVE HostPort(h, p).host = h /\ HostPort(h, p).port = p
  BY DEF HostPort

\* The host part, by its shapes.
LEMMA HostAccepted ==
    ASSUME NEW T, Separators \cup DOMAIN Number \subseteq T,
           NEW s \in Seq(T), ~Contains(s, "@"), NEW m,
           m.host = SplitHostPort(s).host, m.port = SplitHostPort(s).port,
           m.host # <<>>, m.port # Invalid
    PROVE  m.host \in Seq(T) /\ m.port \in 0..MaxPort /\ SpellsHost(s, m)
  <1> DEFINE end == IndexOf(s, "]")
             colon == IndexOf(s, ":")
             last == LastIndexOf(s, ":")
  <1>1. <<>> \in PortSpellings(0) /\ 0 \in 0..MaxPort /\ Separators \subseteq T
    BY PortsKnown DEF PortSpellings
  <1>2. CASE s # <<>> /\ s[1] = "["
    <2> DEFINE h == SubSeq(s, 2, end - 1)
               rest == After(s, end)
               n == IF end = 0 THEN Invalid ELSE BracketedPort(rest)
    <2>1. SplitHostPort(s) = HostPort(h, n)
      BY <1>2 DEF SplitHostPort
    <2>2. end # 0 /\ m.host = h /\ m.port = BracketedPort(rest)
      <3> HIDE DEF h, n
      <3>1. m.host = h /\ m.port = n
        BY <2>1, HostPortFields
      <3> QED
        BY <3>1 DEF n
    <2>3. /\ h \in Seq(T) /\ rest \in Seq(T) /\ ~Contains(h, "]")
          /\ s = ((<<"[">> \o h) \o <<"]">>) \o rest
      BY <1>1, <1>2, <2>2, BracketsTaken
    <2> HIDE DEF h, rest, n
    <2>4. m.port \in 0..MaxPort /\ rest \in PortSpellings(m.port)
      <3>1. CASE rest = <<>>
        BY <1>1, <2>2, <3>1 DEF BracketedPort
      <3>2. CASE rest # <<>>
        <4>1. rest[1] = ":" /\ m.port = ParsePort(Tail(rest))
          BY <2>2, <3>2 DEF BracketedPort
        <4>2. Tail(rest) \in Seq(T)
          BY <2>3, <3>2, HeadTailProperties
        <4>3. rest = <<":">> \o Tail(rest)
          <5>1. Len(rest) \in Nat /\ Len(rest) # 0
            BY <2>3, <3>2, LenProperties, EmptySeq
          <5>2. SubSeq(rest, 1, Len(rest)) = <<rest[1]>> \o SubSeq(rest, 1 + 1, Len(rest))
            BY <2>3, <5>1, SubSeqRecursiveFirst
          <5>3. SubSeq(rest, 1, Len(rest)) = rest /\ Tail(rest) = SubSeq(rest, 2, Len(rest))
            BY <2>3, <3>2, SubSeqFull, TailIsSubSeq
          <5> QED
            BY <4>1, <5>2, <5>3
        <4>4. ParsePort(Tail(rest)) \in 0..MaxPort
              /\ <<":">> \o Tail(rest) \in PortSpellings(ParsePort(Tail(rest)))
          BY <1>1, <4>1, <4>2, PortAccepted
        <4> QED
          BY <4>1, <4>3, <4>4
      <3> QED
        BY <3>1, <3>2
    <2> QED
      BY <2>2, <2>3, <2>4 DEF SpellsHost
  <1>3. CASE ~(s # <<>> /\ s[1] = "[") /\ colon # 0 /\ colon = last
    <2>1. SplitHostPort(s) = HostPort(Before(s, colon), ParsePort(After(s, colon)))
      BY <1>3 DEF SplitHostPort
    <2>2. m.host = Before(s, colon) /\ m.port = ParsePort(After(s, colon))
      BY <2>1 DEF HostPort
    <2>3. colon \in 1..Len(s) /\ s[colon] = ":" /\ Len(s) \in Nat
      BY <1>3, FirstFound
    <2>4. ~Contains(Before(s, colon), ":")
      BY <1>3, CutApart
    <2> HIDE DEF colon
    <2>5. /\ Before(s, colon) \in Seq(T) /\ After(s, colon) \in Seq(T)
          /\ s = (Before(s, colon) \o <<s[colon]>>) \o After(s, colon)
          /\ Len(Before(s, colon)) = colon - 1
          /\ \A j \in 1..(colon - 1) : Before(s, colon)[j] = s[j]
      BY <2>3, Cut
    <2> DEFINE h == Before(s, colon)
               w == After(s, colon)
    <2>6. ParsePort(w) \in 0..MaxPort /\ <<":">> \o w \in PortSpellings(ParsePort(w))
      BY <1>1, <2>2, <2>5, PortAccepted
    <2>7. s = h \o (<<":">> \o w)
      <3>1. <<":">> \in Seq(T)
        BY <1>1 DEF Separators
      <3>2. h \in Seq(T) /\ w \in Seq(T) /\ s = (h \o <<":">>) \o w
        BY <2>3, <2>5
      <3> HIDE DEF h, w
      <3>3. (h \o <<":">>) \o w = h \o (<<":">> \o w)
        BY <3>1, <3>2, ConcatAssociative
      <3> QED
        BY <3>2, <3>3
    <2>8. h[1] # "["
      <3>1. Len(h) \in Nat /\ Len(h) # 0
        BY <2>2, <2>5, LenProperties, EmptySeq
      <3>2. 1 \in 1..(colon - 1) /\ s # <<>>
        BY <2>3, <2>5, <3>1, EmptySeq
      <3> QED
        BY <1>3, <2>5, <3>2
    <2> QED
      BY <2>2, <2>4, <2>5, <2>6, <2>7, <2>8 DEF SpellsHost
  <1>4. CASE ~(s # <<>> /\ s[1] = "[") /\ ~(colon # 0 /\ colon = last)
    <2>1. SplitHostPort(s) = HostPort(s, 0)
      BY <1>4 DEF SplitHostPort
    <2>2. m.host = s /\ m.port = 0 /\ s # <<>> /\ s[1] # "["
      BY <1>4, <2>1 DEF HostPort
    <2>3. CASE colon = 0
      <3>1. ~Contains(s, ":")
        BY <2>3, FirstFound
      <3>2. s = s \o <<>>
        BY ConcatEmptySeq
      <3> QED
        BY <1>1, <2>2, <3>1, <3>2 DEF SpellsHost
    <2>4. CASE colon # 0
      <3>1. colon \in 1..Len(s) /\ s[colon] = ":" /\ Contains(s, ":")
        BY <2>4, FirstFound
      <3>2. last \in 1..Len(s) /\ s[last] = ":"
        BY <3>1, LastFound
      <3>3. colon # last
        BY <1>4, <2>4
      <3>4. \E i, j \in 1..Len(s) : i # j /\ s[i] = ":" /\ s[j] = ":"
        BY <3>1, <3>2, <3>3
      <3> QED
        BY <1>1, <2>2, <3>4 DEF SpellsHost
    <2> QED
      BY <2>3, <2>4
  <1> QED
    BY <1>2, <1>3, <1>4

\* What a string is accepted as is what it spells.
LEMMA AcceptedMeans ==
    ASSUME NEW T, Separators \cup DOMAIN Number \subseteq T, NEW text \in Seq(T), NEW m,
           m.login = ParseConnString(text).login, m.password = ParseConnString(text).password,
           m.host = ParseConnString(text).host, m.port = ParseConnString(text).port,
           m.port # Invalid
    PROVE  /\ m.login \in Seq(T) /\ m.password \in Seq(T) /\ m.host \in Seq(T)
           /\ m.port \in 0..MaxPort /\ Spells(text, m)
  <1> DEFINE at == LastIndexOf(text, "@")
             user == Before(text, at)
             colon == IndexOf(user, ":")
             hp == After(text, at)
  <1>1. /\ m.login = (IF colon = 0 THEN user ELSE Before(user, colon))
        /\ m.password = (IF colon = 0 THEN <<>> ELSE After(user, colon))
    BY DEF ParseConnString, UserInfoEnd
  <1>2. /\ m.host = SplitHostPort(hp).host
        /\ m.port = (IF SplitHostPort(hp).host = <<>> THEN Invalid ELSE SplitHostPort(hp).port)
    BY DEF ParseConnString, UserInfoEnd
  <1>3. m.host # <<>> /\ m.port = SplitHostPort(hp).port
    BY <1>2
  <1>4. /\ at \in 0..Len(text) /\ Len(text) \in Nat
        /\ at = 0 => ~Contains(text, "@")
        /\ at # 0 => text[at] = "@" /\ ~Contains(hp, "@")
    BY LastFound, CutApart
  <1>5. Separators \subseteq T /\ ":" \in T /\ "@" \in T /\ <<>> \in Seq(T)
    BY DEF Separators
  <1>6. at = 0 => user = <<>> /\ hp = text
    <2> SUFFICES ASSUME at = 0 PROVE user = <<>> /\ hp = text
      OBVIOUS
    <2>1. SubSeq(text, 1, 0 - 1) = <<>>
      BY SubSeqEmpty
    <2>2. SubSeq(text, 0 + 1, Len(text)) = text
      BY SubSeqFull
    <2> QED
      BY <2>1, <2>2 DEF Before, After
  <1>7. at # 0 => /\ user \in Seq(T) /\ hp \in Seq(T) /\ at \in 1..Len(text)
                  /\ Len(user) = at - 1
    <2> SUFFICES ASSUME at # 0 PROVE user \in Seq(T) /\ hp \in Seq(T) /\ at \in 1..Len(text) /\ Len(user) = at - 1
      OBVIOUS
    <2>1. at \in 1..Len(text)
      BY <1>4
    <2> HIDE DEF at
    <2> QED
      BY <2>1, Cut
  <1>8. hp \in Seq(T) /\ user \in Seq(T) /\ ~Contains(hp, "@")
    BY <1>4, <1>5, <1>6, <1>7
  <1>9. m.host \in Seq(T) /\ m.port \in 0..MaxPort /\ SpellsHost(hp, m)
    <2> HIDE DEF hp
    <2> QED
      BY <1>2, <1>3, <1>8, HostAccepted
  <1>10. /\ m.login \in Seq(T) /\ m.password \in Seq(T) /\ ~Contains(m.login, ":")
         /\ \/ user = m.login /\ m.password = <<>>
            \/ user = (m.login \o <<":">>) \o m.password
    <2> HIDE DEF user
    <2>1. CASE colon = 0
      BY <1>1, <1>5, <1>8, <2>1, FirstFound
    <2>2. CASE colon # 0
      <3>1. colon \in 1..Len(user) /\ user[colon] = ":" /\ ~Contains(Before(user, colon), ":")
        BY <1>8, <2>2, FirstFound, CutApart
      <3> HIDE DEF colon
      <3>2. /\ Before(user, colon) \in Seq(T) /\ After(user, colon) \in Seq(T)
            /\ user = (Before(user, colon) \o <<user[colon]>>) \o After(user, colon)
        BY <1>8, <3>1, Cut
      <3> QED
        BY <1>1, <2>2, <3>1, <3>2
    <2> QED
      BY <2>1, <2>2
  <1>11. SpellsUser(SubSeq(text, 1, at), m)
    <2>1. CASE at = 0
      <3>1. SubSeq(text, 1, at) = <<>>
        BY <2>1, SubSeqEmpty
      <3>2. IndexOf(<<>>, ":") = 0
        <4>1. ~Contains(<<>>, ":")
          BY DEF Contains
        <4> QED
          BY <1>5, <4>1, FirstFound
      <3>3. m.login = <<>> /\ m.password = <<>>
        BY <1>1, <1>6, <2>1, <3>2
      <3> QED
        BY <1>10, <3>1, <3>3 DEF SpellsUser
    <2>2. CASE at # 0
      <3> HIDE DEF at
      <3>1. SubSeq(text, 1, at) = SubSeq(text, 1, at - 1) \o <<text[at]>>
        <4>1. 1 \in 1..Len(text) /\ at \in 1..Len(text)
          BY <1>4, <1>7, <2>2
        <4> QED
          BY <4>1, SubSeqRecursiveSecond
      <3>2. SubSeq(text, 1, at) = user \o <<"@">>
        BY <1>4, <2>2, <3>1 DEF Before
      <3> QED
        BY <1>10, <3>2 DEF SpellsUser
    <2> QED
      BY <2>1, <2>2
  <1>12. SubSeq(text, at + 1, Len(text)) = hp
    BY DEF After
  <1> HIDE DEF at, hp
  <1> QED
    BY <1>4, <1>9, <1>10, <1>11, <1>12 DEF Spells

LEMMA TokensKnown == Separators \cup DOMAIN Number \subseteq Token
  BY StartupAssumption DEF StartupAssumption, Token

\* The parser reads the documented grammar, and nothing else: a text of any length
\* means what it is parsed as, so it never means two things (README.md 44-62,
\* interactive.go 81-150).
THEOREM ParsedAsSpelled ==
    ASSUME NEW text \in Text, NEW m \in Meaning
    PROVE  Spells(text, m) <=> ParseConnString(text) = m
  <1>1. /\ m.login \in Seq(Token) /\ m.password \in Seq(Token) /\ m.host \in Seq(Token)
        /\ m.port \in 0..MaxPort /\ text \in Seq(Token)
        /\ m = [login |-> m.login, password |-> m.password, host |-> m.host, port |-> m.port]
    BY DEF Meaning, Text
  <1> DEFINE c == ParseConnString(text)
  <1>2. c = [login |-> c.login, password |-> c.password, host |-> c.host, port |-> c.port]
    BY DEF ParseConnString
  <1> HIDE DEF c
  <1>3. ASSUME Spells(text, m) PROVE c = m
    <2>1. c.login = m.login /\ c.password = m.password /\ c.host = m.host /\ c.port = m.port
      <3>1. /\ text \in Seq(Token) /\ Separators \cup DOMAIN Number \subseteq Token
            /\ m.login \in Seq(Token) /\ m.password \in Seq(Token) /\ m.host \in Seq(Token)
            /\ m.port \in 0..MaxPort
        BY <1>1, TokensKnown
      <3> QED
        BY <1>3, <3>1, ParsesBack DEF c
    <2> QED
      BY <1>1, <1>2, <2>1
  <1>4. ASSUME c = m PROVE Spells(text, m)
    <2>1. m.port # Invalid
      BY <1>1, PortsKnown, StartupAssumption DEF StartupAssumption
    <2> QED
      BY <1>1, <1>4, <2>1, TokensKnown, AcceptedMeans DEF c
  <1> QED
    BY <1>3, <1>4 DEF c

\* What is accepted has a meaning.
LEMMA AcceptedIsMeaning ==
    ASSUME NEW text \in Text, ParseConnString(text).port # Invalid
    PROVE  ParseConnString(text) \in Meaning
  <1> DEFINE c == ParseConnString(text)
  <1>1. c = [login |-> c.login, password |-> c.password, host |-> c.host, port |-> c.port]
    BY DEF ParseConnString
  <1> HIDE DEF c
  <1>2. /\ c.login \in Seq(Token) /\ c.password \in Seq(Token) /\ c.host \in Seq(Token)
        /\ c.port \in 0..MaxPort
    BY TokensKnown, AcceptedMeans DEF c, Text
  <1> QED
    BY <1>1, <1>2 DEF Meaning, Text, c

-------------------------------------------------------------------------------
(***************************************************************************)
(* A connection string is dialled as it was meant: what it says reaches    *)
(* the configuration, no prompt replaces it, and what it was parsed as is  *)
(* what it spells.                                                         *)
(***************************************************************************)
\* What there is of a field before it is asked for.
OnFile(f) == IF fileless THEN <<>> ELSE Source[f]

\* The credentials by the time of a step: the string's, or those it leaves out.
Login ==
    IF conn.login # <<>> THEN conn.login
    ELSE IF pc \in {"collect", "host", "port", "login"} THEN OnFile("login")
    ELSE Or(LeftOut("login"), <<"postmaster">>)
Password ==
    IF conn.password # <<>> THEN conn.password
    ELSE IF pc \in {"collect", "host", "port", "login", "password"} THEN OnFile("password")
    ELSE LeftOut("password")

\* From the override on, the configuration says what the connection string says,
\* and of the rest what the file says or what was typed.
ConnKept ==
    conn # Nothing =>
        /\ conn.host # <<>> /\ ~given.extra
        /\ pc = "override" =>
            cfg.login = OnFile("login") /\ cfg.password = OnFile("password")
        /\ pc \in Overridden \cup {"override"} /\ ~fileless =>
            Source.login # <<>> /\ Source.password # <<>>
        /\ pc \in Overridden =>
            /\ cfg.host = conn.host
            /\ cfg.password = Password
            /\ cfg.login = IF pc \in Collecting THEN Login ELSE QualifyLogin(Login, conn.host)

Meant == Typed /\ given \in Given /\ ConnKept

LEMMA InitMeant == Init => Meant
  BY InitTyped DEF Init, Meant, ConnKept

\* A prompt is passed if there is something in its field, and else fills it.
LEMMA PromptKeeps ==
    ASSUME Meant, PromptLogin \/ PromptSecret, conn # Nothing
    PROVE  ConnKept'
  <1>1. UNCHANGED <<given, conn, fileless>> /\ DOMAIN cfg = Fields /\ DOMAIN reply = Prompts
    BY DEF PromptLogin, PromptSecret, Prompt, Meant, Typed, Settled, Shape
  <1>2. \A f : Asks(f) => f # "port" /\ cfg[f] = <<>>
    BY DEF Asks, Full
  <1>3. \A f : OnFile(f)' = OnFile(f) /\ (~fileless => LeftOut(f)' = Source[f])
    BY <1>1 DEF OnFile, LeftOut, Source
  <1>4. /\ conn.host # <<>> /\ ~given.extra
        /\ ~fileless /\ pc # "failed" => Source.login # <<>> /\ Source.password # <<>>
        /\ cfg.host = conn.host /\ cfg.password = Password /\ cfg.login = Login
    BY DEF Meant, ConnKept, PromptLogin, PromptSecret, Prompt, Overridden, Collecting, Prompts
  <1>5. CASE pc' = "failed"
    BY <1>1, <1>4, <1>5 DEF ConnKept, Overridden, Collecting, Prompts
  <1>6. CASE PromptLogin /\ pc' # "failed"
    <2>1. pc = "login" /\ pc' = "password"
      BY <1>6 DEF PromptLogin, Prompt
    <2>2. cfg'.host = cfg.host /\ cfg'.password = cfg.password /\ Password' = Password
      <3>1. cfg'.host = cfg.host /\ cfg'.password = cfg.password
        BY <1>1, <1>6, FieldsKnown DEF PromptLogin, Prompt
      <3> QED
        BY <1>1, <1>3, <2>1, <3>1 DEF Password
    <2>3. cfg'.login = Login'
      <3>1. cfg.login = IF conn.login # <<>> THEN conn.login ELSE OnFile("login")
        BY <1>4, <2>1 DEF Login
      <3>2. CASE cfg.login # <<>>
        <4>1. UNCHANGED <<cfg, reply>>
          BY <1>2, <1>6, <3>2 DEF PromptLogin, Prompt
        <4>2. conn.login = <<>> => ~fileless /\ cfg.login = Source.login
          BY <3>1, <3>2 DEF OnFile
        <4> QED
          BY <1>1, <1>3, <2>1, <3>1, <3>2, <4>1, <4>2 DEF Login, Or
      <3>3. CASE cfg.login = <<>>
        <4>1. conn.login = <<>> /\ fileless
          BY <1>4, <2>1, <3>1, <3>3 DEF OnFile
        <4>2. Asks("login")
          BY <3>3 DEF Asks
        <4>3. PICK r \in Replies : /\ cfg' = [cfg EXCEPT !["login"] = Or(r, Or(cfg.login, <<"postmaster">>))]
                                   /\ reply' = [reply EXCEPT !["login"] = r]
          BY <1>6, <2>1, <4>2 DEF PromptLogin, Prompt
        <4>4. cfg'.login = Or(r, <<"postmaster">>) /\ reply'["login"] = r
          BY <1>1, <3>3, <4>3, FieldsKnown DEF Or, Prompts
        <4> QED
          BY <1>1, <2>1, <4>1, <4>4 DEF Login, LeftOut
      <3> QED
        BY <3>2, <3>3
    <2> QED
      BY <1>1, <1>3, <1>4, <2>1, <2>2, <2>3 DEF ConnKept, Overridden, Collecting, Prompts, Source
  <1>7. CASE PromptSecret /\ pc' # "failed"
    <2>1. pc = "password" /\ pc' = "qualify"
      BY <1>7 DEF PromptSecret, Prompt
    <2>2. cfg'.host = cfg.host /\ cfg'.login = cfg.login /\ Login' = Login
      <3>1. cfg'.host = cfg.host /\ cfg'.login = cfg.login /\ reply'["login"] = reply["login"]
        BY <1>1, <1>7, FieldsKnown DEF PromptSecret, Prompt, Prompts
      <3> QED
        BY <1>1, <2>1, <3>1 DEF Login, LeftOut, Source
    <2>3. cfg'.password = Password'
      <3>1. cfg.password = IF conn.password # <<>> THEN conn.password ELSE OnFile("password")
        BY <1>4, <2>1 DEF Password
      <3>2. CASE cfg.password # <<>>
        <4>1. UNCHANGED <<cfg, reply>>
          BY <1>2, <1>7, <3>2 DEF PromptSecret, Prompt
        <4>2. conn.password = <<>> => ~fileless /\ cfg.password = Source.password
          BY <3>1, <3>2 DEF OnFile
        <4> QED
          BY <1>1, <1>3, <2>1, <3>1, <4>1, <4>2 DEF Password
      <3>3. CASE cfg.password = <<>>
        <4>1. conn.password = <<>> /\ fileless
          BY <1>4, <2>1, <3>1, <3>3 DEF OnFile
        <4>2. Asks("password")
          BY <3>3 DEF Asks
        <4>3. PICK r \in Replies : /\ cfg' = [cfg EXCEPT !["password"] = r]
                                   /\ reply' = [reply EXCEPT !["password"] = r]
          BY <1>7, <2>1, <4>2 DEF PromptSecret, Prompt
        <4>4. cfg'.password = r /\ reply'["password"] = r
          BY <1>1, <4>3, FieldsKnown DEF Prompts
        <4> QED
          BY <1>1, <2>1, <4>1, <4>4 DEF Password, LeftOut
      <3> QED
        BY <3>2, <3>3
    <2> QED
      BY <1>1, <1>3, <1>4, <2>1, <2>2, <2>3 DEF ConnKept, Overridden, Collecting, Prompts, Source
  <1> QED
    BY <1>5, <1>6, <1>7

LEMMA StepMeant == Meant /\ [Next]_vars => Meant'
  <1> SUFFICES ASSUME Meant, [Next]_vars PROVE Meant'
    OBVIOUS
  <1>0. given' = given
    BY DEF Next, ParseArgument, Load, Override, Collect, PromptHost, PromptPort, PortFails,
           PromptLogin, PromptSecret, Prompt, Qualify, Resolve, Started, vars
  <1> SUFFICES ASSUME conn' # Nothing PROVE ConnKept'
    BY <1>0, StepTyped DEF Meant, ConnKept
  <1>a. DOMAIN cfg = Fields
    BY DEF Meant, Typed, Settled, Shape
  <1>b. Source' = Source
    BY <1>0 DEF Source
  <1>1. CASE ParseArgument
    <2>1. pc' \notin Overridden \cup {"override"} /\ pc = "parse"
      BY <1>1 DEF ParseArgument, Overridden, Collecting, Prompts
    <2>2. conn'.host # <<>> /\ ~given.extra
      <3>1. CASE UNCHANGED conn
        BY <3>1, <2>1 DEF Meant, ConnKept
      <3>2. CASE conn' = ParseConnString(given.arg.text) /\ ParseConnString(given.arg.text).port # Invalid
                 /\ ~given.extra
        <4>1. ParseConnString(given.arg.text).host # <<>>
          BY <3>2 DEF ParseConnString
        <4> QED
          BY <3>2, <4>1
      <3> QED
        BY <1>1, <3>1, <3>2 DEF ParseArgument
    <2> QED
      BY <1>0, <2>1, <2>2 DEF ConnKept
  <1>2. CASE Load
    <2>1. pc = "load" /\ pc' \in {"override", "failed"} /\ UNCHANGED conn
      BY <1>2 DEF Load
    <2>2. conn.host # <<>> /\ ~given.extra
      BY <2>1 DEF Meant, ConnKept
    <2>3. CASE pc' = "override"
      <3>1. CASE fileless' = TRUE /\ UNCHANGED cfg
        <4>1. cfg = StandaloneConfig
          BY <2>1 DEF Meant, Typed, Settled, Loaded
        <4>2. cfg'.login = <<>> /\ cfg'.password = <<>>
          BY <3>1, <4>1 DEF StandaloneConfig
        <4>3. OnFile("login")' = <<>> /\ OnFile("password")' = <<>>
          BY <3>1 DEF OnFile
        <4> QED
          BY <1>0, <2>1, <2>2, <2>3, <3>1, <4>2, <4>3 DEF ConnKept, Overridden, Collecting, Prompts
      <3>2. CASE fileless' = FALSE /\ Valid(Source) /\ cfg' = [f \in Fields |-> Source[f]]
        <4>1. cfg'.login = Source.login /\ cfg'.password = Source.password
          BY <3>2, FieldsKnown
        <4>2. OnFile("login")' = Source.login /\ OnFile("password")' = Source.password
          BY <1>b, <3>2 DEF OnFile
        <4>3. Source.login # <<>> /\ Source.password # <<>>
          BY <3>2 DEF Valid
        <4> QED
          BY <1>0, <1>b, <2>1, <2>2, <2>3, <4>1, <4>2, <4>3 DEF ConnKept, Overridden, Collecting, Prompts
      <3>3. fileless = FALSE
        BY <2>1 DEF Meant, Typed, Settled, Loaded
      <3> QED
        BY <1>2, <2>3, <3>1, <3>2, <3>3 DEF Load, Fields
    <2> QED
      BY <1>0, <2>1, <2>2, <2>3 DEF ConnKept, Overridden, Collecting, Prompts
  <1>3. CASE Override
    <2>1. /\ pc = "override" /\ UNCHANGED <<conn, fileless, reply>> /\ conn # Nothing
          /\ pc' = "collect" /\ "collect" \in Collecting
      BY <1>3 DEF Override, Collecting
    <2>2. /\ cfg'.host = conn.host
          /\ cfg'.password = IF conn.password # <<>> THEN conn.password ELSE cfg.password
          /\ cfg'.login = IF conn.login # <<>> THEN conn.login ELSE cfg.login
      BY <1>a, <1>3, <2>1, FieldsKnown DEF Override, WithConn
    <2>3. cfg.login = OnFile("login") /\ cfg.password = OnFile("password")
      BY <2>1 DEF Meant, ConnKept
    <2>4. \A f : OnFile(f)' = OnFile(f)
      BY <1>b, <2>1 DEF OnFile
    <2>5. cfg'.password = Password' /\ cfg'.login = Login'
      BY <2>1, <2>2, <2>3, <2>4 DEF Login, Password
    <2> QED
      BY <1>0, <1>b, <2>1, <2>2, <2>5 DEF Meant, ConnKept
  <1>4. CASE Collect \/ PortFails \/ PromptHost \/ PromptPort
    <2>1. /\ pc \in {"collect", "host", "port"} /\ pc' \in {"host", "port", "login", "failed"}
          /\ UNCHANGED <<conn, fileless>>
      BY <1>4 DEF Collect, PortFails, PromptHost, PromptPort, Prompt
    <2>2. pc' = "failed" \/ UNCHANGED cfg
      <3>1. conn.host # <<>> /\ cfg.host = conn.host
        BY <2>1 DEF Meant, ConnKept, Overridden, Collecting, Prompts
      <3>2. ~Asks("host") /\ ~Asks("port")
        BY <2>1, <3>1 DEF Asks, Full
      <3> QED
        BY <1>4, <3>2 DEF Collect, PortFails, PromptHost, PromptPort, Prompt
    <2>3. \A f : OnFile(f)' = OnFile(f)
      BY <1>b, <2>1 DEF OnFile
    <2>4. pc' # "failed" => Login' = Login /\ Password' = Password
      BY <2>1, <2>3 DEF Login, Password
    <2> QED
      BY <1>0, <1>b, <2>1, <2>2, <2>4 DEF Meant, ConnKept, Overridden, Collecting, Prompts
  <1>5. CASE PromptLogin \/ PromptSecret
    <2>1. conn # Nothing
      BY <1>5 DEF PromptLogin, PromptSecret, Prompt
    <2> QED
      BY <1>5, <2>1, PromptKeeps
  <1>6. CASE Qualify
    <2>1. /\ pc = "qualify" /\ pc' \in {"failed", "resolve"} /\ UNCHANGED <<conn, fileless, reply>>
          /\ cfg'.host = cfg.host /\ cfg'.password = cfg.password
          /\ cfg'.login = QualifyLogin(cfg.login, cfg.host)
      BY <1>a, <1>6, FieldsKnown DEF Qualify
    <2>2. Login' = Login /\ Password' = Password
      BY <1>b, <2>1 DEF Login, Password, LeftOut
    <2>3. cfg.host = conn.host /\ cfg.login = Login /\ cfg.password = Password
      BY <2>1 DEF Meant, ConnKept, Overridden, Collecting
    <2>4. QualifyLogin(cfg.login, cfg.host) = QualifyLogin(Login', conn'.host)
      BY <2>1, <2>2, <2>3
    <2> QED
      BY <1>0, <1>b, <2>1, <2>2, <2>3, <2>4 DEF Meant, ConnKept, Overridden, Collecting, Prompts
  <1>7. CASE Resolve
    <2>1. /\ pc = "resolve" /\ pc' \in {"dialling", "failed"} /\ UNCHANGED <<conn, cfg, fileless, reply>>
      BY <1>7 DEF Resolve
    <2>2. Login' = Login /\ Password' = Password
      BY <1>b, <2>1 DEF Login, Password, LeftOut
    <2> QED
      BY <1>0, <1>b, <2>1, <2>2 DEF Meant, ConnKept, Overridden, Collecting, Prompts
  <1>8. CASE UNCHANGED vars
    <2>1. UNCHANGED <<pc, conn, cfg, fileless, reply, given>>
      BY <1>8 DEF vars
    <2>2. Login' = Login /\ Password' = Password
          /\ OnFile("login")' = OnFile("login") /\ OnFile("password")' = OnFile("password")
      BY <1>b, <2>1 DEF Login, Password, LeftOut, OnFile
    <2> QED
      BY <1>b, <2>1, <2>2 DEF Meant, ConnKept
  <1> QED
    BY <1>1, <1>2, <1>3, <1>4, <1>5, <1>6, <1>7, <1>8 DEF Next, Started

\* What an accepted string was parsed as is what was meant by it.
LEMMA ParsedAsMeant ==
    ASSUME Documented, Meant, conn # Nothing
    PROVE  LET m == given.arg.meant IN
           /\ m # Nothing
           /\ conn.login = m.login /\ conn.password = m.password
           /\ conn.host = m.host /\ conn.port = m.port
  <1> DEFINE m == given.arg.meant
             text == given.arg.text
  <1>1. given.arg # Nothing /\ conn = ParseConnString(text) /\ conn.port # Invalid
    BY DEF Meant, Typed, ConnParsed
  <1>2. /\ text \in Text
        /\ m # Nothing => m \in Meaning /\ Spells(text, m)
        /\ m = Nothing => \A any \in Meaning : ~Spells(text, any)
    BY <1>1 DEF Documented, Meant
  <1> HIDE DEF m, text
  <1>3. conn \in Meaning
    BY <1>1, <1>2, AcceptedIsMeaning
  <1>4. m # Nothing
    BY <1>1, <1>2, <1>3, ParsedAsSpelled
  <1>5. conn = m
    BY <1>1, <1>2, <1>4, ParsedAsSpelled
  <1> QED
    BY <1>4, <1>5 DEF m

\* What the operator means by a connection string is what is dialled, for every
\* string of every length and whatever files, flags and answers go with it: the
\* splits at "@", ":" and the brackets find each part again, and nothing the
\* string says is replaced later (interactive.go 81-150 and 156-223, main.go 169-235).
THEOREM StringsAreDialledAsMeant ==
    ASSUME Documented PROVE Spec => []DialledAsMeant
  <1>1. Meant => DialledAsMeant
    <2> SUFFICES ASSUME Meant, pc = "dialling", conn # Nothing PROVE DialledAsMeant
      BY DEF DialledAsMeant
    <2>1. /\ given.arg.meant # Nothing
          /\ conn.login = given.arg.meant.login /\ conn.password = given.arg.meant.password
          /\ conn.host = given.arg.meant.host /\ conn.port = given.arg.meant.port
      BY ParsedAsMeant
    <2>2. "dialling" \in Overridden /\ "dialling" \notin Collecting
      BY DEF Overridden, Collecting, Prompts
    <2>3. /\ ~given.extra /\ cfg.host = conn.host
          /\ cfg.password = IF conn.password # <<>> THEN conn.password ELSE LeftOut("password")
          /\ cfg.login = QualifyLogin(
                 IF conn.login # <<>> THEN conn.login ELSE Or(LeftOut("login"), <<"postmaster">>),
                 conn.host)
      <3>1. cfg.password = Password /\ cfg.login = QualifyLogin(Login, conn.host)
        BY <2>2 DEF Meant, ConnKept
      <3> QED
        BY <2>2, <3>1 DEF Meant, ConnKept, Login, Password
    <2>4. /\ port = IF conn.port # 0 THEN conn.port ELSE DefaultPort(Transport)
          /\ cfg.tls = Transport
      BY <2>2 DEF Meant, Typed, Settled, TransportSettled, PortSettled, Dialled, PortFor
    <2> QED
      BY <2>1, <2>3, <2>4 DEF DialledAsMeant
  <1>2. Spec => []Meant
    BY InitMeant, StepMeant, PTL DEF Spec
  <1> QED
    BY <1>1, <1>2, PTL
===============================================================================
