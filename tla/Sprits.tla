------------------------------- MODULE Sprits -------------------------------
(***************************************************************************)
(* The program from its command line on: docopt reads the arguments        *)
(* (Docopt) and main acts on them (Lifecycle).                             *)
(***************************************************************************)
EXTENDS Docopt, Lifecycle

CONSTANTS
  Tokens,    \* tokens that a command line may hold
  MaxTokens  \* bound: tokens of a command line

VARIABLES
  argv,     \* the command line, forgotten when main has its options
  reading   \* the reading of it by docopt

parser == <<argv, reading>>

Flag(name) == [short |-> EmptyText, long |-> name, args |-> 0, key |-> EmptyText, val |-> EmptyText]

\* The one line whose description has a bracket: "[default port: 9002]".
PortLine ==
  [short |-> EmptyText, long |-> "--websocket", args |-> 1, key |-> "default port", val |-> "9002"]

\* The option section of USAGE.
OptionLines ==
  << Flag("--help"), Flag("--crop"), Flag("--debug"), Flag("--record"), Flag("--tuio"),
     Flag("--verbose"), PortLine, Flag("--version") >>

Documented == {OptionLines[i].long : i \in DOMAIN OptionLines}

\* What the constants stand for: a long token has one name, a short token at
\* least one letter, and a camera's name is a word.
ASSUME TokenAssumption ==
  \A token \in Tokens :
    /\ token \in [text : Texts, kind : {"long", "short", "dashes", "word"},
                  names : Seq(STRING), val : {<<>>} \cup {<<t>> : t \in Texts}]
    /\ token.kind = "long" => Len(token.names) = 1
    /\ token.kind = "short" =>
         /\ token.names # <<>>
         /\ \A i \in DOMAIN token.names : token.names[i] \notin Documented \cup {EmptyText}
    /\ token.text \in Cameras => token.kind = "word"

ASSUME MaxTokensAssumption == MaxTokens \in Nat

Options == [i \in DOMAIN OptionLines |-> OptionOf(OptionLines[i])]

\* The two lines of the usage section: any options, or any options and a camera.
MatchUsage(o) ==
  LET names    == [i \in DOMAIN Options |-> NameOf(Options[i])]
      plain    == MatchOptions(names, o)
      cameras  == <<MatchCommand("OpenNI", plain), MatchCommand("VideoStream", plain)>>
      chosen   == MatchRequired(MatchEither(cameras, plain), o)
  IN  MatchRequired(MatchEither(<<plain, chosen>>, o), o)

\* The values of all options and commands: those of the usage text, then those collected.
Values(collected) ==
  LET names == {NameOf(Options[i]) : i \in DOMAIN Options} \cup Cameras
      value(name) ==
        LET i == SelectLastInSeq(collected, LAMBDA item : item.name = name)
            j == SelectInSeq(Options, LAMBDA o : NameOf(o) = name)
        IN  IF i > 0 THEN collected[i].value ELSE IF j > 0 THEN Options[j].value ELSE Bool(FALSE)
  IN  [name \in names |-> value(name)]

\* What main takes from them.
ReadArgs(values) ==
  [camera    |-> IF values["OpenNI"].bool THEN "OpenNI" ELSE "VideoStream",
   crop      |-> values["--crop"].bool,
   tuio      |-> values["--tuio"].bool,
   websocket |-> IF values["--websocket"] = Empty THEN <<>> ELSE <<values["--websocket"].text>>]

NoArgs == [camera |-> "VideoStream", crop |-> FALSE, tuio |-> FALSE, websocket |-> <<>>]

SpritsInit ==
  /\ argv \in BoundedSeq(Tokens, MaxTokens)
  /\ reading = Reading(argv, Options)
  /\ pc = "parse" /\ args = NoArgs /\ NothingBuilt

-----------------------------------------------------------------------------
Parsing == pc = "parse"

AllRead == reading.rest = <<>> /\ reading.letters = <<>>

\* One turn of the loop of parse_argv, or of parse_short
ReadToken ==
  /\ Parsing /\ ~reading.failed /\ ~AllRead
  /\ reading' = ParseNext(reading)
  /\ UNCHANGED <<argv, vars>>

\* docopt prints and exits: after an error, or when help or the version is asked for.
Special == IsOptionSet(reading.found, {"-h", "--help", "--version"})

Matched == MatchUsage(Outcome(reading.found, <<>>))

Accepted == ~Special /\ Matched.matched /\ Matched.left = <<>>

Read == Parsing /\ (reading.failed \/ AllRead)

PrintUsage ==
  /\ Read /\ (reading.failed \/ ~Accepted)
  /\ pc' = "usage"
  /\ UNCHANGED <<parser, args, error, todo, port, objectVars, tableVars, cropping, streams, frame,
                 stop, logger>>

TakeArguments ==
  /\ Read /\ ~reading.failed /\ Accepted
  /\ pc' = "camera"
  /\ args' = ReadArgs(Values(Matched.collected))
  /\ cropping' = args'.crop
  /\ argv' = <<>> /\ reading' = Reading(<<>>, <<>>)
  /\ UNCHANGED <<error, todo, port, objectVars, tableVars, streams, frame, stop, logger>>

SpritsNext ==
  \/ ReadToken \/ PrintUsage \/ TakeArguments
  \/ Next /\ UNCHANGED parser

SpritsSpec == SpritsInit /\ [][SpritsNext]_<<vars, parser>>

FairSpritsSpec == SpritsSpec /\ Fairness

-----------------------------------------------------------------------------
(***************************************************************************)
(* Properties                                                              *)
(***************************************************************************)
\* The documented options that a name on the command line stands for.
Means(name) ==
  IF name \in Documented THEN {name} ELSE {n \in Documented : <<name, n>> \in Abbreviates}

\* The token at i stands for one option, and which; it is open when the option
\* takes an argument and the token has none.
NamesOption(i) == argv[i].kind = "long" /\ Cardinality(Means(argv[i].names[1])) = 1

OptionAt(i) == CHOOSE n \in Means(argv[i].names[1]) : TRUE

Open(i) == NamesOption(i) /\ OptionAt(i) = "--websocket" /\ argv[i].val = <<>>

\* A command line as the usage text has it: tokens at the positions V are
\* arguments of the option before them, all others are options, none twice
\* or without its argument, and at most one camera.
WellFormed(V) ==
  LET own == DOMAIN argv \ V
  IN  /\ V = {i \in DOMAIN argv : i - 1 \in own /\ Open(i - 1)}
      /\ \A i \in V : argv[i].text # EmptyText /\ argv[i].kind # "dashes"
      /\ \A i \in own :
           \/ /\ NamesOption(i) /\ OptionAt(i) \notin {"--help", "--version"}
              /\ OptionAt(i) # "--websocket" => argv[i].val = <<>>
              /\ Open(i) => i + 1 \in V
              /\ \A j \in own \ {i} : NamesOption(j) => OptionAt(j) # OptionAt(i)
           \/ /\ argv[i].text \in Cameras
              /\ \A j \in own \ {i} : argv[j].text \notin Cameras

\* What a well-formed command line says.
Meaning(V) ==
  LET own == DOMAIN argv \ V
      given(n) == {i \in own : argv[i].kind = "long" /\ n \in Means(argv[i].names[1])}
      value(i) == IF argv[i].val = <<>> THEN argv[i + 1].text ELSE argv[i].val[1]
  IN  [camera    |-> IF \E i \in own : argv[i].text = "OpenNI" THEN "OpenNI" ELSE "VideoStream",
       crop      |-> given("--crop") # {},
       tuio      |-> given("--tuio") # {},
       websocket |-> IF given("--websocket") = {} THEN <<>>
                     ELSE <<value(CHOOSE i \in given("--websocket") : TRUE)>>]

\* docopt takes exactly the command lines that the usage text describes, and
\* main acts on what they say.
ParserAgrees ==
  Read =>
    LET readings == {V \in SUBSET DOMAIN argv : WellFormed(V)}
    IN  /\ (~reading.failed /\ Accepted) <=> readings # {}
        /\ \A V \in readings : ReadArgs(Values(Matched.collected)) = Meaning(V)

\* The usage text: "Enable Websocket publisher [default port: 9002]".  A run
\* that does not say otherwise does not fail for its port.
DefaultPortIsUsed == error = "port" => args.websocket # <<>>

=============================================================================
