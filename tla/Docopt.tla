------------------------------- MODULE Docopt -------------------------------
(***************************************************************************)
(* The command line: what docopt (src/include/docopt.cpp) makes of an      *)
(* argument vector and of a usage pattern.                                 *)
(*                                                                         *)
(* A token of the command line is a record: its text; its kind, "long"     *)
(* (--name or --name=val), "short" (-xy), "dashes" (--) or "word"; the     *)
(* option names it holds, one for a long token, one per letter for a short *)
(* one; and the text behind "=", as a sequence of at most one text.        *)
(***************************************************************************)
EXTENDS Naturals, SequencesExt, FiniteSets

CONSTANTS
  Abbreviates  \* pairs of option names: the first is a proper prefix of the second

Empty == [is |-> "Empty"]

Bool(b) == [is |-> "Bool", bool |-> b]

EmptyText == ""

String(text) == [is |-> "String", text |-> text]

\* Option::parse and the constructor of Option: a line of the option section,
\* with the key and the text of the bracket in its description.  Only a
\* bracket [default: text] gives an option with an argument a value.
OptionOf(line) ==
  [short |-> line.short,
   long  |-> line.long,
   args  |-> line.args,
   value |-> IF line.args = 0 THEN Bool(FALSE)
             ELSE IF line.key = "default" THEN String(line.val) ELSE Empty]

NameOf(option) == IF option.long = EmptyText THEN option.short ELSE option.long

Option(option, value) == [is |-> "Option", name |-> NameOf(option), value |-> value]

Argument(text) == [is |-> "Argument", name |-> EmptyText, value |-> String(text)]

-----------------------------------------------------------------------------
(***************************************************************************)
(* parse_argv: reading the tokens, one turn of its loop, or of the loop of *)
(* parse_short, at a time.  A reading is a record of the tokens still to   *)
(* come, the letters still to come of a token of short options, the        *)
(* options known so far (those of the usage text and those made up for     *)
(* unknown names), what has been found, and whether an OptionError was     *)
(* thrown.                                                                 *)
(***************************************************************************)
Reading(argv, options) ==
  [rest |-> argv, letters |-> <<>>, options |-> options, found |-> <<>>, failed |-> FALSE]

Fail(r) == [r EXCEPT !.failed = TRUE]

Found(r, rest, items) == [r EXCEPT !.rest = rest, !.found = @ \o items]

\* An option that no line describes is made up, without an argument unless one is given.
MadeUp(r, rest, short, long, val) ==
  LET line   == [short |-> short, long |-> long, args |-> Len(val),
                 key |-> EmptyText, val |-> EmptyText]
      option == OptionOf(line)
      value  == IF val = <<>> THEN Bool(TRUE) ELSE String(val[1])
  IN  [Found(r, rest, <<Option(option, value)>>) EXCEPT !.options = Append(@, option)]

\* A token that may be taken as the argument of the option before it.
MayBeArgument(rest) == rest # <<>> /\ Head(rest).text # EmptyText /\ Head(rest).kind # "dashes"

\* Where the options are that a name stands for: that name's, or else all it is a prefix of.
Similar(options, name) ==
  LET exact == {i \in DOMAIN options : options[i].long = name}
      longer == {i \in DOMAIN options : <<name, options[i].long>> \in Abbreviates}
  IN  IF exact # {} THEN exact ELSE longer

\* parse_long
ParseLong(r) ==
  LET token   == Head(r.rest)
      rest    == Tail(r.rest)
      similar == Similar(r.options, token.names[1])
      count   == Cardinality(similar)
      option  == r.options[CHOOSE i \in similar : TRUE]
  IN  CASE count > 1 -> Fail(r)
        [] count = 0 -> MadeUp(r, rest, EmptyText, token.names[1], token.val)
        [] count = 1 /\ option.args = 0 /\ token.val # <<>> -> Fail(r)
        [] count = 1 /\ option.args = 0 /\ token.val = <<>> ->
             Found(r, rest, <<Option(option, Bool(TRUE))>>)
        [] count = 1 /\ option.args > 0 /\ token.val # <<>> ->
             Found(r, rest, <<Option(option, String(token.val[1]))>>)
        [] count = 1 /\ option.args > 0 /\ token.val = <<>> ->
             IF MayBeArgument(rest)
             THEN Found(r, Tail(rest), <<Option(option, String(Head(rest).text))>>)
             ELSE Fail(r)

\* One letter of parse_short, for an option without an argument: the usage
\* text of this program describes no short option.
ParseLetter(r) ==
  LET letter  == Head(r.letters)
      after   == [r EXCEPT !.letters = Tail(@)]
      similar == SelectInSeq(r.options, LAMBDA o : o.short = letter)
  IN  IF similar = 0 THEN MadeUp(after, r.rest, letter, EmptyText, <<>>)
      ELSE Found(after, r.rest, <<Option(r.options[similar], Bool(TRUE))>>)

\* One turn of the loop of parse_argv.  After "--" all tokens, it included, are arguments.
ParseToken(r) ==
  LET token == Head(r.rest)
  IN  CASE token.kind = "dashes" ->
             Found(r, <<>>, [i \in DOMAIN r.rest |-> Argument(r.rest[i].text)])
        [] token.kind = "long"  -> ParseLong(r)
        [] token.kind = "short" -> [r EXCEPT !.rest = Tail(@), !.letters = token.names]
        [] token.kind = "word"  -> Found(r, Tail(r.rest), <<Argument(token.text)>>)

ParseNext(r) == IF r.letters # <<>> THEN ParseLetter(r) ELSE ParseToken(r)

\* isOptionSet, for the special options of extras
IsOptionSet(found, names) ==
  \E i \in DOMAIN found : found[i].name \in names /\ found[i].value.is # "Empty"

-----------------------------------------------------------------------------
(***************************************************************************)
(* Matching the items that were found with a pattern.  An outcome is what  *)
(* is left of the items, what has been collected and whether the pattern   *)
(* matched.  A pattern is an operator from an outcome to an outcome: the   *)
(* leaves first, then what the branches make of their children's outcomes. *)
(***************************************************************************)
Outcome(left, collected) == [left |-> left, collected |-> collected, matched |-> TRUE]

NoMatch(o) == [o EXCEPT !.matched = FALSE]

\* LeafPattern::match with the single_match of Option.
MatchOption(name, o) ==
  LET i == SelectInSeq(o.left, LAMBDA item : item.name = name)
  IN  IF i = 0 THEN NoMatch(o)
      ELSE Outcome(RemoveAt(o.left, i),
                   Append(o.collected, [name |-> name, value |-> o.left[i].value]))

\* LeafPattern::match with the single_match of Command: only the first argument counts.
MatchCommand(name, o) ==
  LET i == SelectInSeq(o.left, LAMBDA item : item.is = "Argument")
  IN  IF i = 0 \/ (i > 0 /\ o.left[i].value # String(name)) THEN NoMatch(o)
      ELSE Outcome(RemoveAt(o.left, i), Append(o.collected, [name |-> name, value |-> Bool(TRUE)]))

\* Optional::match and OptionsShortcut, whose children are options: each may match or not.
MatchOptions(names, o) ==
  LET after[i \in 0 .. Len(names)] ==
        IF i = 0 THEN o
        ELSE LET next == MatchOption(names[i], after[i - 1])
             IN  IF next.matched THEN next ELSE after[i - 1]
  IN  after[Len(names)]

\* Required::match, after the last of its children that was asked: all or nothing.
MatchRequired(last, o) == IF last.matched THEN last ELSE NoMatch(o)

\* Mutation: the first outcome is taken.
FirstOutcome(outcomes, matched) == outcomes[Min(matched)]

\* Of the outcomes that matched the first with the fewest items left.
LeastLeft(outcomes, matched) ==
  LET best == CHOOSE i \in matched :
                /\ \A j \in matched : Len(outcomes[i].left) <= Len(outcomes[j].left)
                /\ \A j \in matched : j < i => Len(outcomes[j].left) > Len(outcomes[i].left)
  IN  outcomes[best]

\* Either::match, after all of its children.
MatchEither(outcomes, o) ==
  LET matched == {i \in DOMAIN outcomes : outcomes[i].matched}
  IN  IF matched = {} THEN NoMatch(o) ELSE LeastLeft(outcomes, matched)

=============================================================================
