------------------------------ MODULE MCSprits ------------------------------
(***************************************************************************)
(* Sprits for TLC: the tokens a command line is made of.                   *)
(***************************************************************************)
EXTENDS Sprits, TLC

Long(text, name, val) == [text |-> text, kind |-> "long", names |-> <<name>>, val |-> val]

Plain(text, kind, names) == [text |-> text, kind |-> kind, names |-> names, val |-> <<>>]

\* Options in full, abbreviated, ambiguous (--ver) and unknown, with and
\* without an argument; both cameras; numbers, one of them like an option, the
\* empty text and "--".
MCTokens ==
  { Long("--tuio", "--tuio", <<>>), Long("--tuio=9002", "--tuio", <<"9002">>),
    Long("--crop", "--crop", <<>>), Long("--verb", "--verb", <<>>), Long("--ver", "--ver", <<>>),
    Long("--help", "--help", <<>>), Long("--new", "--new", <<>>),
    Long("--websocket", "--websocket", <<>>), Long("--web=9002", "--web", <<"9002">>),
    Long("--websocket=", "--websocket", <<"">>), Plain("-hx", "short", <<"-h", "-x">>),
    Plain("OpenNI", "word", <<>>), Plain("VideoStream", "word", <<>>),
    Plain("70000", "word", <<>>), Plain("-1", "short", <<"-1">>),
    Plain("", "word", <<>>), Plain("--", "dashes", <<>>) }

MCAbbreviates == { <<"--verb", "--verbose">>, <<"--ver", "--verbose">>, <<"--ver", "--version">>,
                   <<"--web", "--websocket">> }

MCTexts == {"9002"} \cup {token.text : token \in MCTokens}

\* The second and the third do not fit into the 16 bits of a port.
MCPortOf == "9002" :> 9002 @@ "70000" :> 70000 @@ "-1" :> -1

=============================================================================
