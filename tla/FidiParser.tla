----------------------------- MODULE FidiParser -----------------------------
(****************************************************************************)
(* The scanner and the parser of a request.  The scanner works in one of     *)
(* three start conditions: INITIAL, EDGEDEF between an arrow and the bracket *)
(* that opens the payload, and EDGEATTR inside the payload, which it hands   *)
(* over unparsed as one BLOB.  The parser is the automaton bison makes of    *)
(* the grammar, with the error recovery of its skeleton.                     *)
(*                                                                           *)
(* A request is any sequence of pieces: a piece is what one scanner rule     *)
(* matches.  In EDGEATTR the ends of a comment are pieces of their own.      *)
(****************************************************************************)
EXTENDS Integers, FiniteSets, SequencesExt

CONSTANTS
  Numbers,    \* the numbers in a request
  MaxPayload, \* the most pieces in a payload
  MaxAttrs,   \* the most attributes of an edge
  ErrorCap    \* numbers of errors from here on are not told apart

ASSUME NumbersAssumption == Numbers \subseteq Nat
ASSUME BoundsAssumption == MaxPayload \in Nat /\ MaxAttrs \in Nat
ASSUME ErrorCapAssumption == ErrorCap \in Nat \ {0}

VARIABLES
  mode,       \* the start condition
  brackets,   \* bracket_count
  payload,    \* yytext while in EDGEATTR, and the value of the BLOB after it
  runaway,    \* the request has a comment that never ends
  lookahead,  \* the token at hand, as <<kind>> or <<kind, number>>; <<>> if there is none
  list,       \* the innermost list on the parse stack: rulelist, attrlist or inputlist
  state,      \* how far the element of that list is: "list" between two elements
  recovering, \* yyerrstatus_: tokens to be shifted before errors are reported again
  edge,       \* the semantic value of edgeattr
  said,       \* the attributes written since the last arrow, as <<state, number>>
  handed,     \* what the last step called HandleEdge with, and said; or <<>>
  nerrors,    \* nerrors_ of the driver
  reports,    \* entries in parse_errors_
  result      \* parse(): "run", then "accept" or "abort"

scanner == <<mode, brackets, payload, runaway>>
parser == <<list, state, recovering, edge, said, nerrors, reports, result>>
vars == <<scanner, parser, lookahead, handed>>

Saturated(n) == IF n > ErrorCap THEN ErrorCap ELSE n

\* edgeattr: %empty value-initialises a std::pair<int, int>.
NoEdgeAttr == [repeat |-> 0, sequence |-> 0]

Init ==
  /\ mode = "INITIAL" /\ brackets = 0 /\ payload = <<>> /\ runaway = FALSE
  /\ lookahead = <<>> /\ list = "rulelist" /\ state = "list" /\ recovering = 0
  /\ edge = NoEdgeAttr /\ said = <<>> /\ handed = <<>>
  /\ nerrors = 0 /\ reports = 0 /\ result = "run"

-----------------------------------------------------------------------------
(* The scanner.                                                              *)

\* What the rules of INITIAL and EDGEDEF return for a piece that is a token.
InitialToken ==
  [piece \in {"[", "]", "-", ">", "=", ",", "ident", "source", "repeat", "sequence", "string"} |->
    CASE piece = "[" -> "OBRACKET" [] piece = "]" -> "CBRACKET" [] piece = "-" -> "DASH"
      [] piece = ">" -> "ARROW"    [] piece = "=" -> "EQUALS"   [] piece = "," -> "COMMA"
      [] piece = "source" -> "SOURCE" [] piece = "string" -> "STRING" [] OTHER -> "IDENT"]

EdgedefToken ==
  [piece \in {"]", "=", ",", "ident", "source", "repeat", "sequence"} |->
    CASE piece = "]" -> "CBRACKET" [] piece = "=" -> "EQUALS" [] piece = "," -> "COMMA"
      [] piece = "repeat" -> "REPEAT" [] piece = "sequence" -> "SEQUENCE" [] OTHER -> "IDENT"]

Reading == result = "run" /\ lookahead = <<>>

\* yylex goes on with the input; the parser's last action is over.
Yylex == Reading /\ handed' = <<>>

Simple == mode \in {"INITIAL", "EDGEDEF"}

ReadToken ==
  /\ Yylex
  /\ \/ \E piece \in DOMAIN InitialToken :
          /\ mode = "INITIAL"
          /\ lookahead' = <<InitialToken[piece]>>
          /\ mode' = IF piece = ">" THEN "EDGEDEF" ELSE "INITIAL"
     \/ \E piece \in DOMAIN EdgedefToken :
          /\ mode = "EDGEDEF"
          /\ piece \in {"repeat", "sequence"} => Len(said) < MaxAttrs
          /\ lookahead' = <<EdgedefToken[piece]>>
          /\ UNCHANGED mode
     \/ \E n \in Numbers :
          /\ Simple
          /\ lookahead' = <<"NUMBER", n>>
          /\ UNCHANGED mode
  /\ UNCHANGED <<brackets, payload, runaway, parser>>

\* Blanks and whole comments everywhere, and in EDGEDEF any character that has
\* no rule there: flex's default rule echoes it and goes on.
Skip ==
  /\ Yylex
  /\ Simple
  /\ UNCHANGED <<mode, brackets, payload, runaway, lookahead, parser>>

\* Mutant: the bracket that opens the payload is not counted.
OpenPayloadUncounted ==
  /\ Yylex
  /\ mode = "EDGEDEF"
  /\ mode' = "EDGEATTR"
  /\ payload' = <<>>
  /\ UNCHANGED <<brackets, runaway, lookahead, parser>>

OpenPayload ==
  /\ Yylex
  /\ mode = "EDGEDEF"
  /\ mode' = "EDGEATTR"
  /\ brackets' = brackets + 1
  /\ payload' = <<>>
  /\ UNCHANGED <<runaway, lookahead, parser>>

\* Mutant: nested brackets are not counted.
CountedFlat(piece) == IF piece = "]" THEN -1 ELSE 0

\* How a piece of the payload changes bracket_count.
Counted(piece) == CASE piece = "[" -> 1 [] piece = "]" -> -1 [] OTHER -> 0

\* Mutant: the start condition is not reset behind the payload.
BehindPayloadStay == "EDGEDEF"

BehindPayload == "INITIAL"

ReadPayload(piece) ==
  /\ Yylex
  /\ mode = "EDGEATTR" /\ Len(payload) < MaxPayload
  /\ piece = "*/" => ~runaway
  /\ payload' = Append(payload, piece)
  /\ brackets' = brackets + Counted(piece)
  /\ IF brackets' > 0 THEN UNCHANGED <<mode, lookahead>>
                      ELSE mode' = BehindPayload /\ lookahead' = <<"BLOB">>
  /\ UNCHANGED <<runaway, parser>>

\* End of file, in any start condition.
ReadEnd ==
  /\ Yylex
  /\ lookahead' = <<"END">>
  /\ UNCHANGED <<scanner, parser>>

-----------------------------------------------------------------------------
(* The parser.                                                               *)

\* Mutant: an error in an input list is not counted.
CountedErrorOutside == IF list = "inputlist" THEN nerrors ELSE Saturated(nerrors + 1)

\* "rulelist error", "attrlist error" and "inputlist error" all count one.
CountedError == Saturated(nerrors + 1)

\* The stack is cut back to the innermost list, which takes the error token.
Recover ==
  /\ state' = "list"
  /\ recovering' = 3
  /\ nerrors' = CountedError
  /\ said' = <<>>
  /\ UNCHANGED <<list, edge, result>>

\* The scanner throws a syntax_error: a character with no rule, or a comment
\* without end.  The parser's catch reports it and recovers.
ScannerThrows ==
  /\ Yylex
  /\ Simple
  /\ runaway' \in {runaway, TRUE}
  /\ mode = "EDGEDEF" => runaway'
  /\ reports' = Saturated(reports + 1)
  /\ Recover
  /\ UNCHANGED <<mode, brackets, payload, lookahead>>

\* The tokens with which an element goes from one state to the next.
Shifts ==
  {<<"rulelist",  "list", "OBRACKET", "inputlist", "list">>,
   <<"rulelist",  "list", "IDENT",    "rulelist",  "node">>,
   <<"rulelist",  "node", "OBRACKET", "attrlist",  "list">>,
   <<"inputlist", "list", "DASH",     "inputlist", "dash">>,
   <<"inputlist", "dash", "ARROW",    "inputlist", "arrow">>,
   <<"inputlist", "arrow", "IDENT",   "inputlist", "edge">>,
   <<"inputlist", "edge", "REPEAT",   "inputlist", "repeat">>,
   <<"inputlist", "repeat", "EQUALS", "inputlist", "repeat=">>,
   <<"inputlist", "repeat=", "NUMBER", "inputlist", "edge">>,
   <<"inputlist", "edge", "SEQUENCE", "inputlist", "sequence">>,
   <<"inputlist", "sequence", "EQUALS", "inputlist", "sequence=">>,
   <<"inputlist", "sequence=", "NUMBER", "inputlist", "edge">>,
   <<"inputlist", "edge", "BLOB",     "inputlist", "list">>}
  \cup UNION {{<<l, "list", "CBRACKET", "rulelist", "list">>,
               <<l, "list", "IDENT",    l, "attr">>,
               <<l, "attr", "EQUALS",   l, "attr=">>,
               <<l, "attr=", "IDENT",  l, "value">>,
               <<l, "attr=", "STRING", l, "value">>,
               <<l, "attr=", "NUMBER", l, "value">>,
               <<l, "value", "COMMA",   l, "list">>} : l \in {"attrlist", "inputlist"}}

Expected == \E m \in Shifts : <<m[1], m[2], m[3]>> = <<list, state, lookahead[1]>>

Parsing == result = "run" /\ lookahead # <<>>

\* Mutant: a repeat or sequence rule loses the other half of the pair.
EdgeAttrFresh ==
  CASE state = "repeat="   -> [NoEdgeAttr EXCEPT !.repeat = lookahead[2]]
    [] state = "sequence=" -> [NoEdgeAttr EXCEPT !.sequence = lookahead[2]]
    [] state = "arrow"      -> NoEdgeAttr
    [] OTHER                -> edge

\* The actions of edgeattr: a repeat or sequence rule replaces its half of the
\* pair and keeps the other, if it is not zero.
EdgeAttr ==
  CASE state = "repeat="   -> [edge EXCEPT !.repeat = lookahead[2]]
    [] state = "sequence=" -> [edge EXCEPT !.sequence = lookahead[2]]
    [] state = "arrow"      -> NoEdgeAttr
    [] OTHER                -> edge

Shift ==
  /\ Parsing
  /\ \E m \in Shifts :
       /\ <<m[1], m[2], m[3]>> = <<list, state, lookahead[1]>>
       /\ list' = m[4] /\ state' = m[5]
  /\ edge' = EdgeAttr
  /\ handed' = IF lookahead = <<"BLOB">>
                 THEN <<[attr |-> edge, blob |-> payload, said |-> said]>> ELSE handed
  /\ said' = IF state \in {"repeat=", "sequence="} THEN Append(said, <<state, lookahead[2]>>)
             ELSE IF lookahead \in {<<"ARROW">>, <<"BLOB">>} THEN <<>> ELSE said
  /\ payload' = <<>>
  /\ recovering' = IF recovering > 0 THEN recovering - 1 ELSE 0
  /\ lookahead' = <<>>
  /\ UNCHANGED <<mode, brackets, runaway, nerrors, reports, result>>

AtEnd == lookahead = <<"END">> /\ list = "rulelist" /\ state = "list"

Accept ==
  /\ Parsing
  /\ AtEnd
  /\ result' = "accept" /\ lookahead' = <<>>
  /\ UNCHANGED <<scanner, list, state, recovering, edge, said, handed, nerrors, reports>>

Unexpected == Parsing /\ ~Expected /\ ~AtEnd

\* The first error after three good tokens is reported; the token is tried
\* again behind the error.
SyntaxError ==
  /\ Unexpected
  /\ recovering < 3
  /\ reports' = IF recovering = 0 THEN Saturated(reports + 1) ELSE reports
  /\ Recover
  /\ UNCHANGED <<scanner, lookahead, handed>>

\* Mutant: the token is kept, although it has just been tried.
DiscardKeeps ==
  /\ Unexpected
  /\ recovering = 3
  /\ lookahead # <<"END">>
  /\ Recover
  /\ UNCHANGED <<scanner, reports, lookahead, handed>>

\* A token that did not help is thrown away.
Discard ==
  /\ Unexpected
  /\ recovering = 3
  /\ lookahead # <<"END">>
  /\ lookahead' = <<>> /\ payload' = <<>>
  /\ Recover
  /\ UNCHANGED <<mode, brackets, runaway, reports, handed>>

\* There is nothing left that could help.
Abort ==
  /\ Unexpected
  /\ recovering = 3
  /\ lookahead = <<"END">>
  /\ result' = "abort"
  /\ UNCHANGED <<scanner, lookahead, list, state, recovering, edge, said, handed, nerrors, reports>>

Next ==
  \/ ReadToken \/ Skip \/ OpenPayload \/ ReadEnd \/ ScannerThrows
  \/ \E piece \in {"[", "]", "/*", "*/", "other"} : ReadPayload(piece)
  \/ Shift \/ Accept \/ SyntaxError \/ Discard \/ Abort

Spec == Init /\ [][Next]_vars

\* yylex and parse run in the handler's thread, and every request has an end.
FairSpec == Spec /\ WF_vars(Next) /\ SF_vars(ReadEnd)

-----------------------------------------------------------------------------
(* Properties.                                                               *)

EdgeAttrs == [repeat : Numbers \cup {0}, sequence : Numbers \cup {0}]

TypeOK ==
  /\ mode \in {"INITIAL", "EDGEDEF", "EDGEATTR"}
  /\ brackets \in 0 .. MaxPayload + 1
  /\ runaway \in BOOLEAN
  /\ list \in {"rulelist", "attrlist", "inputlist"}
  /\ recovering \in 0 .. 3
  /\ edge \in EdgeAttrs
  /\ nerrors \in 0 .. ErrorCap /\ reports \in 0 .. ErrorCap
  /\ result \in {"run", "accept", "abort"}

\* How often a piece is among the first i of s.
Count(s, i, piece) == Cardinality({j \in 1 .. i : s[j] = piece})

\* A bracket has been opened before s: it is closed by the last piece of s.
OneGroup(s) == \A i \in 0 .. Len(s) : (Count(s, i, "]") > Count(s, i, "[")) <=> i = Len(s)

\* What HandleEdge is handed as the payload of a call ends at the bracket
\* that closes it, whatever the nesting, and whatever went wrong before it.
PayloadIsOneGroup == \A h \in ToSet(handed) : OneGroup(h.blob)

\* The parser is behind the arrow of an edge and before the end of its payload.
InEdge == list = "inputlist" /\ state \notin {"list", "dash", "attr", "attr=", "value"}

\* The scanner changes its start condition by itself, as soon as it sees an
\* arrow or a bracket, while the parser follows its grammar: as long as there
\* was no error they agree on whether the request is inside of an edge.
ModesAgree ==
  nerrors = 0 /\ Reading =>
    /\ InEdge <=> mode \in {"EDGEDEF", "EDGEATTR"}
    /\ mode = "EDGEATTR" <=> brackets > 0

\* If any of the attributes given is for this half of the pair, the last one
\* says v.
LastSays(rule, given, v) ==
  \A i \in DOMAIN given :
    given[i][1] = rule /\ (\A j \in DOMAIN given : j > i => given[j][1] # rule) => given[i][2] = v

Written(attr, given) ==
  LastSays("repeat=", given, attr.repeat) /\ LastSays("sequence=", given, attr.sequence)

\* The repeat and sequence attributes of an edge may come in either order and
\* more than once: the one written last for this edge counts, is not lost to
\* the other, and none of an earlier edge is in its place.
EdgeAttrAsWritten == \A h \in ToSet(handed) : Written(h.attr, h.said)

\* Nobody uses what parse() returns to refuse a request, only nerrors_: each
\* error that was reported is counted there, an error that is counted has a
\* report the client can be sent, and an aborted parse has both.
ErrorsAreCounted ==
  /\ reports > 0 <=> nerrors > 0
  /\ result = "abort" => nerrors > 0

\* Parsing ends on every request: recovery does not try the same token for ever.
ParsingEnds == <>(result # "run")

\* No attribute given is for this half of the pair.
Unwritten(rule, given) == \A i \in DOMAIN given : given[i][1] # rule

\* Claim of the manual (docs/fidi_request.5:169): "The default repeat count is
\* 1, and the default sequence number is 1 as well."  An edge without a
\* sequence number is in the same sequence as one written with 1.  (A repeat
\* of 0 is made 1 by Execute.)
DefaultSequenceIsOne ==
  \A h \in ToSet(handed) : Unwritten("sequence=", h.said) => h.attr.sequence = 1

\* What is left of s without its comments.
Uncommented(s) ==
  FoldLeft(LAMBDA done, p :
             IF done.comment THEN [done EXCEPT !.comment = p # "*/"]
             ELSE IF p = "/*" THEN [done EXCEPT !.comment = TRUE]
             ELSE [done EXCEPT !.text = Append(@, p)],
           [comment |-> FALSE, text |-> <<>>], s)

\* Claim of the manual (docs/fidi_request.5:186): "Comments may be placed
\* anywhere in the input request body."  A bracket in a comment of a payload
\* is then none of the payload's brackets.
PayloadEndsAtItsBracket ==
  \A h \in ToSet(handed) :
    ~Uncommented(h.blob).comment => OneGroup(Uncommented(h.blob).text)
=============================================================================
