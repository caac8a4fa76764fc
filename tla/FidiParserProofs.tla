--------------------------- MODULE FidiParserProofs ---------------------------
(****************************************************************************)
(* Proofs about FidiParser, for requests of any length, payloads and         *)
(* attribute lists of any length, and all numbers.                           *)
(****************************************************************************)
EXTENDS FidiParser, FiniteSetTheorems, TLAPS

-----------------------------------------------------------------------------
(* Counting pieces.                                                          *)

Pieces == {"[", "]", "/*", "*/", "other"}

LEMMA CountFacts ==
  ASSUME NEW s \in Seq(Pieces), NEW e \in Pieces, NEW x, NEW i \in 0 .. Len(s)
  PROVE  /\ Count(s, i, x) \in Nat
         /\ Count(s, 0, x) = 0
         /\ Count(Append(s, e), i, x) = Count(s, i, x)
         /\ Count(Append(s, e), Len(s) + 1, x) =
              Count(s, Len(s), x) + (IF e = x THEN 1 ELSE 0)
<1> DEFINE At(k) == {j \in 1 .. k : s[j] = x}
           n == Len(s)
<1>1. n \in Nat /\ i \in 0 .. n
  OBVIOUS
<1>2. ASSUME NEW k \in 0 .. n PROVE IsFiniteSet(At(k)) /\ Cardinality(At(k)) \in Nat
  <2>1. IsFiniteSet(1 .. k)
    BY <1>1, FS_Interval
  <2>2. At(k) \subseteq 1 .. k
    OBVIOUS
  <2> QED BY <2>1, <2>2, FS_Subset, FS_CardinalityType
<1>3. At(0) = {}
  OBVIOUS
<1>4. \A j \in 1 .. n : Append(s, e)[j] = s[j]
  OBVIOUS
<1>5. Append(s, e)[n + 1] = e
  OBVIOUS
<1>6. {j \in 1 .. i : Append(s, e)[j] = x} = At(i)
  BY <1>1, <1>4
<1>7. {j \in 1 .. n + 1 : Append(s, e)[j] = x} = At(n) \cup (IF e = x THEN {n + 1} ELSE {})
  BY <1>1, <1>4, <1>5
<1>8. n + 1 \notin At(n)
  BY <1>1
<1>9. Cardinality(At(n) \cup {n + 1}) = Cardinality(At(n)) + 1
  <2>1. n \in 0 .. n
    BY <1>1
  <2>2. IsFiniteSet(At(n))
    BY <1>2, <2>1
  <2> HIDE DEF At, n
  <2> QED BY <1>8, <2>2, FS_AddElement
<1>10. Cardinality({j \in 1 .. n + 1 : Append(s, e)[j] = x}) =
         Cardinality(At(n)) + (IF e = x THEN 1 ELSE 0)
  <2>1. CASE e = x
    BY <1>7, <1>9, <2>1
  <2>2. CASE e # x
    <3>1. {j \in 1 .. n + 1 : Append(s, e)[j] = x} = At(n)
      BY <1>7, <2>2
    <3>2. Cardinality(At(n)) \in Nat
      <4>1. n \in 0 .. n
        BY <1>1
      <4> QED BY <1>2, <4>1
    <3>3. \A c \in Nat : c + (IF e = x THEN 1 ELSE 0) = c
      BY <2>2
    <3> HIDE DEF At, n
    <3> QED BY <3>1, <3>2, <3>3
  <2> QED BY <2>1, <2>2
<1>11. Count(s, i, x) = Cardinality(At(i)) /\ Count(s, n, x) = Cardinality(At(n))
       /\ Count(s, 0, x) = Cardinality(At(0))
  BY DEF Count
<1> QED BY <1>1, <1>2, <1>3, <1>6, <1>10, <1>11, FS_EmptySet DEF Count

\* The piece that closes a payload, and one that does not.
LEMMA GroupGrows ==
  ASSUME NEW s \in Seq(Pieces), NEW e \in Pieces,
         \A i \in 0 .. Len(s) : Count(s, i, "]") =< Count(s, i, "[")
  PROVE  LET t == Append(s, e)
             balance == Count(t, Len(t), "[") - Count(t, Len(t), "]")
         IN  /\ balance = Count(s, Len(s), "[") - Count(s, Len(s), "]") + Counted(e)
             /\ balance >= 0 => \A i \in 0 .. Len(t) : Count(t, i, "]") =< Count(t, i, "[")
             /\ balance < 0 => OneGroup(t)
<1> DEFINE t == Append(s, e)
           n == Len(s)
<1>1. n \in Nat /\ Len(t) = n + 1
  OBVIOUS
<1>2. ASSUME NEW i \in 0 .. n
      PROVE  /\ Count(t, i, "]") = Count(s, i, "]") /\ Count(t, i, "[") = Count(s, i, "[")
             /\ Count(t, i, "]") \in Nat /\ Count(t, i, "[") \in Nat
             /\ Count(t, i, "]") =< Count(t, i, "[")
  BY CountFacts
<1>3. /\ Count(t, n + 1, "]") = Count(s, n, "]") + (IF e = "]" THEN 1 ELSE 0)
      /\ Count(t, n + 1, "[") = Count(s, n, "[") + (IF e = "[" THEN 1 ELSE 0)
      /\ Count(s, n, "]") \in Nat /\ Count(s, n, "[") \in Nat
  BY <1>1, CountFacts
<1>4. \A i \in 0 .. n + 1 : i \in 0 .. n \/ i = n + 1
  BY <1>1
<1> HIDE DEF t, n
<1>5. Count(t, n + 1, "[") - Count(t, n + 1, "]") =
        Count(s, n, "[") - Count(s, n, "]") + Counted(e)
  BY <1>3 DEF Counted
<1>6. Count(t, n + 1, "[") - Count(t, n + 1, "]") >= 0 =>
        \A i \in 0 .. n + 1 : Count(t, i, "]") =< Count(t, i, "[")
  BY <1>1, <1>2, <1>3, <1>4
<1>7. Count(t, n + 1, "[") - Count(t, n + 1, "]") < 0 =>
        \A i \in 0 .. n + 1 : (Count(t, i, "]") > Count(t, i, "[")) <=> i = n + 1
  BY <1>1, <1>2, <1>3, <1>4
<1> QED BY <1>1, <1>5, <1>6, <1>7 DEF OneGroup, t, n

-----------------------------------------------------------------------------
(* The attribute written last.                                               *)

\* v is what the attributes given say of one half of the pair, or the zero
\* it starts with if they say nothing of it.
Says(rule, given, v) == LastSays(rule, given, v) /\ (Unwritten(rule, given) => v = 0)

\* The pair has nothing but what was written for this edge.
OnlyWritten(attr, given) ==
  Says("repeat=", given, attr.repeat) /\ Says("sequence=", given, attr.sequence)

LEMMA SaysOfAppend ==
  ASSUME NEW S, NEW given \in Seq(S), NEW st, NEW n, <<st, n>> \in S, NEW rule, NEW v,
         st = rule => v = n, st # rule => Says(rule, given, v)
  PROVE  Says(rule, Append(given, <<st, n>>), v)
<1> DEFINE new == Append(given, <<st, n>>)
           l == Len(given)
<1>1. /\ l \in Nat /\ DOMAIN given = 1 .. l /\ DOMAIN new = 1 .. l + 1
      /\ \A i \in 1 .. l : new[i] = given[i]
      /\ new[l + 1] = <<st, n>>
  OBVIOUS
<1>2. new[l + 1][1] = st
  BY <1>1
<1> HIDE DEF new, l
<1>3. l + 1 \in 1 .. l + 1 /\ \A i \in 1 .. l : i \in 1 .. l + 1 /\ l + 1 > i
  BY <1>1
<1>4. \A i \in 1 .. l + 1 : i \in 1 .. l \/ i = l + 1
  BY <1>1
<1>5. CASE st = rule
  <2>1. \A i \in 1 .. l + 1 :
          (\A j \in 1 .. l + 1 : j > i => new[j][1] # rule) => i = l + 1
    BY <1>2, <1>3, <1>4, <1>5
  <2>2. LastSays(rule, new, v)
    BY <1>1, <1>5, <2>1 DEF LastSays
  <2>3. ~Unwritten(rule, new)
    BY <1>1, <1>2, <1>3, <1>5 DEF Unwritten
  <2> QED BY <2>2, <2>3 DEF Says, new
<1>6. CASE st # rule
  <2>1. LastSays(rule, new, v)
    <3> SUFFICES ASSUME NEW i \in 1 .. l + 1, new[i][1] = rule,
                        \A j \in 1 .. l + 1 : j > i => new[j][1] # rule
                 PROVE  new[i][2] = v
      BY <1>1 DEF LastSays
    <3>1. i \in 1 .. l /\ new[i] = given[i]
      BY <1>1, <1>2, <1>4, <1>6
    <3>2. \A j \in 1 .. l : j > i => given[j][1] # rule
      BY <1>1, <1>3
    <3> QED BY <1>1, <1>6, <3>1, <3>2 DEF Says, LastSays
  <2>2. Unwritten(rule, new) => Unwritten(rule, given)
    BY <1>1, <1>3 DEF Unwritten
  <2> QED BY <1>6, <2>1, <2>2 DEF Says, new
<1> QED BY <1>5, <1>6

-----------------------------------------------------------------------------
(* The inductive invariant.                                                  *)

Kinds == {"OBRACKET", "CBRACKET", "DASH", "ARROW", "EQUALS", "COMMA", "SOURCE", "STRING", "IDENT",
          "REPEAT", "SEQUENCE", "BLOB", "END"}

Lookaheads == {<<>>} \cup {<<k>> : k \in Kinds} \cup {<<"NUMBER", n>> : n \in Numbers}

Lists == {"rulelist", "attrlist", "inputlist"}

\* An edge whose attributes are being read.
EdgeStates == {"edge", "repeat", "repeat=", "sequence", "sequence="}

States == EdgeStates \cup {"list", "node", "dash", "arrow", "attr", "attr=", "value"}

Types ==
  /\ TypeOK
  /\ lookahead \in Lookaheads
  /\ payload \in Seq(Pieces)
  /\ said \in Seq({"repeat=", "sequence="} \X Numbers)
  /\ state \in States

\* Nothing in s closes a bracket opened before s.
Closed(s) == \A i \in 0 .. Len(s) : Count(s, i, "]") =< Count(s, i, "[")

\* bracket_count is what is open in the payload, and zero outside of one.
Bracketing ==
  IF mode = "EDGEATTR"
    THEN /\ brackets = 1 + Count(payload, Len(payload), "[") - Count(payload, Len(payload), "]")
         /\ brackets >= 1 /\ brackets =< Len(payload) + 1
         /\ Len(payload) =< MaxPayload
         /\ Closed(payload)
         /\ lookahead \in {<<>>, <<"END">>}
    ELSE brackets = 0

\* The payload waits in the lookahead until the edge takes it.
Waiting == lookahead = <<"BLOB">> => mode = "INITIAL" /\ OneGroup(payload)

Handing == \A h \in ToSet(handed) : OneGroup(h.blob) /\ OnlyWritten(h.attr, h.said)

Attributes ==
  /\ state = "arrow" => said = <<>>
  /\ state \in EdgeStates => OnlyWritten(edge, said)

Errors ==
  /\ reports > 0 <=> nerrors > 0
  /\ recovering > 0 => nerrors > 0
  /\ result = "abort" => nerrors > 0

\* The scanner is ahead of the parser by the token at hand.
Modes ==
  nerrors = 0 =>
    /\ lookahead = <<"ARROW">> => mode = "EDGEDEF" /\ ~InEdge
    /\ lookahead = <<"BLOB">> => mode = "INITIAL" /\ InEdge
    /\ lookahead \notin {<<"ARROW">>, <<"BLOB">>} => (InEdge <=> mode \in {"EDGEDEF", "EDGEATTR"})

Inv == Types /\ Bracketing /\ Waiting /\ Handing /\ Attributes /\ Errors /\ Modes

-----------------------------------------------------------------------------
(* The grammar, seen from an edge.                                           *)

Inside(l, st) == l = "inputlist" /\ st \notin {"list", "dash", "attr", "attr=", "value"}

LEMMA ShiftFacts ==
  ASSUME NEW m \in Shifts
  PROVE  /\ m[3] # "END" /\ m[4] \in Lists /\ m[5] \in States
         /\ m[2] \in {"repeat=", "sequence="} => m[3] = "NUMBER"
         /\ m[3] = "BLOB" => m[2] = "edge" /\ m[5] = "list"
         /\ m[3] = "ARROW" <=> m[5] = "arrow"
         /\ m[5] \in EdgeStates => m[2] \in EdgeStates \cup {"arrow"}
         /\ m[3] = "ARROW" => Inside(m[4], m[5])
         /\ m[3] = "BLOB" => ~Inside(m[4], m[5])
         /\ m[3] \notin {"ARROW", "BLOB"} => (Inside(m[4], m[5]) <=> Inside(m[1], m[2]))
BY DEF Shifts, Lists, States, EdgeStates, Inside

LEMMA LookaheadFacts ==
  ASSUME NEW t \in Lookaheads, t # <<>>
  PROVE  /\ t[1] \in Kinds \cup {"NUMBER"}
         /\ t[1] = "NUMBER" => t[2] \in Numbers
         /\ \A k \in Kinds : t[1] = k <=> t = <<k>>
BY DEF Lookaheads, Kinds

-----------------------------------------------------------------------------
(* What the steps have in common.                                            *)

LEMMA SaturatedFacts ==
  ASSUME NEW n \in 0 .. ErrorCap
  PROVE  Saturated(n + 1) \in 0 .. ErrorCap /\ Saturated(n + 1) > 0
BY ErrorCapAssumption DEF Saturated

\* Recovery throws the element at hand away and counts an error, so that
\* nothing is left to be said about an edge or about the modes.
LEMMA RecoverStep ==
  ASSUME Inv, Recover
  PROVE  /\ state' = "list" /\ list' \in Lists /\ recovering' = 3 /\ said' = <<>>
         /\ nerrors' \in 0 .. ErrorCap /\ nerrors' > 0
         /\ edge' \in EdgeAttrs /\ result' \in {"run", "accept", "abort"}
         /\ Attributes' /\ Modes' /\ (result' = "abort" => nerrors' > 0)
<1>1. nerrors' \in 0 .. ErrorCap /\ nerrors' > 0
  BY SaturatedFacts DEF Inv, Types, TypeOK, Recover, CountedError
<1>2. Attributes'
  BY DEF Recover, Attributes, EdgeStates
<1>3. Modes'
  BY <1>1 DEF Modes
<1> QED BY <1>1, <1>2, <1>3 DEF Recover, Inv, Types, TypeOK, Lists

\* A step that leaves what HandleEdge is handed, or takes it back.
LEMMA HandingKept ==
  ASSUME Handing, handed' \in {handed, <<>>}
  PROVE  Handing'
<1>1. ToSet(<<>>) = {}
  BY DEF ToSet
<1> QED BY <1>1 DEF Handing

LEMMA InitInv == Init => Inv
<1> SUFFICES ASSUME Init PROVE Inv
  OBVIOUS
<1>1. Types
  <2>1. NoEdgeAttr \in EdgeAttrs
    BY DEF NoEdgeAttr, EdgeAttrs
  <2>2. 0 \in 0 .. MaxPayload + 1 /\ 0 \in 0 .. ErrorCap
    BY BoundsAssumption, ErrorCapAssumption
  <2>3. TypeOK
    <3>1. runaway \in BOOLEAN
      BY DEF Init
    <3>2. 0 \in 0 .. 3
      OBVIOUS
    <3> QED BY <2>1, <2>2, <3>1, <3>2, Zenon DEF Init, TypeOK
  <2>4. <<>> \in Seq(Pieces) /\ <<>> \in Seq({"repeat=", "sequence="} \X Numbers)
    OBVIOUS
  <2> QED BY <2>3, <2>4 DEF Init, Types, Lookaheads, States
<1>2. Handing
  BY DEF Init, Handing, ToSet
<1> QED BY <1>1, <1>2
        DEF Init, Inv, Bracketing, Waiting, Attributes, EdgeStates, Errors, Modes, InEdge

-----------------------------------------------------------------------------
(* The steps of the scanner.                                                 *)

LEMMA ReadTokenStep ==
  ASSUME Inv, ReadToken
  PROVE  Inv'
<1> USE DEF Inv, ReadToken, Yylex, Reading
<1>1. /\ lookahead' \in Lookaheads /\ lookahead' # <<"BLOB">> /\ mode # "EDGEATTR"
      /\ \/ lookahead' # <<"ARROW">> /\ mode' = mode
         \/ lookahead' = <<"ARROW">> /\ mode = "INITIAL" /\ mode' = "EDGEDEF"
  <2>1. ASSUME NEW piece \in DOMAIN InitialToken, mode = "INITIAL",
               lookahead' = <<InitialToken[piece]>>,
               mode' = IF piece = ">" THEN "EDGEDEF" ELSE "INITIAL"
        PROVE  <1>1
    <3>1. /\ InitialToken[piece] \in Kinds /\ InitialToken[piece] # "BLOB"
          /\ InitialToken[piece] = "ARROW" <=> piece = ">"
      BY <2>1 DEF InitialToken, Kinds
    <3> QED BY <2>1, <3>1 DEF Lookaheads
  <2>2. ASSUME NEW piece \in DOMAIN EdgedefToken, mode = "EDGEDEF",
               lookahead' = <<EdgedefToken[piece]>>, mode' = mode
        PROVE  <1>1
    <3>1. EdgedefToken[piece] \in Kinds /\ EdgedefToken[piece] \notin {"BLOB", "ARROW"}
      BY <2>2 DEF EdgedefToken, Kinds
    <3> QED BY <2>2, <3>1 DEF Lookaheads
  <2>3. ASSUME NEW n \in Numbers, Simple, lookahead' = <<"NUMBER", n>>, mode' = mode
        PROVE  <1>1
    BY <2>3 DEF Simple, Lookaheads
  <2> QED BY <2>1, <2>2, <2>3
<1>2. Types'
  BY <1>1 DEF Types, TypeOK, parser
<1>3. Bracketing'
  BY <1>1 DEF Bracketing
<1>4. Waiting'
  BY <1>1 DEF Waiting
<1>5. Handing'
  BY HandingKept
<1>6. Attributes' /\ Errors'
  BY DEF parser, Attributes, Errors
<1>7. InEdge' <=> InEdge
  BY DEF parser, InEdge
<1>8. Modes'
  BY <1>1, <1>7 DEF parser, Modes
<1> QED BY <1>2, <1>3, <1>4, <1>5, <1>6, <1>8

LEMMA QuietStep ==
  ASSUME Inv, Skip \/ ReadEnd
  PROVE  Inv'
<1> USE DEF Inv, Skip, ReadEnd, Yylex, Reading
<1>1. lookahead' \in {<<>>, <<"END">>}
  OBVIOUS
<1>2. mode' = mode /\ brackets' = brackets /\ payload' = payload /\ UNCHANGED parser
  BY DEF scanner
<1>3. Types'
  BY <1>1, <1>2 DEF Types, TypeOK, parser, scanner, Lookaheads, Kinds
<1>4. Bracketing'
  BY <1>1, <1>2 DEF Bracketing
<1>5. Waiting'
  BY <1>1 DEF Waiting
<1>6. Handing'
  BY HandingKept
<1>7. Attributes' /\ Errors'
  BY <1>2 DEF parser, Attributes, Errors
<1>8. InEdge' <=> InEdge
  BY <1>2 DEF parser, InEdge
<1>9. Modes'
  BY <1>1, <1>2, <1>8 DEF parser, Modes
<1> QED BY <1>3, <1>4, <1>5, <1>6, <1>7, <1>9

LEMMA OpenPayloadStep ==
  ASSUME Inv, OpenPayload
  PROVE  Inv'
<1> USE DEF Inv, OpenPayload, Yylex, Reading
<1>1. Types'
  BY BoundsAssumption DEF Types, TypeOK, parser, Bracketing
<1>2. Bracketing'
  <2>1. Len(<<>>) = 0 /\ 0 \in 0 .. Len(<<>>) /\ <<>> \in Seq(Pieces) /\ "[" \in Pieces
    BY DEF Pieces
  <2>2. Count(<<>>, 0, "[") = 0 /\ Count(<<>>, 0, "]") = 0
    BY <2>1, CountFacts
  <2>3. Closed(<<>>)
    BY <2>1, <2>2 DEF Closed
  <2> QED BY <2>1, <2>2, <2>3, BoundsAssumption DEF Bracketing
<1>3. Waiting'
  BY DEF Waiting
<1>4. Handing'
  BY HandingKept
<1>5. Attributes' /\ Errors'
  BY DEF parser, Attributes, Errors
<1>6. InEdge' <=> InEdge
  BY DEF parser, InEdge
<1>7. Modes'
  BY <1>6 DEF parser, Modes
<1> QED BY <1>1, <1>2, <1>3, <1>4, <1>5, <1>7

LEMMA ReadPayloadStep ==
  ASSUME Inv, NEW piece \in Pieces, ReadPayload(piece)
  PROVE  Inv'
<1> USE DEF Inv, ReadPayload, Yylex, Reading
<1>1. /\ payload \in Seq(Pieces) /\ payload' \in Seq(Pieces)
      /\ Len(payload) \in Nat /\ Len(payload') = Len(payload) + 1
  BY DEF Types
<1>2. /\ brackets = 1 + Count(payload, Len(payload), "[") - Count(payload, Len(payload), "]")
      /\ brackets >= 1 /\ brackets =< Len(payload) + 1 /\ brackets \in Nat
      /\ Closed(payload)
  BY DEF Bracketing, Types, TypeOK
<1>3. Counted(piece) \in {-1, 0, 1}
  BY DEF Counted
<1>4. /\ Count(payload, Len(payload), "[") \in Nat /\ Count(payload, Len(payload), "]") \in Nat
      /\ Count(payload', Len(payload'), "[") \in Nat /\ Count(payload', Len(payload'), "]") \in Nat
  <2>1. \A s \in Seq(Pieces) : Len(s) \in 0 .. Len(s)
    OBVIOUS
  <2> QED BY <1>1, <2>1, CountFacts
<1>5. /\ brackets' = 1 + Count(payload', Len(payload'), "[") - Count(payload', Len(payload'), "]")
      /\ brackets' >= 1 => Closed(payload')
      /\ brackets' < 1 => OneGroup(payload')
  <2> DEFINE t == Append(payload, piece)
             balance == Count(t, Len(t), "[") - Count(t, Len(t), "]")
  <2>1. /\ balance = Count(payload, Len(payload), "[") - Count(payload, Len(payload), "]")
                     + Counted(piece)
        /\ balance >= 0 => Closed(t)
        /\ balance < 0 => OneGroup(t)
    BY <1>1, <1>2, GroupGrows DEF Closed
  <2>2. t = payload'
    OBVIOUS
  <2> HIDE DEF t
  <2>3. balance \in Int /\ brackets' = 1 + balance
    <3>1. balance \in Int /\ brackets' = brackets + Counted(piece)
      BY <1>4, <2>2
    <3>2. brackets = 1 + (balance - Counted(piece)) /\ Counted(piece) \in Int
      <4> DEFINE open == Count(payload, Len(payload), "[")
                 close == Count(payload, Len(payload), "]")
      <4>1. open \in Int /\ close \in Int /\ Counted(piece) \in Int
        BY <1>3, <1>4
      <4>2. balance = open - close + Counted(piece) /\ brackets = 1 + open - close
        BY <1>2, <2>1
      <4> HIDE DEF balance, open, close
      <4> QED BY <4>1, <4>2
    <3> HIDE DEF balance
    <3> QED BY <3>1, <3>2
  <2> HIDE DEF balance
  <2> QED BY <2>1, <2>2, <2>3 DEF balance
<1>6. /\ brackets' \in Nat /\ brackets' =< Len(payload') + 1 /\ Len(payload') =< MaxPayload
  BY <1>1, <1>2, <1>3, BoundsAssumption
<1>7. \/ brackets' > 0 /\ mode' = "EDGEATTR" /\ lookahead' = <<>>
      \/ brackets' = 0 /\ mode' = "INITIAL" /\ lookahead' = <<"BLOB">>
  BY <1>6 DEF BehindPayload
<1>8. Types'
  BY <1>1, <1>6, <1>7, BoundsAssumption DEF Types, TypeOK, parser, Lookaheads, Kinds
<1>9. Bracketing'
  BY <1>5, <1>6, <1>7 DEF Bracketing
<1>10. Waiting'
  BY <1>5, <1>7 DEF Waiting
<1>11. Handing'
  BY HandingKept
<1>12. Attributes' /\ Errors'
  BY DEF parser, Attributes, Errors
<1>13. InEdge' <=> InEdge
  BY DEF parser, InEdge
<1>14. Modes'
  <2>1. nerrors' = 0 => InEdge
    BY DEF parser, Modes
  <2>2. CASE mode' = "EDGEATTR" /\ lookahead' = <<>>
    <3> HIDE DEF Inv, ReadPayload
    <3> QED BY <1>13, <2>1, <2>2 DEF Modes
  <2>3. CASE mode' = "INITIAL" /\ lookahead' = <<"BLOB">>
    <3> HIDE DEF Inv, ReadPayload
    <3> QED BY <1>13, <2>1, <2>3 DEF Modes
  <2> QED BY <1>7, <2>2, <2>3
<1> QED BY <1>8, <1>9, <1>10, <1>11, <1>12, <1>14

-----------------------------------------------------------------------------
(* The steps of the parser.                                                  *)

LEMMA ShiftStep ==
  ASSUME Inv, Shift
  PROVE  Inv'
<1> USE DEF Inv
<1> DEFINE Given == {"repeat=", "sequence="} \X Numbers
           Carried == edge' \in EdgeAttrs /\ said' \in Seq(Given) /\ Attributes' /\ Handing'
<1>1. PICK m \in Shifts :
        /\ m[1] = list /\ m[2] = state /\ m[3] = lookahead[1]
        /\ list' = m[4] /\ state' = m[5]
  BY DEF Shift
<1>2. lookahead \in Lookaheads /\ lookahead # <<>> /\ result = "run"
  BY DEF Types, Shift, Parsing
<1>3. /\ lookahead # <<"END">> /\ list' \in Lists /\ state' \in States
      /\ state \in {"repeat=", "sequence="} => lookahead[1] = "NUMBER" /\ lookahead[2] \in Numbers
      /\ lookahead = <<"BLOB">> => state = "edge" /\ state' = "list"
      /\ lookahead = <<"ARROW">> <=> state' = "arrow"
      /\ state' \in EdgeStates => state \in EdgeStates \cup {"arrow"}
      /\ lookahead = <<"ARROW">> => InEdge'
      /\ lookahead = <<"BLOB">> => ~InEdge'
      /\ lookahead \notin {<<"ARROW">>, <<"BLOB">>} => (InEdge' <=> InEdge)
  <2>1. /\ m[3] = "ARROW" <=> lookahead = <<"ARROW">>
        /\ m[3] = "BLOB" <=> lookahead = <<"BLOB">>
        /\ m[3] = "END" <=> lookahead = <<"END">>
        /\ m[3] = "NUMBER" => lookahead[2] \in Numbers
    BY <1>1, <1>2, LookaheadFacts DEF Kinds
  <2>2. /\ Inside(m[1], m[2]) <=> InEdge
        /\ Inside(m[4], m[5]) <=> InEdge'
    BY <1>1 DEF Inside, InEdge
  <2>3. /\ m[3] # "END" /\ m[4] \in Lists /\ m[5] \in States
        /\ m[2] \in {"repeat=", "sequence="} => m[3] = "NUMBER"
        /\ m[3] = "BLOB" => m[2] = "edge" /\ m[5] = "list"
        /\ m[3] = "ARROW" <=> m[5] = "arrow"
        /\ m[5] \in EdgeStates => m[2] \in EdgeStates \cup {"arrow"}
    BY ShiftFacts
  <2>4. /\ m[3] = "ARROW" => Inside(m[4], m[5])
        /\ m[3] = "BLOB" => ~Inside(m[4], m[5])
        /\ m[3] \notin {"ARROW", "BLOB"} => (Inside(m[4], m[5]) <=> Inside(m[1], m[2]))
    BY ShiftFacts
  <2>5. /\ lookahead # <<"END">> /\ list' \in Lists /\ state' \in States
        /\ state \in {"repeat=", "sequence="} => lookahead[1] = "NUMBER" /\ lookahead[2] \in Numbers
        /\ lookahead = <<"BLOB">> => state = "edge" /\ state' = "list"
        /\ lookahead = <<"ARROW">> <=> state' = "arrow"
        /\ state' \in EdgeStates => state \in EdgeStates \cup {"arrow"}
    BY <1>1, <2>1, <2>3
  <2>6. /\ lookahead = <<"ARROW">> => InEdge'
        /\ lookahead = <<"BLOB">> => ~InEdge'
        /\ lookahead \notin {<<"ARROW">>, <<"BLOB">>} => (InEdge' <=> InEdge)
    BY <2>1, <2>2, <2>4
  <2> QED BY <2>5, <2>6
<1>4. mode # "EDGEATTR" /\ brackets = 0
  BY <1>2, <1>3 DEF Bracketing
<1>5. /\ mode' = mode /\ brackets' = brackets /\ runaway' = runaway /\ lookahead' = <<>>
      /\ payload' = <<>> /\ nerrors' = nerrors /\ reports' = reports /\ result' = result
      /\ recovering' = IF recovering > 0 THEN recovering - 1 ELSE 0
      /\ edge' = EdgeAttr
  BY DEF Shift
<1>6. said \in Seq(Given) /\ edge \in EdgeAttrs
  BY DEF Types, TypeOK
<1>7. ASSUME state \in {"repeat=", "sequence="}
      PROVE  Carried
  <2>1. /\ edge' = IF state = "repeat=" THEN [edge EXCEPT !.repeat = lookahead[2]]
                                         ELSE [edge EXCEPT !.sequence = lookahead[2]]
        /\ said' = Append(said, <<state, lookahead[2]>>)
    <3>1. said' = Append(said, <<state, lookahead[2]>>)
      BY <1>7 DEF Shift
    <3>2. CASE state = "repeat="
      <4>1. EdgeAttr = [edge EXCEPT !.repeat = lookahead[2]]
        BY <3>2 DEF EdgeAttr
      <4> QED BY <1>5, <3>1, <3>2, <4>1
    <3>3. CASE state = "sequence="
      <4>1. EdgeAttr = [edge EXCEPT !.sequence = lookahead[2]]
        BY <3>3 DEF EdgeAttr
      <4> QED BY <1>5, <3>1, <3>3, <4>1
    <3> QED BY <1>7, <3>2, <3>3
  <2>2. lookahead[2] \in Numbers /\ <<state, lookahead[2]>> \in Given
    BY <1>3, <1>7
  <2>3. edge' \in EdgeAttrs /\ said' \in Seq(Given)
    BY <1>6, <2>1, <2>2 DEF EdgeAttrs
  <2>4. OnlyWritten(edge, said)
    BY <1>7 DEF Attributes, EdgeStates
  <2>5. OnlyWritten(edge', said')
    <3>1. CASE state = "repeat="
      <4>1. edge'.repeat = lookahead[2] /\ edge'.sequence = edge.sequence
        BY <1>6, <2>1, <3>1 DEF EdgeAttrs
      <4>2. Says("repeat=", said', lookahead[2])
        BY <1>6, <2>1, <2>2, <3>1, SaysOfAppend
      <4>3. Says("sequence=", said', edge.sequence)
        BY <1>6, <2>1, <2>2, <2>4, <3>1, SaysOfAppend DEF OnlyWritten
      <4> QED BY <4>1, <4>2, <4>3 DEF OnlyWritten
    <3>2. CASE state = "sequence="
      <4>1. edge'.sequence = lookahead[2] /\ edge'.repeat = edge.repeat
        BY <1>6, <2>1, <3>2 DEF EdgeAttrs
      <4>2. Says("sequence=", said', lookahead[2])
        BY <1>6, <2>1, <2>2, <3>2, SaysOfAppend
      <4>3. Says("repeat=", said', edge.repeat)
        BY <1>6, <2>1, <2>2, <2>4, <3>2, SaysOfAppend DEF OnlyWritten
      <4> QED BY <4>1, <4>2, <4>3 DEF OnlyWritten
    <3> QED BY <1>7, <3>1, <3>2
  <2>6. lookahead # <<"ARROW">> /\ state' # "arrow"
    <3>1. lookahead # <<"ARROW">>
      BY <1>3, <1>7
    <3> QED BY <1>3, <3>1
  <2>7. Attributes'
    BY <2>5, <2>6 DEF Attributes
  <2>8. Handing'
    <3>1. handed' = handed
      BY <1>3, <1>7 DEF Shift
    <3> QED BY <3>1, HandingKept
  <2> QED BY <2>3, <2>7, <2>8
<1>8. ASSUME state = "arrow"
      PROVE  Carried
  <2>1. edge' = NoEdgeAttr
    <3>1. EdgeAttr = NoEdgeAttr
      BY <1>8 DEF EdgeAttr
    <3> QED BY <1>5, <3>1
  <2>2. said = <<>> /\ lookahead # <<"BLOB">>
    BY <1>3, <1>8 DEF Attributes
  <2>3. said' = <<>> /\ handed' = handed
    BY <1>8, <2>2 DEF Shift
  <2>4. edge' \in EdgeAttrs /\ said' \in Seq(Given)
    BY <2>1, <2>3 DEF EdgeAttrs, NoEdgeAttr
  <2>5. OnlyWritten(edge', said')
    BY <2>1, <2>3 DEF OnlyWritten, Says, LastSays, NoEdgeAttr
  <2> QED BY <2>3, <2>4, <2>5, HandingKept DEF Attributes
<1>9. ASSUME state \notin {"repeat=", "sequence=", "arrow"}
      PROVE  Carried
  <2>1. edge' = edge
    <3>1. EdgeAttr = edge
      BY <1>9 DEF EdgeAttr
    <3> QED BY <1>5, <3>1
  <2>2. said' = IF lookahead \in {<<"ARROW">>, <<"BLOB">>} THEN <<>> ELSE said
    BY <1>9 DEF Shift
  <2>3. said' \in Seq(Given)
    BY <1>6, <2>2
  <2>4. Attributes'
    <3>1. state' = "arrow" => said' = <<>>
      BY <1>3, <2>2
    <3>2. state' \in EdgeStates => state \in EdgeStates /\ said' = said
      BY <1>3, <1>9, <2>2 DEF EdgeStates
    <3>3. state' \in EdgeStates => OnlyWritten(edge', said')
      BY <2>1, <3>2 DEF Attributes
    <3> QED BY <3>1, <3>3 DEF Attributes
  <2>5. Handing'
    <3>1. CASE lookahead = <<"BLOB">>
      <4>1. handed' = <<[attr |-> edge, blob |-> payload, said |-> said]>>
        BY <3>1 DEF Shift
      <4>2. OneGroup(payload) /\ OnlyWritten(edge, said)
        BY <1>3, <3>1 DEF Waiting, Attributes, EdgeStates
      <4>3. ToSet(handed') = {[attr |-> edge, blob |-> payload, said |-> said]}
        BY <4>1 DEF ToSet
      <4> QED BY <4>2, <4>3 DEF Handing
    <3>2. CASE lookahead # <<"BLOB">>
      <4>1. handed' = handed
        BY <3>2 DEF Shift
      <4> QED BY <4>1, HandingKept
    <3> QED BY <3>1, <3>2
  <2> QED BY <1>6, <2>1, <2>3, <2>4, <2>5
<1>10. edge' \in EdgeAttrs /\ said' \in Seq(Given) /\ Attributes' /\ Handing'
  BY <1>7, <1>8, <1>9
<1>11. recovering' \in 0 .. 3 /\ (recovering' > 0 => recovering > 0)
  BY <1>5 DEF Types, TypeOK
<1>12. Types'
  <2>1. TypeOK'
    BY <1>3, <1>5, <1>10, <1>11 DEF Types, TypeOK, Lists
  <2>2. payload' \in Seq(Pieces)
    BY <1>5
  <2> QED BY <1>3, <1>5, <1>10, <2>1, <2>2 DEF Types, Lookaheads
<1>13. Bracketing' /\ Waiting'
  BY <1>4, <1>5 DEF Bracketing, Waiting
<1>14. Errors'
  BY <1>5, <1>11 DEF Errors
<1>15. Modes'
  <2>1. nerrors = 0 => (InEdge' <=> mode \in {"EDGEDEF", "EDGEATTR"})
    BY <1>3 DEF Modes
  <2> QED BY <1>5, <2>1 DEF Modes
<1> QED BY <1>10, <1>12, <1>13, <1>14, <1>15

LEMMA AcceptStep ==
  ASSUME Inv, Accept
  PROVE  Inv'
<1> USE DEF Inv, Accept
<1>1. /\ lookahead = <<"END">> /\ list = "rulelist" /\ state = "list"
      /\ mode' = mode /\ brackets' = brackets /\ payload' = payload /\ lookahead' = <<>>
  BY DEF AtEnd, scanner
<1>2. Types'
  BY <1>1 DEF Types, TypeOK, scanner, Lookaheads
<1>3. Bracketing' /\ Waiting'
  BY <1>1 DEF Bracketing, Waiting
<1>4. Handing'
  BY HandingKept
<1>5. Attributes' /\ Errors'
  BY DEF Attributes, Errors
<1>6. InEdge' <=> InEdge
  BY DEF InEdge
<1>7. Modes'
  BY <1>1, <1>6 DEF Modes
<1> QED BY <1>2, <1>3, <1>4, <1>5, <1>7

\* Errors that leave the token at hand: a character with no rule, and the
\* first errors at a token.
LEMMA ErrorStep ==
  ASSUME Inv, ScannerThrows \/ SyntaxError
  PROVE  Inv'
<1> USE DEF Inv
<1>1. /\ Recover /\ handed' \in {handed, <<>>} /\ runaway' \in BOOLEAN
      /\ mode' = mode /\ brackets' = brackets /\ payload' = payload /\ lookahead' = lookahead
  BY DEF ScannerThrows, Yylex, SyntaxError, scanner, Types, TypeOK
<1>2. reports' \in 0 .. ErrorCap /\ reports' > 0
  <2>1. reports \in 0 .. ErrorCap /\ recovering \in 0 .. 3
    BY DEF Types, TypeOK
  <2>2. recovering # 0 => reports > 0
    BY <2>1 DEF Errors
  <2>3. reports' \in {Saturated(reports + 1), reports}
        /\ (reports' = Saturated(reports + 1) \/ recovering # 0)
    BY DEF ScannerThrows, SyntaxError
  <2> QED BY <2>1, <2>2, <2>3, SaturatedFacts
<1>3. Types'
  <2>1. TypeOK'
    BY <1>1, <1>2, RecoverStep DEF Types, TypeOK, Lists
  <2>2. said' \in Seq({"repeat=", "sequence="} \X Numbers) /\ state' \in States
    BY <1>1, RecoverStep DEF States
  <2>3. lookahead' \in Lookaheads /\ payload' \in Seq(Pieces)
    BY <1>1 DEF Types
  <2> QED BY <2>1, <2>2, <2>3 DEF Types
<1>4. Bracketing' /\ Waiting'
  BY <1>1 DEF Bracketing, Waiting
<1>5. Errors'
  BY <1>1, <1>2, RecoverStep DEF Errors
<1> QED BY <1>1, <1>3, <1>4, <1>5, RecoverStep, HandingKept

LEMMA DiscardStep ==
  ASSUME Inv, Discard
  PROVE  Inv'
<1> USE DEF Inv
<1>1. /\ Recover /\ handed' = handed /\ runaway' = runaway /\ reports' = reports
      /\ mode' = mode /\ brackets' = brackets /\ payload' = <<>> /\ lookahead' = <<>>
      /\ lookahead \notin {<<>>, <<"END">>} /\ recovering = 3
  BY DEF Discard, Unexpected, Parsing
<1>2. mode # "EDGEATTR" /\ brackets = 0
  BY <1>1 DEF Bracketing
<1>3. reports > 0 /\ reports \in 0 .. ErrorCap
  BY <1>1 DEF Errors, Types, TypeOK
<1>4. payload' \in Seq(Pieces) /\ said' \in Seq({"repeat=", "sequence="} \X Numbers)
  BY <1>1, RecoverStep
<1>5. Types'
  <2>1. TypeOK'
    BY <1>1, <1>3, RecoverStep DEF Types, TypeOK, Lists
  <2>2. lookahead' \in Lookaheads /\ state' \in States
    BY <1>1, RecoverStep DEF Lookaheads, States
  <2> QED BY <1>4, <2>1, <2>2 DEF Types
<1>6. Bracketing' /\ Waiting'
  BY <1>1, <1>2 DEF Bracketing, Waiting
<1>7. Errors'
  BY <1>1, <1>3, RecoverStep DEF Errors
<1> QED BY <1>1, <1>5, <1>6, <1>7, RecoverStep, HandingKept

LEMMA AbortStep ==
  ASSUME Inv, Abort
  PROVE  Inv'
<1> USE DEF Inv
<1>1. UNCHANGED <<scanner, lookahead, list, state, recovering, edge, said, handed, nerrors, reports>>
      /\ result' = "abort" /\ recovering = 3
  BY DEF Abort
<1>2. Types'
  BY <1>1 DEF Types, TypeOK, scanner
<1>3. Bracketing' /\ Waiting'
  BY <1>1 DEF scanner, Bracketing, Waiting
<1>4. Handing'
  BY <1>1, HandingKept
<1>5. Attributes' /\ Errors'
  BY <1>1 DEF Attributes, Errors
<1>6. Modes'
  BY <1>1 DEF scanner, Modes, InEdge
<1> QED BY <1>2, <1>3, <1>4, <1>5, <1>6

LEMMA NextInv == Inv /\ [Next]_vars => Inv'
<1> SUFFICES ASSUME Inv, [Next]_vars PROVE Inv'
  OBVIOUS
<1>1. CASE ReadToken
  BY <1>1, ReadTokenStep
<1>2. CASE Skip \/ ReadEnd
  BY <1>2, QuietStep
<1>3. CASE OpenPayload
  BY <1>3, OpenPayloadStep
<1>4. CASE ScannerThrows \/ SyntaxError
  BY <1>4, ErrorStep
<1>5. CASE \E piece \in Pieces : ReadPayload(piece)
  BY <1>5, ReadPayloadStep
<1>6. CASE Shift
  BY <1>6, ShiftStep
<1>7. CASE Accept
  BY <1>7, AcceptStep
<1>8. CASE Discard
  BY <1>8, DiscardStep
<1>9. CASE Abort
  BY <1>9, AbortStep
<1>10. CASE UNCHANGED vars
  BY <1>10 DEF vars, scanner, parser, Inv, Types, TypeOK, Bracketing, Waiting, Handing,
               Attributes, Errors, Modes, InEdge
<1> QED BY <1>1, <1>2, <1>3, <1>4, <1>5, <1>6, <1>7, <1>8, <1>9, <1>10 DEF Next, Pieces

LEMMA Invariance == Spec => []Inv
BY InitInv, NextInv, PTL DEF Spec

-----------------------------------------------------------------------------
(* The theorems.                                                             *)

\* The variables of scanner and parser keep their types; bracket_count is
\* bounded by the payload, however often recovery interrupts an edge.
THEOREM TypeCorrect == Spec => []TypeOK
<1>1. Inv => TypeOK
  BY DEF Inv, Types
<1> QED BY <1>1, Invariance, PTL

\* Whatever the nesting and whatever went wrong before it, the payload that
\* HandleEdge is handed ends at the bracket that closes it.
THEOREM PayloadIsOneGroupHolds == Spec => []PayloadIsOneGroup
<1>1. Inv => PayloadIsOneGroup
  BY DEF Inv, Handing, PayloadIsOneGroup
<1> QED BY <1>1, Invariance, PTL

\* In every order and number of them, the repeat and sequence numbers that
\* were written for an edge reach HandleEdge as they were written last.
THEOREM EdgeAttrAsWrittenHolds == Spec => []EdgeAttrAsWritten
<1>1. Inv => EdgeAttrAsWritten
  BY DEF Inv, Handing, OnlyWritten, Says, EdgeAttrAsWritten, Written
<1> QED BY <1>1, Invariance, PTL

\* A number that was not written for an edge is the one edgeattr starts with,
\* never one of an earlier edge, whatever came between them.
NothingCarriedOver ==
  \A h \in ToSet(handed) :
    /\ Unwritten("repeat=", h.said) => h.attr.repeat = NoEdgeAttr.repeat
    /\ Unwritten("sequence=", h.said) => h.attr.sequence = NoEdgeAttr.sequence

\* Nothing of one edge is carried over to another, whatever the request is.
THEOREM NothingCarriedOverHolds == Spec => []NothingCarriedOver
<1>1. Inv => NothingCarriedOver
  BY DEF Inv, Handing, OnlyWritten, Says, NothingCarriedOver, NoEdgeAttr
<1> QED BY <1>1, Invariance, PTL

\* Until the first error the scanner's start condition and the parser's place
\* in the grammar agree whenever the parser waits for a token.
THEOREM ModesAgreeHolds == Spec => []ModesAgree
<1>1. Inv => ModesAgree
  <2> SUFFICES ASSUME Inv, nerrors = 0, Reading PROVE ModesAgree
    BY DEF ModesAgree
  <2>1. InEdge <=> mode \in {"EDGEDEF", "EDGEATTR"}
    BY DEF Inv, Modes, Reading
  <2>2. mode = "EDGEATTR" <=> brackets > 0
    BY DEF Inv, Bracketing, Types, TypeOK
  <2> QED BY <2>1, <2>2 DEF ModesAgree
<1> QED BY <1>1, Invariance, PTL

\* Errors are counted exactly if one of them is reported, and a parse that was
\* aborted has been counted.
THEOREM ErrorsAreCountedHolds == Spec => []ErrorsAreCounted
<1>1. Inv => ErrorsAreCounted
  BY DEF Inv, Errors, ErrorsAreCounted
<1> QED BY <1>1, Invariance, PTL
-----------------------------------------------------------------------------
(* Recovery ends.                                                            *)

\* How often the parser still looks at the token at hand, at most.
Tries == IF ~Parsing THEN 0 ELSE IF recovering < 3 THEN 2 ELSE 1

\* Whatever the parser does with a token at hand leaves it less to do with it.
TokensUsedUp == [][Parsing => Tries' < Tries]_vars

\* Each token is looked at twice at most, once before and once after the stack
\* was cut back (yyerrlab1 of bison's skeleton with the error rules of the
\* grammar), and then it is shifted, thrown away or ends the parse: recovery
\* never tries the same token for ever, the safety half of ParsingEnds.
THEOREM TokensUsedUpHolds == Spec => [](Tries \in 0 .. 2) /\ TokensUsedUp
<1>1. Tries \in 0 .. 2
  BY DEF Tries
<1>2. ASSUME Inv, Next, Parsing PROVE Tries' < Tries
  <2>1. /\ result = "run" /\ lookahead # <<>> /\ recovering \in 0 .. 3
        /\ Tries = IF recovering < 3 THEN 2 ELSE 1
    BY <1>2 DEF Parsing, Tries, Inv, Types, TypeOK
  <2>2. ~Reading
    BY <2>1 DEF Reading
  <2>3. Shift \/ Accept \/ SyntaxError \/ Discard \/ Abort
    BY <1>2, <2>2 DEF Next, ReadToken, Skip, OpenPayload, ReadEnd, ScannerThrows,
                      ReadPayload, Yylex
  <2>4. CASE Shift \/ Accept \/ Discard \/ Abort
    <3>1. lookahead' = <<>> \/ result' = "abort"
      BY <2>4 DEF Shift, Accept, Discard, Abort
    <3>2. Tries' = 0
      BY <3>1 DEF Tries, Parsing
    <3> QED BY <2>1, <3>2
  <2>5. CASE SyntaxError
    <3>1. recovering < 3 /\ recovering' = 3
      BY <2>5 DEF SyntaxError, Recover
    <3>2. Tries' \in {0, 1}
      BY <3>1 DEF Tries
    <3> QED BY <2>1, <3>1, <3>2
  <2> QED BY <2>3, <2>4, <2>5
<1>3. Inv /\ [Next]_vars => [Parsing => Tries' < Tries]_vars
  BY <1>2
<1> QED BY <1>1, <1>3, Invariance, PTL DEF Spec, TokensUsedUp
=============================================================================
