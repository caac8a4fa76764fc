---------------------------- MODULE FidiLintProofs ----------------------------
(****************************************************************************)
(* Proofs about FidiLint, for requests of any shape and depth.               *)
(****************************************************************************)
EXTENDS FidiLint, SequenceTheorems, FiniteSetTheorems, TLAPS

-----------------------------------------------------------------------------
(* The inductive invariant.                                                  *)

Drivers == [payload : Payloads, label : Seq(Int), edges : SUBSET Payloads, warnings : Nat]

\* The driver at i parses a payload the one below has taken the edge of from its
\* queue; the first one parses the request itself.
InPlace(s, i) ==
  /\ s[i].edges \subseteq Edges(s[i].payload)
  /\ i = 1 => s[i].payload = 0
  /\ i # 1 => s[i].payload \in Edges(s[i - 1].payload) \ s[i - 1].edges

\* s is a stack of drivers, nested like the payloads they parse.
Stacked(s) == s \in Seq(Drivers) /\ \A i \in 1 .. Len(s) : InPlace(s, i)

Items == [item : {"digraph", "}"}] \cup [item : {"edge"}, to : Payloads, label : Seq(Int)]

\* g begins with the one preamble, and has the one end at position l, if any.
Bracket(item, i, l) == (item = "digraph" <=> i = 1) /\ (item = "}" <=> i = l)
Bracketed(g, l) == \A i \in 1 .. Len(g) : Bracket(g[i].item, i, l)

Types ==
  /\ argv \in CommandLines /\ tree \in Trees
  /\ phase \in {"start", "helped", "refused", "execute", "done", "crashed"}

Nested ==
  /\ Stacked(stack)
  /\ phase \in {"execute", "done"} <=> Len(stack) > 0

Whole ==
  /\ graph \in Seq(Items)
  /\ phase = "start" => graph = <<>>
  /\ phase \in {"execute", "done"} => Len(graph) > 0
  /\ tree.sources = {} => Bracketed(graph, IF phase = "done" THEN Len(graph) ELSE 0)

Inv == Types /\ Nested /\ Whole

-----------------------------------------------------------------------------
(* Lemmas.                                                                   *)

LEMMA TreeShape ==
  ASSUME tree \in Trees
  PROVE  /\ Len(tree.parent) \in Nat /\ Payloads = 0 .. Len(tree.parent)
         /\ \A c \in Payloads \ {0} : /\ c \in 1 .. Len(tree.parent)
                                     /\ tree.parent[c] \in 0 .. c - 1
                                     /\ tree.parent[c] \in Payloads
                                     /\ tree.seq[c] \in Int
         /\ \A e \in 1 .. Len(tree.parent) : tree.parent[e] \in 0 .. e - 1
         /\ tree.seq \in [1 .. Len(tree.parent) -> Int]
         /\ \A e \in Payloads : tree.warns[e] \in Nat
<1>1. IsRequest(tree)
  BY TreeAssumption
<1>2. Len(tree.parent) \in Nat
  BY <1>1 DEF IsRequest
<1>3. \A e \in 1 .. Len(tree.parent) : tree.parent[e] \in 0 .. e - 1
  BY <1>1 DEF IsRequest
<1>4. /\ tree.seq \in [1 .. Len(tree.parent) -> Int]
      /\ tree.warns \in [0 .. Len(tree.parent) -> Nat]
  BY <1>1 DEF IsRequest
<1>5. ASSUME NEW c \in Payloads \ {0}
      PROVE  /\ c \in 1 .. Len(tree.parent)
             /\ tree.parent[c] \in 0 .. c - 1
             /\ tree.parent[c] \in Payloads
  <2>1. c \in 1 .. Len(tree.parent)
    BY <1>2 DEF Payloads
  <2> QED BY <1>2, <1>3, <2>1 DEF Payloads
<1>6. \A e \in Payloads : tree.warns[e] \in Nat
  BY <1>4 DEF Payloads
<1> QED BY <1>2, <1>3, <1>4, <1>5, <1>6 DEF Payloads

LEMMA TreeFacts ==
  ASSUME tree \in Trees, NEW e \in Payloads
  PROVE  /\ 0 \in Payloads /\ Payloads \subseteq Nat
         /\ tree.warns[e] \in Nat
         /\ e # 0 => tree.seq[e] \in Int
         /\ Edges(e) \subseteq Payloads \ {0}
BY TreeShape DEF Edges

\* A driver on top of others that makes one of the calls they are to make.
LEMMA Push ==
  ASSUME NEW below, Stacked(below), NEW d \in Drivers, d.edges \subseteq Edges(d.payload),
         below = <<>> => d.payload = 0,
         below # <<>> => d.payload \in Edges(Last(below).payload) \ Last(below).edges
  PROVE  Stacked(Append(below, d)) /\ Len(Append(below, d)) > 0
<1> DEFINE s == Append(below, d)
           n == Len(below)
<1>1. below \in Seq(Drivers) /\ n \in Nat /\ (below = <<>> <=> n = 0)
  BY DEF Stacked
<1>2. s \in Seq(Drivers) /\ Len(s) = n + 1 /\ s[n + 1] = d /\ \A i \in 1 .. n : s[i] = below[i]
  BY <1>1
<1>3. \A i \in 1 .. n : InPlace(below, i)
  BY DEF Stacked
<1>4. n > 0 => d.payload \in Edges(below[n].payload) \ below[n].edges
  BY <1>1 DEF Last
<1> HIDE DEF s, n
<1>5. ASSUME NEW i \in 1 .. n + 1
      PROVE  InPlace(s, i)
  <2>1. CASE i \in 1 .. n
    <3>1. s[i] = below[i] /\ (i # 1 => s[i - 1] = below[i - 1])
      BY <1>1, <1>2, <2>1
    <3>2. InPlace(below, i)
      BY <1>3, <2>1
    <3> QED BY <3>1, <3>2 DEF InPlace
  <2>2. CASE i = n + 1
    <3>1. i # 1 => n \in 1 .. n /\ n > 0
      BY <1>1, <2>2
    <3>2. i - 1 = n /\ (i = 1 => n = 0)
      BY <1>1, <2>2
    <3>3. s[i] = d
      BY <1>2, <2>2
    <3>4. i # 1 => s[i - 1] = below[n]
      BY <1>2, <3>1, <3>2
    <3> QED BY <1>1, <1>4, <3>1, <3>2, <3>3, <3>4 DEF InPlace
  <2> QED BY <1>1, <2>1, <2>2
<1> QED BY <1>1, <1>2, <1>5 DEF Stacked, s

\* The innermost driver may lose edges and get other warnings.
LEMMA Rework ==
  ASSUME NEW s, Stacked(s), s # <<>>, NEW d \in Drivers,
         d.payload = Last(s).payload, d.edges \subseteq Last(s).edges
  PROVE  Stacked([s EXCEPT ![Len(s)] = d])
<1> DEFINE t == [s EXCEPT ![Len(s)] = d]
           n == Len(s)
<1>1. s \in Seq(Drivers) /\ n \in Nat /\ n > 0 /\ n \in 1 .. n
  BY DEF Stacked
<1>2. t \in Seq(Drivers) /\ Len(t) = n /\ \A i \in 1 .. n : t[i] = IF i = n THEN d ELSE s[i]
  BY <1>1
<1>3. \A i \in 1 .. n : InPlace(s, i)
  BY DEF Stacked
<1>4. d.payload = s[n].payload /\ d.edges \subseteq s[n].edges
  BY DEF Last
<1> HIDE DEF t, n
<1>5. \A i \in 1 .. n : t[i].payload = s[i].payload /\ t[i].edges \subseteq s[i].edges
  BY <1>2, <1>4
<1>6. \A i \in 1 .. n : i # 1 => i - 1 \in 1 .. n
  BY <1>1
<1>7. ASSUME NEW i \in 1 .. n
      PROVE  InPlace(t, i)
  <2>1. InPlace(s, i)
    BY <1>3
  <2>2. t[i].payload = s[i].payload /\ t[i].edges \subseteq s[i].edges
    BY <1>5
  <2>3. i # 1 => t[i - 1].payload = s[i - 1].payload /\ t[i - 1].edges \subseteq s[i - 1].edges
    BY <1>5, <1>6
  <2> QED BY <2>1, <2>2, <2>3 DEF InPlace
<1> QED BY <1>2, <1>7 DEF Stacked, t

\* What Return leaves on the stack.
LEMMA Pop ==
  ASSUME NEW s, Stacked(s), Len(s) > 1
  PROVE  /\ Stacked(Front(s)) /\ Len(Front(s)) = Len(s) - 1 /\ Last(s).payload # 0
         /\ Last(Front(s)) \in Drivers
<1> DEFINE t == Front(s)
           n == Len(s)
<1>1. s \in Seq(Drivers) /\ n \in Nat /\ n > 1
  BY DEF Stacked
<1>2. t \in Seq(Drivers) /\ Len(t) = n - 1 /\ \A i \in 1 .. n - 1 : t[i] = s[i]
  BY <1>1 DEF Front
<1>3. \A i \in 1 .. n : InPlace(s, i)
  BY DEF Stacked
<1>4. Last(s) = s[n] /\ Last(t) = t[Len(t)]
  BY DEF Last
<1> HIDE DEF t, n
<1>5. ASSUME NEW i \in 1 .. n - 1
      PROVE  InPlace(t, i)
  <2>1. i \in 1 .. n /\ (i # 1 => i - 1 \in 1 .. n - 1)
    BY <1>1
  <2>2. t[i] = s[i] /\ (i # 1 => t[i - 1] = s[i - 1])
    BY <1>2, <2>1
  <2>3. InPlace(s, i)
    BY <1>3, <2>1
  <2> QED BY <2>2, <2>3 DEF InPlace
<1>6. s[n].payload # 0
  <2>1. n \in 1 .. n /\ n # 1
    BY <1>1
  <2>2. InPlace(s, n)
    BY <1>3, <2>1
  <2> QED BY <2>1, <2>2 DEF InPlace, Edges
<1>7. t[n - 1] \in Drivers
  BY <1>1, <1>2
<1> QED BY <1>1, <1>2, <1>4, <1>5, <1>6, <1>7 DEF Stacked, t, n

\* What a driver writes goes behind what is there.
LEMMA WriteOn ==
  ASSUME NEW g \in Seq(Items), Len(g) > 0, Bracketed(g, 0), NEW item \in Items,
         item.item # "digraph"
  PROVE  Bracketed(Append(g, item), IF item.item = "}" THEN Len(g) + 1 ELSE 0)
<1> DEFINE h == Append(g, item)
           n == Len(g)
           l == IF item.item = "}" THEN n + 1 ELSE 0
<1>1. /\ n \in Nat /\ n > 0 /\ Len(h) = n + 1 /\ h[n + 1] = item
      /\ \A i \in 1 .. n : h[i] = g[i]
  OBVIOUS
<1>2. \A i \in 1 .. n : Bracket(g[i].item, i, 0)
  BY DEF Bracketed
<1> HIDE DEF h, n
<1>3. (item.item = "}" <=> l = n + 1) /\ l \in {0, n + 1}
  <2>1. n + 1 # 0
    BY <1>1
  <2> HIDE DEF n
  <2> QED BY <2>1
<1> HIDE DEF l
<1>4. ASSUME NEW i \in 1 .. n + 1
      PROVE  Bracket(h[i].item, i, l)
  <2>1. CASE i \in 1 .. n
    <3>1. h[i] = g[i] /\ i # n + 1 /\ i # 0
      BY <1>1, <2>1
    <3>2. Bracket(g[i].item, i, 0)
      BY <1>2, <2>1
    <3> QED BY <1>3, <3>1, <3>2 DEF Bracket
  <2>2. CASE i = n + 1
    <3>1. h[i] = item /\ i # 1
      BY <1>1, <2>2
    <3> QED BY <1>3, <2>2, <3>1 DEF Bracket
  <2> QED BY <1>1, <2>1, <2>2
<1>5. \A i \in 1 .. Len(h) : Bracket(h[i].item, i, l)
  BY <1>1, <1>4
<1> QED BY <1>5 DEF Bracketed, h, l, n

\* Drivers, edges and payloads are those of the request, which stays.
LEMMA SameRequest ==
  ASSUME tree' = tree
  PROVE  /\ Payloads' = Payloads /\ Drivers' = Drivers /\ Items' = Items
         /\ \A s : Stacked(s)' <=> Stacked(s)
BY DEF Payloads, Drivers, Items, Stacked, InPlace, Edges

LEMMA TwoItems ==
  ASSUME NEW x, NEW y
  PROVE  <<x>> \o <<y>> = <<x, y>>
<1>1. <<x>> \in Seq({x, y}) /\ y \in {x, y}
  OBVIOUS
<1>2. Append(<<x>>, y) = <<x>> \o <<y>>
  BY <1>1, AppendIsConcat
<1>3. Append(<<x>>, y) = <<x, y>>
  <2>1. <<x, y>> \in Seq({x, y}) /\ Len(<<x, y>>) = 2 /\ Len(<<x>>) = 1
    OBVIOUS
  <2>2. <<x, y>>[1] = x /\ <<x, y>>[2] = y /\ <<x>>[1] = x
    OBVIOUS
  <2>3. /\ Append(<<x>>, y) \in Seq({x, y}) /\ Len(Append(<<x>>, y)) = 2
        /\ Append(<<x>>, y)[1] = x /\ Append(<<x>>, y)[2] = y
    BY <1>1, <2>1, <2>2, AppendProperties
  <2>4. \A i \in 1 .. 2 : i = 1 \/ i = 2
    OBVIOUS
  <2> QED BY <2>1, <2>2, <2>3, <2>4, SeqEqual
<1> QED BY <1>2, <1>3

\* A driver that begins, at the bottom or on top of others.
LEMMA BeginStep ==
  ASSUME Types, Whole, NEW e \in Payloads, NEW label \in Seq(Int), NEW below, Stacked(below),
         below = <<>> => e = 0 /\ phase = "start",
         below # <<>> => /\ e \in Edges(Last(below).payload) \ Last(below).edges
                         /\ phase = "execute",
         Begin(e, label, below), UNCHANGED input
  PROVE  Inv'
<1> DEFINE d == [payload |-> e, label |-> label, edges |-> Edges(e), warnings |-> tree.warns[e]]
           edge == [item |-> "edge", to |-> e, label |-> label]
<1>1. argv' = argv /\ tree' = tree /\ tree \in Trees /\ argv \in CommandLines
  BY DEF input, Types
<1>2. ASSUME e \in tree.throws
      PROVE  Inv'
  <2>1. phase' = "crashed" /\ stack' = <<>> /\ graph' = graph
    BY <1>2 DEF Begin
  <2>2. Stacked(<<>>)
    BY DEF Stacked
  <2>3. Stacked(stack)'
    BY <1>1, <2>1, <2>2 DEF Stacked
  <2>4. Nested'
    BY <2>1, <2>3 DEF Nested
  <2>5. Whole'
    <3>1. graph' \in Seq(Items)' /\ tree'.sources = tree.sources
      BY <1>1, <2>1, SameRequest DEF Whole
    <3>2. phase # "done"
      OBVIOUS
    <3>3. tree.sources = {} => Bracketed(graph, 0)
      BY <3>2 DEF Whole
    <3> QED BY <2>1, <3>1, <3>3 DEF Whole
  <2> QED BY <1>1, <2>1, <2>4, <2>5 DEF Types, Inv
<1>3. ASSUME e \notin tree.throws
      PROVE  Inv'
  <2>1. /\ phase' = "execute" /\ stack' = Append(below, d)
        /\ graph' = graph \o (IF Preamble(e) THEN <<[item |-> "digraph"]>> ELSE <<>>) \o <<edge>>
    BY <1>3 DEF Begin
  <2>2. d \in Drivers /\ d.payload = e /\ d.edges \subseteq Edges(d.payload)
    BY <1>1, TreeFacts DEF Drivers
  <2>3. Stacked(stack') /\ Len(stack') > 0
    <3>1. below = <<>> => d.payload = 0
      BY <2>2
    <3>2. below # <<>> => d.payload \in Edges(Last(below).payload) \ Last(below).edges
      BY <2>2
    <3> HIDE DEF d
    <3> QED BY <2>1, <2>2, <3>1, <3>2, Push
  <2>4. Nested'
    BY <1>1, <2>1, <2>3, SameRequest DEF Nested
  <2>5. edge \in Items /\ edge.item = "edge" /\ [item |-> "digraph"] \in Items
    BY DEF Items
  <2> HIDE DEF d, edge
  <2>6. CASE below = <<>>
    <3>1. graph' = <<[item |-> "digraph"], edge>>
      <4>1. graph = <<>> /\ Preamble(e)
        BY <2>6 DEF Whole, Preamble
      <4>2. <<>> \o <<[item |-> "digraph"]>> = <<[item |-> "digraph"]>>
        OBVIOUS
      <4>3. <<[item |-> "digraph"]>> \o <<edge>> = <<[item |-> "digraph"], edge>>
        BY TwoItems
      <4> QED BY <2>1, <4>1, <4>2, <4>3
    <3>2. graph' \in Seq(Items) /\ Len(graph') = 2
      BY <2>5, <3>1
    <3>3. Bracketed(graph', 0)
      <4>1. graph'[1].item = "digraph" /\ graph'[2].item = "edge"
        BY <2>5, <3>1
      <4>2. \A i \in 1 .. 2 : Bracket(graph'[i].item, i, 0)
        <5>1. \A i \in 1 .. 2 : i = 1 \/ i = 2
          OBVIOUS
        <5>2. Bracket(graph'[1].item, 1, 0) /\ Bracket(graph'[2].item, 2, 0)
          BY <4>1 DEF Bracket
        <5> QED BY <5>1, <5>2
      <4> QED BY <3>2, <4>2 DEF Bracketed
    <3> QED BY <1>1, <2>1, <2>4, <3>2, <3>3, SameRequest DEF Types, Whole, Inv
  <2>7. CASE below # <<>>
    <3>1. /\ graph \in Seq(Items) /\ Len(graph) > 0
          /\ tree.sources = {} => Bracketed(graph, 0)
      BY <2>7 DEF Whole
    <3>2. e # 0
      BY <2>7 DEF Edges
    <3>3. graph' \in Seq(Items) /\ Len(graph') > 0
      <4>1. CASE Preamble(e)
        BY <2>1, <2>5, <3>1, <4>1
      <4>2. CASE ~Preamble(e)
        BY <2>1, <2>5, <3>1, <4>2
      <4> QED BY <4>1, <4>2
    <3>4. ASSUME tree.sources = {} PROVE Bracketed(graph', 0)
      <4>1. ~Preamble(e)
        BY <3>2, <3>4 DEF Preamble
      <4>2. graph' = Append(graph, edge)
        BY <2>1, <2>5, <3>1, <4>1
      <4> QED BY <2>5, <3>1, <3>4, <4>2, WriteOn
    <3> QED BY <1>1, <2>1, <2>4, <3>3, <3>4, SameRequest DEF Types, Whole, Inv
  <2> QED BY <2>6, <2>7
<1> QED BY <1>2, <1>3

LEMMA InitInv == Init => Inv
<1> SUFFICES ASSUME Init PROVE Inv
  OBVIOUS
<1> QED BY DEF Init, Inv, Types, Nested, Stacked, Whole, Bracketed

LEMMA MainStep ==
  ASSUME Inv, Main
  PROVE  Inv'
<1>1. Types /\ Whole /\ phase = "start" /\ UNCHANGED input /\ Begin(0, <<1>>, <<>>)
  BY DEF Inv, Main
<1>2. 0 \in Payloads
  BY <1>1, TreeShape DEF Types
<1>3. Stacked(<<>>)
  BY DEF Stacked
<1>4. <<1>> \in Seq(Int)
  OBVIOUS
<1> QED BY <1>1, <1>2, <1>3, <1>4, BeginStep

LEMMA HandleBlobStep ==
  ASSUME Inv, HandleBlob
  PROVE  Inv'
<1> DEFINE n == Len(stack)
           rest(e) == [Driver EXCEPT !.edges = @ \ {e}]
           below(e) == [stack EXCEPT ![Len(stack)].edges = @ \ {e}]
<1>1. /\ Types /\ Whole /\ Stacked(stack) /\ phase = "execute" /\ UNCHANGED input
      /\ stack \in Seq(Drivers) /\ n \in Nat /\ n > 0 /\ stack # <<>>
  BY DEF Inv, Nested, Stacked, HandleBlob
<1>2. PICK e \in Top(Driver.edges) : Begin(e, NewSequence(e), below(e))
  BY DEF HandleBlob
<1>3. Driver = stack[n] /\ Driver \in Drivers /\ e \in Driver.edges
  BY <1>1, <1>2 DEF Driver, Last, Top
<1>4. Driver.edges \subseteq Edges(Driver.payload)
  <2>1. InPlace(stack, n)
    BY <1>1 DEF Stacked
  <2> QED BY <1>3, <2>1 DEF InPlace
<1>5. e \in Payloads /\ e # 0
  BY <1>3, <1>4 DEF Edges
<1>6. NewSequence(e) \in Seq(Int)
  BY <1>1, <1>3, <1>5, TreeFacts DEF Types, NewSequence, Drivers
<1>7. rest(e) \in Drivers /\ rest(e).payload = Driver.payload /\ rest(e).edges = Driver.edges \ {e}
  BY <1>3 DEF Drivers
<1>8. below(e) = [stack EXCEPT ![Len(stack)] = rest(e)]
  BY <1>1, <1>3
<1> HIDE DEF rest
<1>9. Stacked(below(e))
  BY <1>1, <1>3, <1>7, <1>8, Rework DEF Driver
<1>10. below(e) # <<>> /\ Last(below(e)) = rest(e)
  BY <1>1, <1>8 DEF Last
<1>11. e \in Edges(Last(below(e)).payload) \ Last(below(e)).edges
  BY <1>3, <1>4, <1>7, <1>10
<1> HIDE DEF below
<1>12. PICK label, rested : label = NewSequence(e) /\ rested = below(e)
  OBVIOUS
<1>13. /\ label \in Seq(Int) /\ Stacked(rested) /\ rested # <<>>
       /\ e \in Edges(Last(rested).payload) \ Last(rested).edges
       /\ Begin(e, label, rested)
  BY <1>2, <1>6, <1>9, <1>10, <1>11, <1>12
<1> QED BY <1>1, <1>5, <1>13, BeginStep

LEMMA ReturnStep ==
  ASSUME Inv, Return
  PROVE  Inv'
<1> DEFINE closing == [item |-> "}"]
<1>1. /\ Types /\ Whole /\ Stacked(stack) /\ phase = "execute" /\ UNCHANGED input
      /\ stack \in Seq(Drivers) /\ Len(stack) \in Nat /\ Len(stack) > 0
      /\ tree' = tree
  <2>1. Types /\ Whole /\ Stacked(stack) /\ (phase = "execute" => Len(stack) > 0)
    BY DEF Inv, Nested
  <2>2. stack \in Seq(Drivers) /\ Len(stack) \in Nat
    BY <2>1 DEF Stacked
  <2>3. phase = "execute" /\ UNCHANGED input /\ tree' = tree
    BY DEF Return, input
  <2> QED BY <2>1, <2>2, <2>3
<1>2. Types'
  BY <1>1 DEF Types, input, Return
<1>3. closing \in Items /\ closing.item = "}"
  BY DEF Items
<1>4. graph \in Seq(Items) /\ Len(graph) > 0 /\ (tree.sources = {} => Bracketed(graph, 0))
  BY <1>1 DEF Whole
<1>5. graph' = IF Preamble(Driver.payload) THEN Append(graph, closing) ELSE graph
  BY DEF Return
<1> HIDE DEF closing
<1>6. graph' \in Seq(Items) /\ Len(graph') > 0
  <2>1. Append(graph, closing) \in Seq(Items) /\ Len(Append(graph, closing)) > 0
    <3>1. graph \in Seq(Items) /\ closing \in Items
      BY <1>3, <1>4
    <3>2. Len(graph) \in Nat
      BY <3>1, LenProperties
    <3> QED BY <3>1, <3>2, AppendProperties
  <2> QED BY <1>4, <1>5, <2>1
<1>7. Preamble(Driver.payload) /\ tree.sources = {} => Bracketed(graph', Len(graph'))
  <2>1. Len(Append(graph, closing)) = Len(graph) + 1
    BY <1>3, <1>4, AppendProperties
  <2> QED BY <1>3, <1>4, <1>5, <2>1, WriteOn
<1>8. CASE Len(stack) > 1
  <2>1. stack' = TotalOf(Front(stack)) /\ phase' = "execute"
    BY <1>1, <1>8 DEF Return
  <2>2. /\ Stacked(Front(stack)) /\ Len(Front(stack)) = Len(stack) - 1
        /\ Driver.payload # 0 /\ Last(Front(stack)) \in Drivers
    BY <1>1, <1>8, Pop DEF Driver
  <2>3. Stacked(stack') /\ Len(stack') > 0
    <3> DEFINE below == Front(stack)
               total == [Last(below) EXCEPT !.warnings = @ + Driver.warnings]
    <3>1. Driver \in Drivers /\ Driver.warnings \in Nat
      <4>1. Len(stack) \in 1 .. Len(stack)
        BY <1>1
      <4>2. stack[Len(stack)] \in Drivers
        BY <1>1, <4>1
      <4> QED BY <4>2 DEF Driver, Last, Drivers
    <3>2. total \in Drivers /\ total.payload = Last(below).payload
          /\ total.edges = Last(below).edges
      <4>1. \A x \in Drivers, w \in Nat :
               LET y == [x EXCEPT !.warnings = @ + w]
               IN  y \in Drivers /\ y.payload = x.payload /\ y.edges = x.edges
        BY DEF Drivers
      <4>2. Last(below) \in Drivers /\ Driver.warnings \in Nat
        BY <2>2, <3>1
      <4> HIDE DEF below
      <4> QED BY <4>1, <4>2
    <3>3. below \in Seq(Drivers) /\ Len(below) > 0 /\ below # <<>>
      BY <1>1, <1>8, <2>2 DEF Stacked
    <3>4. stack' = [below EXCEPT ![Len(below)] = total]
      <4> HIDE DEF below
      <4> QED BY <2>1, <2>2, <3>3 DEF TotalOf, Last, below
    <3>5. Len(stack') = Len(below)
      <4> HIDE DEF below, total
      <4> QED BY <3>3, <3>4
    <3> HIDE DEF below, total
    <3> QED BY <2>2, <3>2, <3>3, <3>4, <3>5, Rework DEF below
  <2>4. Nested'
    BY <1>1, <2>1, <2>3, SameRequest DEF Nested
  <2>5. tree.sources = {} => Bracketed(graph', 0)
    BY <1>4, <1>5, <2>2 DEF Preamble
  <2> QED BY <1>1, <1>2, <1>6, <2>1, <2>4, <2>5, SameRequest DEF Whole, Inv
<1>9. CASE Len(stack) = 1
  <2>1. stack' = stack /\ phase' = "done"
    <3>1. ~(Len(stack) > 1)
      BY <1>9
    <3> QED BY <3>1, Zenon DEF Return
  <2>2. Driver.payload = 0
    <3>1. InPlace(stack, 1)
      BY <1>1, <1>9 DEF Stacked
    <3> QED BY <1>9, <3>1 DEF InPlace, Driver, Last
  <2>3. Nested'
    BY <1>1, <2>1, SameRequest DEF Nested
  <2>4. tree.sources = {} => Bracketed(graph', Len(graph'))
    BY <1>7, <2>2 DEF Preamble
  <2> QED BY <1>1, <1>2, <1>6, <2>1, <2>3, <2>4, SameRequest DEF Whole, Inv
<1>10. Len(stack) > 1 \/ Len(stack) = 1
  <2>1. Len(stack) \in Nat /\ Len(stack) > 0
    BY <1>1
  <2>2. \A k \in Nat : k > 0 => k > 1 \/ k = 1
    OBVIOUS
  <2> QED BY <2>1, <2>2
<1> QED BY <1>8, <1>9, <1>10

LEMMA NextInv == Inv /\ [Next]_vars => Inv'
<1> SUFFICES ASSUME Inv, [Next]_vars PROVE Inv'
  OBVIOUS
<1>1. CASE Main
  BY <1>1, MainStep
<1>2. CASE HandleBlob
  BY <1>2, HandleBlobStep
<1>3. CASE Return
  BY <1>3, ReturnStep
<1>4. CASE Help \/ Refuse \/ UNCHANGED vars
  <2>1. /\ tree' = tree /\ argv' = argv /\ stack' = stack /\ graph' = graph
        /\ phase' = phase \/ (phase = "start" /\ phase' \in {"helped", "refused"})
    BY <1>4 DEF Help, Refuse, vars, input
  <2>2. Types' /\ Nested'
    BY <2>1, SameRequest DEF Inv, Types, Nested
  <2>3. Whole'
    BY <2>1, SameRequest DEF Inv, Whole
  <2> QED BY <2>2, <2>3 DEF Inv
<1> QED BY <1>1, <1>2, <1>3, <1>4 DEF Next

LEMMA Invariance == Spec => []Inv
BY InitInv, NextInv, PTL DEF Spec

-----------------------------------------------------------------------------
(* The theorems that follow from the first part.                             *)

\* The drivers at work are always nested like the payloads of the request, and
\* the edge of a driver at work has left the queue of its caller, to any depth.
THEOREM TypeCorrect == Spec => []TypeOK
<1>1. Inv => TypeOK
  <2> SUFFICES ASSUME Inv PROVE TypeOK
    OBVIOUS
  <2>1. stack \in Seq(Drivers) /\ Len(stack) \in Nat /\ DOMAIN stack = 1 .. Len(stack)
    BY DEF Inv, Nested, Stacked
  <2>2. ASSUME NEW i \in DOMAIN stack
        PROVE  /\ stack[i].payload \in Payloads
               /\ stack[i].label \in Seq(Int) /\ stack[i].warnings \in Nat
               /\ i > 1 => stack[i].payload \in Edges(stack[i - 1].payload) \ stack[i - 1].edges
    <3>1. stack[i] \in Drivers
      BY <2>1
    <3>2. InPlace(stack, i)
      BY <2>1 DEF Inv, Nested, Stacked
    <3> QED BY <2>1, <3>1, <3>2 DEF Drivers, InPlace
  <2> QED BY <2>2 DEF Inv, Types, TypeOK
<1> QED BY <1>1, Invariance, PTL

\* What is drawn for a request without a node called Source is one graph, with
\* one beginning and one end, whatever its depth and wherever a check throws.
THEOREM GraphIsWholeHolds == Spec => []GraphIsWhole
<1>1. Inv => GraphIsWhole
  <2> SUFFICES ASSUME Inv, tree.sources = {}, NEW i \in DOMAIN graph
               PROVE  /\ IsItem(i, "digraph") <=> i = 1
                      /\ IsItem(i, "}") <=> (phase = "done" /\ i = Len(graph))
    BY DEF GraphIsWhole
  <2>1. Bracket(graph[i].item, i, IF phase = "done" THEN Len(graph) ELSE 0) /\ i # 0
    BY DEF Inv, Whole, Bracketed
  <2> QED BY <2>1 DEF Bracket, IsItem
<1> QED BY <1>1, Invariance, PTL

-----------------------------------------------------------------------------
(* The tree of the payloads.                                                 *)

LEMMA LabelStep ==
  ASSUME tree \in Trees
  PROVE  /\ Label[tree][0] = <<1>>
         /\ \A c \in Payloads \ {0} :
              Label[tree][c] = Append(Label[tree][tree.parent[c]], tree.seq[c])
<1> DEFINE n == Len(tree.parent)
<1>1. n \in Nat /\ Len(tree.seq) = n
  BY TreeShape
<1>2. Labels!Backward(tree.parent, n)
  BY TreeShape DEF Labels!Backward
<1>3. Label[tree] = Labels!Chain(tree.seq, tree.parent)
  BY DEF Label
<1>4. /\ Label[tree][0] = <<1>>
      /\ \A c \in 1 .. n : Label[tree][c] = Append(Label[tree][tree.parent[c]], tree.seq[c])
  BY <1>1, <1>2, <1>3, Labels!ChainStep
<1> QED BY <1>4, TreeShape

LEMMA WayStep ==
  ASSUME tree \in Trees
  PROVE  /\ Way[tree][0] = {0}
         /\ \A c \in Payloads \ {0} : Way[tree][c] = Way[tree][tree.parent[c]] \cup {c}
<1> DEFINE n == Len(tree.parent)
           self == [e \in 1 .. n |-> e]
<1>1. n \in Nat /\ Len(self) = n /\ \A e \in 1 .. n : self[e] = e
  BY TreeShape
<1>2. Ways!Backward(tree.parent, n)
  BY TreeShape DEF Ways!Backward
<1>3. Way[tree] = Ways!Chain(self, tree.parent)
  BY DEF Way
<1> HIDE DEF self
<1>4. /\ Way[tree][0] = {0}
      /\ \A c \in 1 .. n : Way[tree][c] = Join(Way[tree][tree.parent[c]], self[c])
  BY <1>1, <1>2, <1>3, Ways!ChainStep
<1> QED BY <1>1, <1>4, TreeShape DEF Join

\* The way to e is a chain of parents: its payloads come before e, and no two of
\* them are calls of one payload.
IsChain(e) ==
  /\ Way[tree][e] \subseteq 0 .. e /\ e \in Way[tree][e]
  /\ \A a \in Way[tree][e] \ {0} : tree.parent[a] \in Way[tree][e]
  /\ \A a, b \in Way[tree][e] \ {0} : tree.parent[a] = tree.parent[b] => a = b

LEMMA WaysAreChains ==
  ASSUME tree \in Trees
  PROVE  \A e \in Payloads : IsChain(e)
<1> DEFINE n == Len(tree.parent)
           S == {e \in Payloads : IsChain(e)}
<1>1. n \in Nat /\ Payloads = 0 .. n
  BY TreeShape
<1>2. ASSUME NEW e \in 0 .. n, \A d \in 0 .. n : d < e => d \in S
      PROVE  e \in S
  <2>1. CASE e = 0
    <3>1. Way[tree][0] = {0}
      BY WayStep
    <3> QED BY <1>1, <2>1, <3>1 DEF IsChain
  <2>2. CASE e # 0
    <3> DEFINE p == tree.parent[e]
    <3>1. e \in Payloads \ {0}
      BY <1>1, <2>2
    <3>2. p \in 0 .. e - 1 /\ p \in 0 .. n /\ p < e
      BY <1>1, <3>1, TreeShape
    <3>3. IsChain(p)
      BY <1>2, <3>2
    <3>4. Way[tree][e] = Way[tree][p] \cup {e}
      BY <3>1, WayStep
    <3> HIDE DEF p
    <3>5. Way[tree][e] \subseteq 0 .. e /\ e \in Way[tree][e]
      BY <3>2, <3>3, <3>4 DEF IsChain
    <3>6. \A a \in Way[tree][e] \ {0} : tree.parent[a] \in Way[tree][e]
      BY <3>3, <3>4 DEF IsChain, p
    <3>7. ASSUME NEW a \in Way[tree][p] \ {0} PROVE tree.parent[a] # tree.parent[e]
      <4>1. a \in Payloads \ {0} /\ a <= p
        BY <1>1, <3>2, <3>3, <3>7 DEF IsChain
      <4>2. tree.parent[a] < a
        BY <1>1, <4>1, TreeShape
      <4> QED BY <1>1, <3>2, <4>1, <4>2, TreeShape DEF p
    <3>8. \A a, b \in Way[tree][e] \ {0} : tree.parent[a] = tree.parent[b] => a = b
      BY <3>3, <3>4, <3>7 DEF IsChain
    <3> QED BY <1>1, <3>5, <3>6, <3>8 DEF IsChain
  <2> QED BY <2>1, <2>2
<1> HIDE DEF S
<1>3. \A e \in 0 .. n : e \in S
  BY <1>1, <1>2, Ways!StrongInduction
<1> QED BY <1>1, <1>3 DEF S

-----------------------------------------------------------------------------
(* The second part of the inductive invariant: what was drawn and what the   *)
(* drivers at work have still to draw, for a graph g, a stack s and the set  *)
(* D of the payloads that are drawn.                                         *)

Drawn(g) == {e \in Payloads : \E i \in 1 .. Len(g) : g[i].item = "edge" /\ g[i].to = e}

Spelled(x) == x.item = "edge" => x.label = Label[tree][x.to]
Behind(x, y) == x.item = "edge" /\ y.item = "edge" => x.to # y.to /\ MayPrecede(x.to, y.to)
Ordered(g) ==
  \A i \in 1 .. Len(g) : Spelled(g[i]) /\ \A j \in 1 .. i - 1 : Behind(g[j], g[i])

\* A driver has drawn its payload and knows its label; the calls it has still to
\* make are not drawn, and none of those that are should have waited for them.
Waits(d, D) ==
  /\ d.payload \in D /\ d.label = Label[tree][d.payload]
  /\ \A c \in d.edges : c \notin D /\ \A e \in D : MayPrecede(e, c)
AllWait(s, D) == \A i \in 1 .. Len(s) : Waits(s[i], D)

Deepening(s) == \A i \in 1 .. Len(s) : \A j \in 1 .. i - 1 : s[j].payload < s[i].payload

\* What is not drawn, but the payload it is in is, waits with the driver of that.
Pending(s, c) == \E i \in 1 .. Len(s) : s[i].payload = tree.parent[c] /\ c \in s[i].edges
NoneLost(s, D) == \A c \in Payloads \ {0} : c \notin D /\ tree.parent[c] \in D => Pending(s, c)
Closed(D) == \A c \in D \ {0} : tree.parent[c] \in D

\* The warnings the drivers at work hold, and those of the payloads in D.
Load(m, d) == m + d.warnings
Loads == INSTANCE Recursion WITH Base <- 0, Step <- Load
Share(D) == [k \in 1 .. Len(tree.parent) + 1 |-> IF k - 1 \in D THEN tree.warns[k - 1] ELSE 0]
SumOf(D) == Sums!Fold(Share(D))

Working(s, D) == 0 \in D /\ NoneLost(s, D) /\ Loads!Fold(s) = SumOf(D)

ProgressOf(g, s, p) ==
  /\ Ordered(g) /\ Closed(Drawn(g))
  /\ AllWait(s, Drawn(g)) /\ Deepening(s)
  /\ p \in {"execute", "done"} => Working(s, Drawn(g))
  /\ p = "done" => Len(s) = 1 /\ s[1].edges = {}

Progress == ProgressOf(graph, stack, phase)

-----------------------------------------------------------------------------
(* Who may be drawn before whom.                                             *)

\* What may precede a call may precede the calls of its payload.
LEMMA PrecedesChild ==
  ASSUME tree \in Trees, NEW d \in Payloads, NEW e \in Payloads, MayPrecede(d, e), NEW c \in Edges(e)
  PROVE  MayPrecede(d, c)
<1>1. c \in Payloads \ {0} /\ tree.parent[c] = e /\ c # 0
  BY DEF Edges
<1>2. Way[tree][c] = Way[tree][e] \cup {c}
  BY <1>1, WayStep
<1>3. IsChain(d)
  BY WaysAreChains
<1>4. e \notin Way[tree][d] /\ c \notin Way[tree][d]
  BY <1>1, <1>3 DEF MayPrecede, IsChain
<1>5. ASSUME NEW a \in Way[tree][d] \ {0}, NEW b \in Way[tree][c] \ {0}
      PROVE  InOrder(a, b)
  <2>1. CASE b \in Way[tree][e]
    BY <2>1 DEF MayPrecede
  <2>2. CASE b = c
    <3>1. tree.parent[a] # e
      BY <1>3, <1>4 DEF IsChain
    <3> QED BY <1>1, <2>2, <3>1 DEF InOrder
  <2> QED BY <1>2, <2>1, <2>2
<1> QED BY <1>4, <1>5 DEF MayPrecede

\* A payload precedes those of its calls.
LEMMA PrecedesOwn ==
  ASSUME tree \in Trees, NEW e \in Payloads, NEW c \in Edges(e)
  PROVE  MayPrecede(e, c)
<1>1. c \in Payloads \ {0} /\ tree.parent[c] = e /\ c # 0
  BY DEF Edges
<1>2. Way[tree][c] = Way[tree][e] \cup {c}
  BY <1>1, WayStep
<1>3. IsChain(e)
  BY WaysAreChains
<1>4. e < c /\ e \in Nat /\ c \in Nat
  BY <1>1, TreeShape
<1>5. c \notin Way[tree][e]
  BY <1>3, <1>4 DEF IsChain
<1>6. ASSUME NEW a \in Way[tree][e] \ {0}, NEW b \in Way[tree][c] \ {0}
      PROVE  InOrder(a, b)
  <2>1. CASE b \in Way[tree][e]
    BY <1>3, <2>1 DEF IsChain, InOrder
  <2>2. CASE b = c
    <3>1. a \in Payloads \ {0} /\ a <= e
      <4>1. a \in 0 .. e
        BY <1>3 DEF IsChain
      <4> QED BY <1>4, <4>1, TreeShape
    <3>2. tree.parent[a] < a
      BY <3>1, TreeShape
    <3>3. tree.parent[a] # e
      BY <1>4, <3>1, <3>2, TreeShape
    <3> QED BY <1>1, <2>2, <3>3 DEF InOrder
  <2> QED BY <1>2, <2>1, <2>2
<1> QED BY <1>5, <1>6 DEF MayPrecede

\* The call e of payload p precedes what p may precede: the other calls of p
\* with no smaller number, and the calls of payloads that come before p.
LEMMA PrecedesRest ==
  ASSUME tree \in Trees, NEW p \in Payloads, NEW e \in Edges(p), NEW q \in Payloads,
         NEW c \in Edges(q), c # e, MayPrecede(p, c),
         q < p \/ (q = p /\ tree.seq[e] <= tree.seq[c])
  PROVE  MayPrecede(e, c)
<1>1. /\ e \in Payloads \ {0} /\ tree.parent[e] = p
      /\ c \in Payloads \ {0} /\ tree.parent[c] = q
      /\ p \in Nat /\ q \in Nat
  BY TreeShape DEF Edges
<1>2. Way[tree][e] = Way[tree][p] \cup {e} /\ Way[tree][c] = Way[tree][q] \cup {c}
  BY <1>1, WayStep
<1>3. IsChain(q)
  BY WaysAreChains
<1>4. c \notin Way[tree][e]
  BY <1>2 DEF MayPrecede
<1>5. ASSUME NEW b \in Way[tree][c] \ {0}
      PROVE  InOrder(e, b)
  <2>1. CASE b \in Way[tree][q]
    <3>1. b \in 0 .. q
      BY <1>3, <2>1 DEF IsChain
    <3>2. b \in Payloads \ {0} /\ b <= q
      BY <1>1, <3>1, TreeShape
    <3>3. tree.parent[b] < b /\ tree.parent[b] \in Nat /\ b \in Nat
      BY <3>2, TreeShape
    <3>4. tree.parent[b] # p
      BY <1>1, <3>2, <3>3
    <3> QED BY <1>1, <3>4 DEF InOrder
  <2>2. CASE b = c
    BY <1>1, <2>2 DEF InOrder
  <2> QED BY <1>2, <2>1, <2>2
<1> QED BY <1>2, <1>4, <1>5 DEF MayPrecede

-----------------------------------------------------------------------------
(* What is written to the graph.                                             *)

LEMMA DrawOther ==
  ASSUME NEW g \in Seq(Items), Ordered(g), NEW x \in Items, x.item # "edge"
  PROVE  Drawn(Append(g, x)) = Drawn(g) /\ Ordered(Append(g, x))
<1> DEFINE n == Len(g)
           h == Append(g, x)
<1>1. n \in Nat /\ Len(h) = n + 1 /\ h[n + 1] = x /\ \A i \in 1 .. n : h[i] = g[i]
  OBVIOUS
<1> HIDE DEF h, n
<1>2. 1 .. n \subseteq 1 .. n + 1 /\ \A i \in 1 .. n + 1 : i \in 1 .. n \/ i = n + 1
  BY <1>1
<1>3. Drawn(h) = Drawn(g)
  BY <1>1, <1>2 DEF Drawn, n
<1>4. ASSUME NEW i \in 1 .. n + 1, NEW j \in 1 .. i - 1
      PROVE  Behind(h[j], h[i])
  <2>1. CASE i = n + 1
    BY <1>1, <2>1 DEF Behind
  <2>2. CASE i \in 1 .. n
    <3>1. j \in 1 .. n
      BY <1>1, <2>2
    <3> QED BY <1>1, <2>2, <3>1 DEF Ordered, n
  <2> QED BY <1>2, <2>1, <2>2
<1>5. ASSUME NEW i \in 1 .. n + 1
      PROVE  Spelled(h[i])
  <2>1. CASE i = n + 1
    BY <1>1, <2>1 DEF Spelled
  <2>2. CASE i \in 1 .. n
    BY <1>1, <2>2 DEF Ordered, n
  <2> QED BY <1>2, <2>1, <2>2
<1> QED BY <1>1, <1>3, <1>4, <1>5 DEF Ordered, h

LEMMA DrawEdge ==
  ASSUME NEW g \in Seq(Items), Ordered(g), NEW x \in Items, x.item = "edge", x.to \in Payloads,
         x.label = Label[tree][x.to], x.to \notin Drawn(g),
         \A d \in Drawn(g) : MayPrecede(d, x.to)
  PROVE  Drawn(Append(g, x)) = Drawn(g) \cup {x.to} /\ Ordered(Append(g, x))
<1> DEFINE n == Len(g)
           h == Append(g, x)
<1>1. n \in Nat /\ Len(h) = n + 1 /\ h[n + 1] = x /\ \A i \in 1 .. n : h[i] = g[i]
  OBVIOUS
<1> HIDE DEF h
<1>2. 1 .. n \subseteq 1 .. n + 1 /\ (\A i \in 1 .. n + 1 : i \in 1 .. n \/ i = n + 1)
      /\ n + 1 \in 1 .. n + 1
  BY <1>1
<1>3. Drawn(h) = Drawn(g) \cup {x.to}
  <2> HIDE DEF n
  <2> QED BY <1>1, <1>2 DEF Drawn, n
<1>4. ASSUME NEW i \in 1 .. n + 1, NEW j \in 1 .. i - 1
      PROVE  Behind(h[j], h[i])
  <2>1. j \in 1 .. n
    BY <1>1
  <2>2. CASE i = n + 1
    <3>1. g[j].item = "edge" => g[j].to \in Drawn(g)
      <4>1. g[j] \in Items
        BY <2>1
      <4>2. g[j].item = "edge" => g[j].to \in Payloads
        BY <4>1 DEF Items
      <4> QED BY <2>1, <4>2 DEF Drawn
    <3>2. h[j] = g[j] /\ h[i] = x
      BY <1>1, <2>1, <2>2
    <3> QED BY <3>1, <3>2 DEF Behind
  <2>3. CASE i \in 1 .. n
    <3>1. Behind(g[j], g[i])
      BY <2>3 DEF Ordered
    <3> QED BY <1>1, <2>1, <2>3, <3>1
  <2> QED BY <1>2, <2>2, <2>3
<1>5. ASSUME NEW i \in 1 .. n + 1
      PROVE  Spelled(h[i])
  <2>1. CASE i = n + 1
    BY <1>1, <2>1 DEF Spelled
  <2>2. CASE i \in 1 .. n
    BY <1>1, <2>2 DEF Ordered
  <2> QED BY <1>2, <2>1, <2>2
<1> QED BY <1>1, <1>3, <1>4, <1>5 DEF Ordered, h

\* A driver that begins draws its payload.
LEMMA BeginDraws ==
  ASSUME graph \in Seq(Items), Ordered(graph), tree \in Trees,
         NEW e \in Payloads, NEW label \in Seq(Int), NEW below,
         label = Label[tree][e], e \notin Drawn(graph), \A d \in Drawn(graph) : MayPrecede(d, e),
         Begin(e, label, below), e \notin tree.throws
  PROVE  Drawn(graph') = Drawn(graph) \cup {e} /\ Ordered(graph')
<1> DEFINE edge == [item |-> "edge", to |-> e, label |-> label]
           opening == [item |-> "digraph"]
<1>1. edge \in Items /\ edge.item = "edge" /\ edge.to = e /\ edge.label = label
  BY DEF Items
<1>2. opening \in Items /\ opening.item # "edge"
  BY DEF Items
<1>3. graph' = graph \o (IF Preamble(e) THEN <<opening>> ELSE <<>>) \o <<edge>>
  BY DEF Begin
<1> HIDE DEF edge, opening
<1>4. PICK g : g = IF Preamble(e) THEN Append(graph, opening) ELSE graph
  OBVIOUS
<1>5. g \in Seq(Items) /\ Drawn(g) = Drawn(graph) /\ Ordered(g)
  BY <1>2, <1>4, DrawOther, AppendProperties
<1>6. graph' = Append(g, edge)
  <2>1. CASE Preamble(e)
    <3>1. graph \o <<opening>> = Append(graph, opening)
      BY <1>2, AppendIsConcat
    <3>2. Append(g, edge) = g \o <<edge>>
      BY <1>1, <1>5, AppendIsConcat
    <3> QED BY <1>3, <1>4, <2>1, <3>1, <3>2
  <2>2. CASE ~Preamble(e)
    <3>1. graph \o <<>> = graph
      BY ConcatEmptySeq
    <3>2. Append(g, edge) = g \o <<edge>>
      BY <1>1, <1>5, AppendIsConcat
    <3> QED BY <1>3, <1>4, <2>2, <3>1, <3>2
  <2> QED BY <2>1, <2>2
<1> QED BY <1>1, <1>5, <1>6, DrawEdge

-----------------------------------------------------------------------------
(* Sums of warnings.                                                         *)

LEMMA NothingSumsToNothing ==
  ASSUME tree \in Trees
  PROVE  SumOf({}) = 0
<1> DEFINE n == Len(tree.parent) + 1
           s == Share({})
<1>1. n \in Nat /\ Len(s) = n /\ \A i \in 1 .. n : s[i] = 0
  BY TreeShape DEF Share
<1> HIDE DEF s, n
<1>2. PICK f : Sums!FoldsUpTo(f, s, n) /\ Sums!Fold(s) = f[n]
  BY <1>1, Sums!FoldIsLast
<1>3. f[0] = 0 /\ \A i \in 1 .. n : f[i] = f[i - 1] + s[i]
  BY <1>2 DEF Sums!FoldsUpTo, Plus
<1> DEFINE Z == {i \in 0 .. n : f[i] = 0}
<1>4. 0 \in Z
  BY <1>1, <1>3
<1>5. \A i \in 1 .. n : i - 1 \in Z => i \in Z
  BY <1>1, <1>3
<1> HIDE DEF Z
<1>6. n \in Z
  <2>1. \A i \in 0 .. n : i \in Z
    BY <1>1, <1>4, <1>5, Sums!StepInduction
  <2> QED BY <1>1, <2>1
<1> QED BY <1>2, <1>6 DEF SumOf, s, Z

LEMMA SumWithOneMore ==
  ASSUME tree \in Trees, NEW D, NEW e \in Payloads, e \notin D
  PROVE  SumOf(D \cup {e}) = SumOf(D) + tree.warns[e] /\ SumOf(D) \in Int
<1> DEFINE n == Len(tree.parent) + 1
           s == Share(D)
           t == Share(D \cup {e})
           w == tree.warns[e]
<1>1. /\ n \in Nat /\ e \in 0 .. n - 1 /\ w \in Int
      /\ \A i \in 1 .. n : tree.warns[i - 1] \in Int
  <2>1. Len(tree.parent) \in Nat /\ e \in 0 .. Len(tree.parent) /\ w \in Int
    BY TreeShape
  <2>2. ASSUME NEW i \in 1 .. n PROVE tree.warns[i - 1] \in Int
    <3>1. i - 1 \in Payloads
      BY <2>1, TreeShape
    <3> QED BY <3>1, TreeShape
  <2> QED BY <2>1, <2>2
<1>2. /\ Len(s) = n /\ Len(t) = n
      /\ \A i \in 1 .. n : s[i] \in Int
      /\ \A i \in 1 .. n : t[i] = IF i = e + 1 THEN s[i] + w ELSE s[i]
  <2>1. Len(s) = n /\ Len(t) = n
    BY <1>1 DEF Share
  <2>2. \A i \in 1 .. n : s[i] = IF i - 1 \in D THEN tree.warns[i - 1] ELSE 0
    BY <1>1 DEF Share
  <2>3. \A i \in 1 .. n : t[i] = IF i - 1 \in D \cup {e} THEN tree.warns[i - 1] ELSE 0
    BY <1>1 DEF Share
  <2> HIDE DEF s, t, n
  <2>4. ASSUME NEW i \in 1 .. n PROVE t[i] = IF i = e + 1 THEN s[i] + w ELSE s[i]
    <3>1. CASE i = e + 1
      <4>1. i - 1 = e
        BY <1>1, <3>1
      <4>2. s[i] = 0 /\ t[i] = w
        BY <2>2, <2>3, <4>1
      <4> QED BY <1>1, <3>1, <4>2
    <3>2. CASE i # e + 1
      <4>1. i - 1 # e
        BY <1>1, <3>2
      <4> QED BY <2>2, <2>3, <3>2, <4>1
    <3> QED BY <3>1, <3>2
  <2>5. \A i \in 1 .. n : s[i] \in Int
    <3>1. 0 \in Int
      OBVIOUS
    <3> QED BY <1>1, <2>2, <3>1
  <2> QED BY <2>1, <2>4, <2>5
<1> HIDE DEF s, t, n, w
<1>3. PICK f : Sums!FoldsUpTo(f, s, n) /\ Sums!Fold(s) = f[n]
  BY <1>1, <1>2, Sums!FoldIsLast
<1>4. PICK g : Sums!FoldsUpTo(g, t, n) /\ Sums!Fold(t) = g[n]
  BY <1>1, <1>2, Sums!FoldIsLast
<1>5. f[0] = 0 /\ \A i \in 1 .. n : f[i] = f[i - 1] + s[i]
  BY <1>3 DEF Sums!FoldsUpTo, Plus
<1>6. g[0] = 0 /\ \A i \in 1 .. n : g[i] = g[i - 1] + t[i]
  BY <1>4 DEF Sums!FoldsUpTo, Plus
<1> DEFINE Z == {i \in 0 .. n : f[i] \in Int /\ g[i] = IF e < i THEN f[i] + w ELSE f[i]}
<1>7. 0 \in Z
  BY <1>1, <1>5, <1>6
<1>8. ASSUME NEW i \in 1 .. n, i - 1 \in Z PROVE i \in Z
  <2>1. f[i - 1] \in Int /\ g[i - 1] = IF e < i - 1 THEN f[i - 1] + w ELSE f[i - 1]
    BY <1>8
  <2>2. f[i] = f[i - 1] + s[i] /\ g[i] = g[i - 1] + t[i] /\ s[i] \in Int
    BY <1>2, <1>5, <1>6
  <2>3. CASE i = e + 1
    BY <1>1, <1>2, <2>1, <2>2, <2>3
  <2>4. CASE i # e + 1
    BY <1>1, <1>2, <2>1, <2>2, <2>4
  <2> QED BY <2>3, <2>4
<1> HIDE DEF Z
<1>9. n \in Z
  <2>1. \A i \in 0 .. n : i \in Z
    BY <1>1, <1>7, <1>8, Sums!StepInduction
  <2> QED BY <1>1, <2>1
<1>10. f[n] \in Int /\ g[n] = f[n] + w
  BY <1>1, <1>9 DEF Z
<1> QED BY <1>3, <1>4, <1>10 DEF SumOf, s, t, w

LEMMA AllWarningsIsSum ==
  ASSUME tree \in Trees
  PROVE  AllWarnings = SumOf(Payloads)
<1>1. Share(Payloads) = [k \in 1 .. Len(tree.parent) + 1 |-> tree.warns[k - 1]]
  BY TreeShape DEF Share
<1> QED BY <1>1 DEF AllWarnings, SumOf

\* What a stack of drivers holds is what the innermost adds to the others.
LEMMA LoadOfTop ==
  ASSUME NEW s \in Seq(Drivers), NEW d \in Drivers
  PROVE  Loads!Fold(Append(s, d)) = Loads!Fold(s) + d.warnings /\ Loads!Fold(s) \in Int
<1>1. Loads!Fold(Append(s, d)) = Loads!Fold(s) + d.warnings
  BY Loads!FoldAppend DEF Load
<1>2. \A v \in Int : \A x \in Drivers : Load(v, x) \in Int
  BY DEF Load, Drivers
<1>3. Loads!Fold(s) \in Int
  BY <1>2, Loads!FoldKeeps
<1> QED BY <1>1, <1>3

LEMMA FrontAndLast ==
  ASSUME NEW S, NEW s \in Seq(S), Len(s) > 0
  PROVE  /\ Front(s) \in Seq(S) /\ Last(s) \in S /\ s = Append(Front(s), Last(s))
         /\ Len(Front(s)) = Len(s) - 1 /\ \A i \in 1 .. Len(s) - 1 : Front(s)[i] = s[i]
<1>1. Len(s) \in Nat /\ Last(s) = s[Len(s)] /\ Last(s) \in S
  BY DEF Last
<1>2. /\ Front(s) \in Seq(S) /\ Len(Front(s)) = Len(s) - 1
      /\ \A i \in 1 .. Len(s) - 1 : Front(s)[i] = s[i]
  <2>1. PICK k \in Nat : k = Len(s) - 1
    BY <1>1
  <2>2. \A i \in 1 .. k : s[i] \in S
    BY <1>1, <2>1
  <2>3. /\ SubSeq(s, 1, k) \in Seq(S)
        /\ Len(SubSeq(s, 1, k)) = IF 1 <= k THEN k - 1 + 1 ELSE 0
        /\ \A i \in 1 .. k - 1 + 1 : SubSeq(s, 1, k)[i] = s[1 + i - 1]
    BY <2>2, SubSeqProperties
  <2>4. Len(SubSeq(s, 1, k)) = k /\ \A i \in 1 .. k : SubSeq(s, 1, k)[i] = s[i]
    BY <2>3
  <2> QED BY <2>1, <2>3, <2>4 DEF Front
<1>3. s = Append(Front(s), Last(s))
  <2>1. PICK f, x : f = Front(s) /\ x = Last(s)
    OBVIOUS
  <2>2. /\ Append(f, x) \in Seq(S) /\ Len(Append(f, x)) = Len(s)
        /\ \A i \in 1 .. Len(s) : Append(f, x)[i] = s[i]
    BY <1>1, <1>2, <2>1, AppendProperties
  <2>3. s = Append(f, x)
    BY <2>2, SeqEqual
  <2> QED BY <2>1, <2>3
<1> QED BY <1>1, <1>2, <1>3

\* The innermost driver may be replaced.
LEMMA LoadReplaced ==
  ASSUME NEW s \in Seq(Drivers), Len(s) > 0, NEW d \in Drivers
  PROVE  /\ [s EXCEPT ![Len(s)] = d] = Append(Front(s), d)
         /\ Loads!Fold([s EXCEPT ![Len(s)] = d]) = Loads!Fold(Front(s)) + d.warnings
         /\ Loads!Fold(s) = Loads!Fold(Front(s)) + Last(s).warnings
         /\ Loads!Fold(Front(s)) \in Int
<1>1. /\ Front(s) \in Seq(Drivers) /\ Last(s) \in Drivers /\ s = Append(Front(s), Last(s))
      /\ Len(Front(s)) = Len(s) - 1 /\ \A i \in 1 .. Len(s) - 1 : Front(s)[i] = s[i]
  BY FrontAndLast
<1>2. [s EXCEPT ![Len(s)] = d] = Append(Front(s), d)
  <2>1. PICK f : f = Front(s)
    OBVIOUS
  <2>2. PICK n \in Nat : n = Len(s) /\ n > 0
    OBVIOUS
  <2>3. PICK t : t = [s EXCEPT ![n] = d]
    OBVIOUS
  <2>4. t \in Seq(Drivers) /\ Len(t) = n /\ \A i \in 1 .. n : t[i] = IF i = n THEN d ELSE s[i]
    BY <2>2, <2>3
  <2>5. /\ Append(f, d) \in Seq(Drivers) /\ Len(Append(f, d)) = n
        /\ \A i \in 1 .. n : Append(f, d)[i] = IF i = n THEN d ELSE s[i]
    BY <1>1, <2>1, <2>2, AppendProperties
  <2>6. t = Append(f, d)
    BY <2>4, <2>5, SeqEqual
  <2> QED BY <2>1, <2>2, <2>3, <2>6
<1> QED BY <1>1, <1>2, LoadOfTop

-----------------------------------------------------------------------------
(* Drivers that begin and that return.                                       *)

\* The innermost driver of s takes the call e, one of those with the smallest
\* number, and another driver begins with it: t.
Takes(s, t, n, e) ==
  /\ n \in Nat /\ n > 0 /\ Len(s) = n /\ Len(t) = n + 1
  /\ \A i \in 1 .. n : s[i].payload \in Payloads /\ s[i].edges \subseteq Edges(s[i].payload)
  /\ e \in s[n].edges /\ \A c \in s[n].edges : tree.seq[e] <= tree.seq[c]
  /\ \A i \in 1 .. n :
       /\ t[i].payload = s[i].payload /\ t[i].label = s[i].label
       /\ t[i].edges = IF i = n THEN s[i].edges \ {e} ELSE s[i].edges
  /\ t[n + 1].payload = e /\ t[n + 1].label = Label[tree][e] /\ t[n + 1].edges = Edges(e)

LEMMA CallTaken ==
  ASSUME tree \in Trees, NEW D \in SUBSET Payloads, Closed(D),
         NEW s, AllWait(s, D), Deepening(s), NoneLost(s, D),
         NEW n, NEW e, NEW t, Takes(s, t, n, e)
  PROVE  /\ AllWait(t, D \cup {e}) /\ Deepening(t)
         /\ Closed(D \cup {e}) /\ NoneLost(t, D \cup {e})
<1> DEFINE p == s[n].payload
           D2 == D \cup {e}
<1>0. /\ n \in Nat /\ n > 0 /\ Len(s) = n /\ Len(t) = n + 1
      /\ \A i \in 1 .. n : s[i].payload \in Payloads /\ s[i].edges \subseteq Edges(s[i].payload)
      /\ e \in s[n].edges /\ (\A c \in s[n].edges : tree.seq[e] <= tree.seq[c])
      /\ \A i \in 1 .. n :
           /\ t[i].payload = s[i].payload /\ t[i].label = s[i].label
           /\ t[i].edges = IF i = n THEN s[i].edges \ {e} ELSE s[i].edges
      /\ t[n + 1].payload = e /\ t[n + 1].label = Label[tree][e] /\ t[n + 1].edges = Edges(e)
  BY DEF Takes
<1>1. n \in 1 .. n /\ n + 1 \in 1 .. n + 1 /\ 1 .. n \subseteq 1 .. n + 1
      /\ \A i \in 1 .. n + 1 : i \in 1 .. n \/ i = n + 1
  BY <1>0
<1>2. \A i \in 1 .. n : Waits(s[i], D)
  BY <1>0 DEF AllWait
<1>3. p \in D /\ p \in Payloads /\ e \notin D /\ \A d \in D : MayPrecede(d, e)
  BY <1>0, <1>1, <1>2 DEF Waits
<1>4. e \in Edges(p) /\ e \in Payloads \ {0} /\ tree.parent[e] = p
  BY <1>0, <1>1 DEF Edges
<1>5. \A i \in 1 .. n : i # n => s[i].payload < p
  BY <1>0, <1>1 DEF Deepening
<1>6. Payloads \subseteq Nat /\ p < e
  BY <1>0, <1>3, <1>4, TreeShape
<1> HIDE DEF p, D2
<1>7. Closed(D2)
  BY <1>0, <1>3, <1>4 DEF Closed, D2
<1>8. AllWait(t, D2)
  <2>1. ASSUME NEW i \in 1 .. n PROVE Waits(t[i], D2)
    <3>1. ASSUME NEW c \in t[i].edges
          PROVE  c \notin D2 /\ \A d \in D2 : MayPrecede(d, c)
      <4>1. c \in s[i].edges /\ c \in Edges(s[i].payload) /\ s[i].payload \in Payloads
            /\ (i = n => c # e)
        BY <1>0, <3>1
      <4>2. c \notin D /\ \A d \in D : MayPrecede(d, c)
        BY <1>0, <1>2, <4>1 DEF Waits
      <4>3. tree.parent[c] = s[i].payload
        BY <1>0, <4>1 DEF Edges
      <4>4. c # e
        BY <1>0, <1>3, <1>4, <1>5, <1>6, <4>1, <4>3
      <4>5. MayPrecede(e, c)
        <5>1. MayPrecede(p, c)
          BY <1>0, <1>3, <4>2
        <5>2. s[i].payload < p \/ (s[i].payload = p /\ tree.seq[e] <= tree.seq[c])
          BY <1>0, <1>5, <4>1 DEF p
        <5> QED BY <1>0, <1>3, <1>4, <4>1, <4>4, <5>1, <5>2, PrecedesRest
      <4> QED BY <1>0, <4>2, <4>4, <4>5 DEF D2
    <3>2. t[i].payload \in D2 /\ t[i].label = Label[tree][t[i].payload]
      BY <1>0, <1>2 DEF Waits, D2
    <3> QED BY <1>0, <3>1, <3>2 DEF Waits
  <2>2. Waits(t[n + 1], D2)
    <3>1. ASSUME NEW c \in Edges(e)
          PROVE  c \notin D2 /\ \A d \in D2 : MayPrecede(d, c)
      <4>1. c \in Payloads \ {0} /\ tree.parent[c] = e
        BY <1>0 DEF Edges
      <4>2. c # e
        BY <1>0, <1>4, <4>1, TreeShape
      <4>3. c \notin D
        BY <1>0, <1>3, <4>1 DEF Closed
      <4>4. \A d \in D : MayPrecede(d, c)
        BY <1>0, <1>3, <1>4, PrecedesChild
      <4>5. MayPrecede(e, c)
        BY <1>0, <1>4, PrecedesOwn
      <4> QED BY <1>0, <4>2, <4>3, <4>4, <4>5 DEF D2
    <3> QED BY <1>0, <3>1 DEF Waits, D2
  <2> QED BY <1>0, <1>1, <2>1, <2>2 DEF AllWait
<1>9. Deepening(t)
  <2>1. ASSUME NEW i \in 1 .. n + 1, NEW j \in 1 .. i - 1
        PROVE  t[j].payload < t[i].payload
    <3>1. j \in 1 .. n /\ t[j].payload = s[j].payload /\ s[j].payload \in Nat
      <4>1. j \in 1 .. n
        <5>1. n \in Nat /\ i <= n + 1 /\ j <= i - 1 /\ j >= 1 /\ j \in Int /\ i \in Int
          BY <1>0
        <5> QED BY <5>1
      <4>2. s[j].payload \in Payloads /\ t[j].payload = s[j].payload
        BY <1>0, <4>1
      <4> QED BY <1>0, <1>6, <4>1, <4>2
    <3>2. CASE i = n + 1
      <4>1. s[j].payload < p \/ s[j].payload = p
        BY <1>0, <1>5, <3>1 DEF p
      <4> QED BY <1>0, <1>3, <1>4, <1>6, <3>1, <3>2, <4>1
    <3>3. CASE i \in 1 .. n
      BY <1>0, <3>1, <3>3 DEF Deepening
    <3> QED BY <1>0, <1>1, <3>2, <3>3
  <2> QED BY <1>0, <2>1 DEF Deepening
<1>10. NoneLost(t, D2)
  <2>1. ASSUME NEW c \in Payloads \ {0}, c \notin D2, tree.parent[c] \in D2
        PROVE  Pending(t, c)
    <3>1. CASE tree.parent[c] = e
      <4>1. c \in Edges(e)
        BY <1>0, <3>1 DEF Edges
      <4> QED BY <1>0, <1>1, <3>1, <4>1 DEF Pending
    <3>2. CASE tree.parent[c] \in D
      <4>1. Pending(s, c) /\ c # e
        BY <1>0, <2>1, <3>2 DEF NoneLost, D2
      <4>2. PICK i \in 1 .. n : s[i].payload = tree.parent[c] /\ c \in s[i].edges
        BY <1>0, <4>1 DEF Pending
      <4>3. i \in 1 .. n + 1 /\ t[i].payload = tree.parent[c] /\ c \in t[i].edges
        BY <1>0, <1>1, <4>1, <4>2
      <4> QED BY <1>0, <4>3 DEF Pending
    <3> QED BY <1>0, <2>1, <3>1, <3>2 DEF D2
  <2> QED BY <1>0, <2>1 DEF NoneLost
<1> QED BY <1>0, <1>7, <1>8, <1>9, <1>10 DEF D2

\* The driver of the request itself begins.
LEMMA FirstTaken ==
  ASSUME tree \in Trees, NEW t, Len(t) = 1,
         t[1].payload = 0, t[1].label = << 1 >>, t[1].edges = Edges(0)
  PROVE  AllWait(t, {0}) /\ Deepening(t) /\ Closed({0}) /\ NoneLost(t, {0})
<1>1. 0 \in Payloads
  BY TreeShape
<1>2. \A i \in 1 .. 1 : i = 1
  OBVIOUS
<1>3. AllWait(t, {0})
  <2>1. \A c \in Edges(0) : c # 0 /\ MayPrecede(0, c)
    BY <1>1, PrecedesOwn DEF Edges
  <2>2. Waits(t[1], {0})
    BY <2>1, LabelStep DEF Waits
  <2> QED BY <1>2, <2>2 DEF AllWait
<1>4. Deepening(t)
  <2>1. \A i \in 1 .. 1 : 1 .. i - 1 = {}
    OBVIOUS
  <2> QED BY <2>1 DEF Deepening
<1>5. Closed({0})
  BY DEF Closed
<1>6. NoneLost(t, {0})
  <2>1. ASSUME NEW c \in Payloads \ {0}, tree.parent[c] = 0 PROVE Pending(t, c)
    <3>1. c \in Edges(0) /\ 1 \in 1 .. 1
      BY <2>1 DEF Edges
    <3> QED BY <2>1, <3>1 DEF Pending
  <2> QED BY <2>1 DEF NoneLost
<1> QED BY <1>3, <1>4, <1>5, <1>6

\* The innermost driver of s, with no calls left, returns: t.
LEMMA DriverGone ==
  ASSUME NEW D, NEW s, NEW n \in Nat, n > 1, Len(s) = n,
         AllWait(s, D), Deepening(s), NoneLost(s, D), s[n].edges = {},
         NEW t, Len(t) = n - 1,
         \A i \in 1 .. n - 1 :
           /\ t[i].payload = s[i].payload /\ t[i].label = s[i].label /\ t[i].edges = s[i].edges
  PROVE  AllWait(t, D) /\ Deepening(t) /\ NoneLost(t, D)
<1>1. 1 .. n - 1 \subseteq 1 .. n /\ \A i \in 1 .. n : i \in 1 .. n - 1 \/ i = n
  OBVIOUS
<1>2. AllWait(t, D)
  <2>1. ASSUME NEW i \in 1 .. n - 1 PROVE Waits(t[i], D)
    <3>1. Waits(s[i], D)
      BY <1>1 DEF AllWait
    <3> QED BY <3>1 DEF Waits
  <2> QED BY <2>1 DEF AllWait
<1>3. Deepening(t)
  <2>1. ASSUME NEW i \in 1 .. n - 1, NEW j \in 1 .. i - 1
        PROVE  t[j].payload < t[i].payload
    <3>1. i \in 1 .. n /\ j \in 1 .. n - 1
      OBVIOUS
    <3> QED BY <3>1 DEF Deepening
  <2> QED BY <2>1 DEF Deepening
<1>4. ASSUME NEW c, Pending(s, c) PROVE Pending(t, c)
  <2>1. PICK i \in 1 .. n : s[i].payload = tree.parent[c] /\ c \in s[i].edges
    BY <1>4 DEF Pending
  <2>2. i \in 1 .. n - 1
    BY <1>1, <2>1
  <2> QED BY <2>1, <2>2 DEF Pending
<1> QED BY <1>2, <1>3, <1>4 DEF NoneLost

-----------------------------------------------------------------------------
(* The steps.                                                                *)

\* All this is about the request, which stays.
LEMMA SameProgress ==
  ASSUME tree' = tree
  PROVE  \A g, s, p : ProgressOf(g, s, p)' <=> ProgressOf(g, s, p)
<1>1. Payloads' = Payloads /\ tree'.parent = tree.parent /\ Label[tree]' = Label[tree]
      /\ Way[tree]' = Way[tree]
  BY DEF Payloads
<1>2. \A d, e : MayPrecede(d, e)' <=> MayPrecede(d, e)
  BY <1>1 DEF MayPrecede, InOrder
<1>3. \A x, y : (Spelled(x)' <=> Spelled(x)) /\ (Behind(x, y)' <=> Behind(x, y))
  BY <1>1, <1>2 DEF Spelled, Behind
<1>4. \A g : (Ordered(g)' <=> Ordered(g)) /\ Drawn(g)' = Drawn(g)
  BY <1>1, <1>3 DEF Ordered, Drawn
<1>5. \A d, D : Waits(d, D)' <=> Waits(d, D)
  BY <1>1, <1>2 DEF Waits
<1>6. \A s, D : AllWait(s, D)' <=> AllWait(s, D)
  BY <1>5 DEF AllWait
<1>7. \A s : Deepening(s)' <=> Deepening(s)
  BY DEF Deepening
<1>8. \A s, c : Pending(s, c)' <=> Pending(s, c)
  BY DEF Pending
<1>9. \A s, D : (NoneLost(s, D)' <=> NoneLost(s, D)) /\ (Closed(D)' <=> Closed(D))
  BY <1>1, <1>8 DEF NoneLost, Closed
<1>10. \A D : SumOf(D)' = SumOf(D)
  BY DEF SumOf, Share
<1>11. \A s, D : Working(s, D)' <=> Working(s, D)
  BY <1>9, <1>10 DEF Working
<1> QED BY <1>4, <1>6, <1>7, <1>9, <1>11 DEF ProgressOf

LEMMA InitProgress == Init => Progress
<1> SUFFICES ASSUME Init PROVE Progress
  OBVIOUS
<1>1. graph = <<>> /\ stack = <<>> /\ phase = "start" /\ Len(<<>>) = 0 /\ 1 .. 0 = {}
  BY DEF Init
<1>2. Drawn(<<>>) = {}
  BY <1>1 DEF Drawn
<1>3. Ordered(<<>>) /\ Closed({}) /\ AllWait(<<>>, {}) /\ Deepening(<<>>)
  BY <1>1 DEF Ordered, Closed, AllWait, Deepening
<1> QED BY <1>1, <1>2, <1>3 DEF Progress, ProgressOf

\* A check that throws leaves no driver at work, and what was drawn.
LEMMA CrashProgress ==
  ASSUME Progress, tree' = tree, stack' = <<>>, graph' = graph, phase' = "crashed"
  PROVE  Progress'
<1>1. Len(<<>>) = 0 /\ 1 .. 0 = {}
  OBVIOUS
<1>2. AllWait(<<>>, Drawn(graph)) /\ Deepening(<<>>)
  BY <1>1 DEF AllWait, Deepening
<1>3. ProgressOf(graph, <<>>, "crashed")
  BY <1>2 DEF Progress, ProgressOf
<1>4. ProgressOf(graph', stack', phase')
  BY <1>3
<1> QED BY <1>4, SameProgress DEF Progress

LEMMA MainProgress ==
  ASSUME Inv, Progress, Main
  PROVE  Progress'
<1> DEFINE d == [payload |-> 0, label |-> <<1>>, edges |-> Edges(0), warnings |-> tree.warns[0]]
<1>1. /\ tree \in Trees /\ graph = <<>> /\ phase = "start" /\ tree' = tree
      /\ Begin(0, <<1>>, <<>>) /\ 0 \in Payloads /\ graph \in Seq(Items)
  <2>1. tree \in Trees
    BY DEF Inv, Types
  <2> QED BY <2>1, TreeShape DEF Inv, Whole, Main, input
<1>2. CASE 0 \in tree.throws
  BY <1>1, <1>2, CrashProgress DEF Begin
<1>3. CASE 0 \notin tree.throws
  <2>1. Drawn(graph) = {} /\ Ordered(graph)
    <3>1. Len(<<>>) = 0 /\ 1 .. 0 = {}
      OBVIOUS
    <3> QED BY <1>1, <3>1 DEF Drawn, Ordered
  <2>2. Drawn(graph') = {0} /\ Ordered(graph')
    <3>1. <<1>> \in Seq(Int)
      OBVIOUS
    <3>2. PICK label : label = <<1>>
      OBVIOUS
    <3>3. PICK below : below = <<>>
      OBVIOUS
    <3>4. label \in Seq(Int) /\ label = Label[tree][0] /\ Begin(0, label, below)
      BY <1>1, <3>1, <3>2, <3>3, LabelStep
    <3>5. 0 \notin Drawn(graph) /\ \A x \in Drawn(graph) : MayPrecede(x, 0)
      BY <2>1
    <3>6. Drawn(graph') = Drawn(graph) \cup {0} /\ Ordered(graph')
      BY <1>1, <1>3, <2>1, <3>4, <3>5, BeginDraws
    <3> QED BY <2>1, <3>6
  <2>3. phase' = "execute" /\ stack' = Append(<<>>, d)
    BY <1>1, <1>3 DEF Begin
  <2>4. d \in Drivers /\ <<>> \in Seq(Drivers) /\ d.warnings = tree.warns[0]
    BY <1>1, TreeFacts DEF Drivers
  <2>5. Len(stack') = 1 /\ stack'[1] = d
    BY <2>3, <2>4, AppendProperties
  <2>6. AllWait(stack', {0}) /\ Deepening(stack') /\ Closed({0}) /\ NoneLost(stack', {0})
    <3>1. PICK t : t = stack'
      OBVIOUS
    <3>2. Len(t) = 1 /\ t[1].payload = 0 /\ t[1].label = <<1>> /\ t[1].edges = Edges(0)
      BY <2>5, <3>1
    <3>3. AllWait(t, {0}) /\ Deepening(t) /\ Closed({0}) /\ NoneLost(t, {0})
      BY <1>1, <3>2, FirstTaken
    <3> QED BY <3>1, <3>3
  <2> HIDE DEF d
  <2>7. Loads!Fold(stack') = SumOf({0})
    <3>1. Loads!Fold(<<>>) = 0
      BY Loads!FoldEmpty
    <3>2. Loads!Fold(Append(<<>>, d)) = Loads!Fold(<<>>) + d.warnings
      BY <2>4, LoadOfTop
    <3>3. SumOf({} \cup {0}) = SumOf({}) + tree.warns[0] /\ SumOf({}) = 0
      <4>1. 0 \notin {}
        OBVIOUS
      <4> QED BY <1>1, <4>1, SumWithOneMore, NothingSumsToNothing
    <3>4. {} \cup {0} = {0}
      OBVIOUS
    <3> QED BY <2>3, <2>4, <3>1, <3>2, <3>3, <3>4
  <2>8. ProgressOf(graph', stack', phase')
    BY <2>2, <2>3, <2>6, <2>7 DEF ProgressOf, Working
  <2> QED BY <1>1, <2>8, SameProgress DEF Progress
<1> QED BY <1>2, <1>3

\* The call HandleBlob takes is one of the payload of the driver on top.  It is not
\* drawn, nothing that is was to wait for it, and its label spells its way.
LEMMA TopCall ==
  ASSUME Inv, Progress, phase = "execute", NEW e \in Top(Driver.edges)
  PROVE  /\ stack \in Seq(Drivers) /\ Len(stack) > 0
         /\ Driver = stack[Len(stack)] /\ Driver \in Drivers
         /\ e \in stack[Len(stack)].edges
         /\ \A c \in stack[Len(stack)].edges : tree.seq[e] <= tree.seq[c]
         /\ stack[Len(stack)].payload \in Payloads
         /\ e \in Edges(stack[Len(stack)].payload) /\ e \in Payloads \ {0}
         /\ tree.parent[e] = stack[Len(stack)].payload /\ NewSequence(e) \in Seq(Int)
         /\ e \notin Drawn(graph) /\ \A x \in Drawn(graph) : MayPrecede(x, e)
         /\ NewSequence(e) = Label[tree][e]
<1> DEFINE n == Len(stack)
           D == Drawn(graph)
<1>1. /\ tree \in Trees /\ stack \in Seq(Drivers) /\ n \in Nat /\ n > 0
      /\ \A i \in 1 .. n : InPlace(stack, i)
  BY DEF Inv, Types, Nested, Stacked
<1>3. AllWait(stack, D)
  BY DEF Progress, ProgressOf
<1>4. /\ Driver = stack[n] /\ Driver \in Drivers /\ n \in 1 .. n
      /\ e \in stack[n].edges /\ \A c \in stack[n].edges : tree.seq[e] <= tree.seq[c]
  BY <1>1 DEF Driver, Last, Top
<1>5. /\ stack[n].payload \in Payloads /\ e \in Edges(stack[n].payload) /\ e \in Payloads \ {0}
      /\ tree.parent[e] = stack[n].payload /\ NewSequence(e) \in Seq(Int)
  <2>1. InPlace(stack, n)
    BY <1>1, <1>4
  <2>2. e \in Edges(stack[n].payload) /\ stack[n].payload \in Payloads
    BY <1>4, <2>1 DEF InPlace, Drivers
  <2>3. e \in Payloads \ {0} /\ tree.parent[e] = stack[n].payload
    BY <2>2 DEF Edges
  <2>4. Driver.label \in Seq(Int) /\ tree.seq[e] \in Int
    BY <1>1, <1>4, <2>3, TreeShape DEF Drivers
  <2> QED BY <2>2, <2>3, <2>4, AppendProperties DEF NewSequence
<1>6. e \notin D /\ (\A x \in D : MayPrecede(x, e)) /\ NewSequence(e) = Label[tree][e]
  <2>1. Waits(stack[n], D)
    BY <1>3, <1>4 DEF AllWait
  <2>2. e \notin D /\ (\A x \in D : MayPrecede(x, e))
    BY <1>4, <2>1 DEF Waits
  <2>3. NewSequence(e) = Label[tree][e]
    BY <1>1, <1>4, <1>5, <2>1, LabelStep DEF NewSequence, Waits
  <2> QED BY <2>2, <2>3
<1> QED BY <1>1, <1>4, <1>5, <1>6

LEMMA HandleBlobProgress ==
  ASSUME Inv, Progress, HandleBlob
  PROVE  Progress'
<1> DEFINE n == Len(stack)
           D == Drawn(graph)
           rest(e) == [Driver EXCEPT !.edges = @ \ {e}]
           below(e) == [stack EXCEPT ![Len(stack)].edges = @ \ {e}]
           d(e) == [payload |-> e, label |-> NewSequence(e), edges |-> Edges(e),
                    warnings |-> tree.warns[e]]
<1>1. /\ tree \in Trees /\ tree' = tree /\ graph \in Seq(Items) /\ phase = "execute"
      /\ stack \in Seq(Drivers) /\ n \in Nat /\ n > 0
      /\ \A i \in 1 .. n : InPlace(stack, i)
  BY DEF Inv, Types, Nested, Stacked, Whole, HandleBlob, input
<1>2. PICK e \in Top(Driver.edges) : Begin(e, NewSequence(e), below(e))
  BY DEF HandleBlob
<1>3. /\ Ordered(graph) /\ Closed(D) /\ AllWait(stack, D) /\ Deepening(stack)
      /\ NoneLost(stack, D) /\ Loads!Fold(stack) = SumOf(D)
  BY <1>1 DEF Progress, ProgressOf, Working
<1>4. /\ Driver = stack[n] /\ Driver \in Drivers /\ n \in 1 .. n
      /\ e \in stack[n].edges /\ \A c \in stack[n].edges : tree.seq[e] <= tree.seq[c]
  BY <1>1, <1>2, TopCall
<1>5. /\ stack[n].payload \in Payloads /\ e \in Edges(stack[n].payload) /\ e \in Payloads \ {0}
      /\ tree.parent[e] = stack[n].payload /\ NewSequence(e) \in Seq(Int)
  BY <1>1, <1>2, TopCall
<1>6. e \notin D /\ (\A x \in D : MayPrecede(x, e)) /\ NewSequence(e) = Label[tree][e]
  BY <1>1, <1>2, TopCall
<1>7. CASE e \in tree.throws
  BY <1>1, <1>2, <1>7, CrashProgress DEF Begin
<1>8. CASE e \notin tree.throws
  <2>1. /\ rest(e) \in Drivers /\ rest(e).payload = stack[n].payload
        /\ rest(e).label = stack[n].label /\ rest(e).warnings = stack[n].warnings
        /\ rest(e).edges = stack[n].edges \ {e}
    BY <1>4 DEF Drivers
  <2>2. below(e) = [stack EXCEPT ![n] = rest(e)]
    BY <1>1, <1>4
  <2>3. d(e) \in Drivers /\ d(e).payload = e /\ d(e).label = NewSequence(e)
        /\ d(e).edges = Edges(e) /\ d(e).warnings = tree.warns[e]
    BY <1>1, <1>5, TreeFacts DEF Drivers
  <2>4. phase' = "execute" /\ stack' = Append(below(e), d(e))
    BY <1>2, <1>8 DEF Begin
  <2>5. Drawn(graph') = D \cup {e} /\ Ordered(graph')
    <3>1. PICK label, b : label = NewSequence(e) /\ b = below(e)
      OBVIOUS
    <3>2. label \in Seq(Int) /\ label = Label[tree][e] /\ Begin(e, label, b)
      BY <1>2, <1>5, <1>6, <3>1
    <3> QED BY <1>1, <1>3, <1>5, <1>6, <1>8, <3>2, BeginDraws
  <2> HIDE DEF rest, d, below
  <2>6. below(e) \in Seq(Drivers) /\ Len(below(e)) = n
        /\ \A i \in 1 .. n : below(e)[i] = IF i = n THEN rest(e) ELSE stack[i]
    BY <1>1, <2>1, <2>2
  <2>7. /\ Len(stack') = n + 1 /\ stack'[n + 1] = d(e)
        /\ \A i \in 1 .. n : stack'[i] = IF i = n THEN rest(e) ELSE stack[i]
    BY <2>3, <2>4, <2>6, AppendProperties
  <2>8. /\ AllWait(stack', D \cup {e}) /\ Deepening(stack')
        /\ Closed(D \cup {e}) /\ NoneLost(stack', D \cup {e})
    <3>1. PICK s, t : s = stack /\ t = stack'
      OBVIOUS
    <3>2. \A i \in 1 .. n : s[i].payload \in Payloads /\ s[i].edges \subseteq Edges(s[i].payload)
      <4>1. ASSUME NEW i \in 1 .. n
            PROVE  s[i].payload \in Payloads /\ s[i].edges \subseteq Edges(s[i].payload)
        <5>1. stack[i] \in Drivers /\ InPlace(stack, i)
          BY <1>1
        <5> QED BY <3>1, <5>1 DEF InPlace, Drivers
      <4> QED BY <4>1
    <3>3. \A i \in 1 .. n :
             /\ t[i].payload = s[i].payload /\ t[i].label = s[i].label
             /\ t[i].edges = IF i = n THEN s[i].edges \ {e} ELSE s[i].edges
      BY <2>1, <2>7, <3>1
    <3>4. /\ Len(t) = n + 1 /\ t[n + 1].payload = e /\ t[n + 1].label = Label[tree][e]
          /\ t[n + 1].edges = Edges(e)
      BY <1>6, <2>3, <2>7, <3>1
    <3>5. PICK m \in Nat : m = n
      BY <1>1
    <3>6. D \in SUBSET Payloads
      BY DEF Drawn
    <3>7. Takes(s, t, m, e)
      <4>1. /\ m \in Nat /\ m > 0 /\ Len(s) = m /\ Len(t) = m + 1
            /\ t[m + 1].payload = e /\ t[m + 1].label = Label[tree][e]
            /\ t[m + 1].edges = Edges(e)
        BY <1>1, <3>1, <3>4, <3>5
      <4>2. e \in s[m].edges /\ \A c \in s[m].edges : tree.seq[e] <= tree.seq[c]
        BY <1>4, <3>1, <3>5
      <4> HIDE DEF n
      <4> QED BY <3>2, <3>3, <3>5, <4>1, <4>2 DEF Takes
    <3>8. /\ AllWait(t, D \cup {e}) /\ Deepening(t)
          /\ Closed(D \cup {e}) /\ NoneLost(t, D \cup {e})
      <4>1. Closed(D) /\ AllWait(s, D) /\ Deepening(s) /\ NoneLost(s, D)
        BY <1>3, <3>1
      <4> HIDE DEF D, n
      <4> QED BY <1>1, <3>6, <3>7, <4>1, CallTaken
    <3> QED BY <3>1, <3>8
  <2>9. Loads!Fold(stack') = SumOf(D \cup {e})
    <3>1. Loads!Fold(stack') = Loads!Fold(below(e)) + tree.warns[e]
      BY <2>3, <2>4, <2>6, LoadOfTop
    <3>2. Loads!Fold(below(e)) = Loads!Fold(stack)
      <4>1. PICK s : s = stack
        OBVIOUS
      <4>2. PICK r : r = rest(e)
        OBVIOUS
      <4>3. s \in Seq(Drivers) /\ Len(s) > 0 /\ r \in Drivers /\ r.warnings = Last(s).warnings
        BY <1>1, <2>1, <4>1, <4>2 DEF Last
      <4>4. Loads!Fold([s EXCEPT ![Len(s)] = r]) = Loads!Fold(s)
        BY <4>3, LoadReplaced
      <4> QED BY <2>2, <4>1, <4>2, <4>4
    <3>3. SumOf(D \cup {e}) = SumOf(D) + tree.warns[e]
      BY <1>1, <1>5, <1>6, SumWithOneMore
    <3> QED BY <1>3, <3>1, <3>2, <3>3
  <2>10. 0 \in D
    BY <1>1 DEF Progress, ProgressOf, Working
  <2>11. ProgressOf(graph', stack', phase')
    <3> HIDE DEF D
    <3> QED BY <2>4, <2>5, <2>8, <2>9, <2>10 DEF ProgressOf, Working
  <2> QED BY <1>1, <2>11, SameProgress DEF Progress
<1> QED BY <1>7, <1>8

\* The end of the graph, and a driver that returns.
LEMMA ReturnProgress ==
  ASSUME Inv, Progress, Return
  PROVE  Progress'
<1> DEFINE n == Len(stack)
           D == Drawn(graph)
           closing == [item |-> "}"]
<1>1. /\ tree \in Trees /\ tree' = tree /\ graph \in Seq(Items) /\ phase = "execute"
      /\ stack \in Seq(Drivers) /\ n \in Nat /\ n > 0 /\ Driver = stack[n]
      /\ stack[n].edges = {} /\ stack[n] \in Drivers
  <2>1. /\ tree \in Trees /\ tree' = tree /\ graph \in Seq(Items) /\ phase = "execute"
        /\ stack \in Seq(Drivers) /\ n \in Nat /\ n > 0 /\ Driver.edges = {}
    <3>1. phase = "execute" /\ Driver.edges = {} /\ tree' = tree
      BY DEF Return, input
    <3>2. tree \in Trees /\ graph \in Seq(Items) /\ Stacked(stack) /\ Len(stack) > 0
      BY <3>1 DEF Inv, Types, Nested, Whole
    <3> QED BY <3>1, <3>2 DEF Stacked
  <2>2. Driver = stack[n] /\ stack[n] \in Drivers
    BY <2>1 DEF Driver, Last
  <2> QED BY <2>1, <2>2
<1>2. /\ Ordered(graph) /\ Closed(D) /\ AllWait(stack, D) /\ Deepening(stack)
      /\ NoneLost(stack, D) /\ Loads!Fold(stack) = SumOf(D) /\ 0 \in D
  BY <1>1 DEF Progress, ProgressOf, Working
<1>3. Drawn(graph') = D /\ Ordered(graph')
  <2>1. closing \in Items /\ closing.item # "edge"
    BY DEF Items
  <2>2. graph' = IF Preamble(Driver.payload) THEN Append(graph, closing) ELSE graph
    BY DEF Return
  <2> HIDE DEF closing
  <2> QED BY <1>1, <1>2, <2>1, <2>2, DrawOther
<1>4. CASE n > 1
  <2> DEFINE f == Front(stack)
             total == [Last(f) EXCEPT !.warnings = @ + Driver.warnings]
  <2>1. stack' = TotalOf(f) /\ phase' = "execute"
    BY <1>1, <1>4 DEF Return
  <2>2. PICK s : s = stack
    OBVIOUS
  <2>3. /\ f \in Seq(Drivers) /\ Len(f) = n - 1 /\ (\A i \in 1 .. n - 1 : f[i] = s[i])
        /\ s = Append(f, Last(s)) /\ Last(s) = Driver
    <3>1. s \in Seq(Drivers) /\ Len(s) > 0
      BY <1>1, <2>2
    <3>2. /\ Front(s) \in Seq(Drivers) /\ s = Append(Front(s), Last(s))
          /\ Len(Front(s)) = Len(s) - 1 /\ \A i \in 1 .. Len(s) - 1 : Front(s)[i] = s[i]
      BY <3>1, FrontAndLast
    <3> QED BY <2>2, <3>2 DEF Driver
  <2>4. Last(f) = f[n - 1] /\ Last(f) \in Drivers /\ n - 1 \in 1 .. n - 1
    BY <1>1, <1>4, <2>3 DEF Last
  <2>5. /\ total \in Drivers /\ total.payload = f[n - 1].payload /\ total.label = f[n - 1].label
        /\ total.edges = f[n - 1].edges
        /\ total.warnings = Last(f).warnings + Driver.warnings
        /\ Last(f).warnings \in Int /\ Driver.warnings \in Int
    <3>1. PICK x, y : x = Driver /\ y = Last(f)
      OBVIOUS
    <3>2. x \in Drivers /\ y \in Drivers /\ total = [y EXCEPT !.warnings = @ + x.warnings]
          /\ y = f[n - 1]
      BY <1>1, <2>4, <3>1
    <3>3. x.warnings \in Int /\ y.warnings \in Int /\ y.warnings + x.warnings \in Nat
      BY <3>2 DEF Drivers
    <3> HIDE DEF total, f, n
    <3>4. /\ total \in Drivers /\ total.payload = y.payload /\ total.label = y.label
          /\ total.edges = y.edges /\ total.warnings = y.warnings + x.warnings
      BY <3>2, <3>3 DEF Drivers
    <3> QED BY <3>1, <3>2, <3>3, <3>4
  <2>6. stack' = [f EXCEPT ![Len(f)] = total]
    <3>1. TotalOf(f) = [f EXCEPT ![Len(f)] = [f[Len(f)] EXCEPT !.warnings = @ + Driver.warnings]]
      <4> HIDE DEF f
      <4> QED BY <2>3 DEF TotalOf
    <3>2. f[Len(f)] = Last(f)
      BY DEF Last
    <3> QED BY <2>1, <3>1, <3>2
  <2> HIDE DEF total, f
  <2>7. /\ Len(stack') = n - 1
        /\ \A i \in 1 .. n - 1 : stack'[i] = IF i = n - 1 THEN total ELSE s[i]
    BY <2>3, <2>5, <2>6
  <2>8. AllWait(stack', D) /\ Deepening(stack') /\ NoneLost(stack', D)
    <3>1. PICK t : t = stack'
      OBVIOUS
    <3>2. PICK m \in Nat : m = n /\ m > 1
      BY <1>1, <1>4
    <3>3. \A i \in 1 .. m - 1 :
           t[i].payload = s[i].payload /\ t[i].label = s[i].label /\ t[i].edges = s[i].edges
      BY <2>3, <2>4, <2>5, <2>7, <3>1, <3>2
    <3>4. /\ Len(s) = m /\ AllWait(s, D) /\ Deepening(s) /\ NoneLost(s, D) /\ s[m].edges = {}
          /\ Len(t) = m - 1
      BY <1>1, <1>2, <2>2, <2>7, <3>1, <3>2
    <3>5. AllWait(t, D) /\ Deepening(t) /\ NoneLost(t, D)
      <4> HIDE DEF D, n
      <4> QED BY <3>2, <3>3, <3>4, DriverGone
    <3> QED BY <3>1, <3>5
  <2>9. Loads!Fold(stack') = SumOf(D)
    <3>1. Loads!Fold(s) = Loads!Fold(f) + Driver.warnings
      <4>1. Driver \in Drivers
        BY <1>1
      <4> QED BY <2>3, <4>1, LoadOfTop
    <3>2. /\ Loads!Fold([f EXCEPT ![Len(f)] = total]) = Loads!Fold(Front(f)) + total.warnings
          /\ Loads!Fold(f) = Loads!Fold(Front(f)) + Last(f).warnings
          /\ Loads!Fold(Front(f)) \in Int
      <4>1. PICK g, x : g = f /\ x = total
        OBVIOUS
      <4>2. g \in Seq(Drivers) /\ Len(g) > 0 /\ x \in Drivers
        BY <1>1, <1>4, <2>3, <2>5, <4>1
      <4>3. /\ Loads!Fold([g EXCEPT ![Len(g)] = x]) = Loads!Fold(Front(g)) + x.warnings
            /\ Loads!Fold(g) = Loads!Fold(Front(g)) + Last(g).warnings
            /\ Loads!Fold(Front(g)) \in Int
        BY <4>2, LoadReplaced
      <4> QED BY <4>1, <4>3
    <3>3. Loads!Fold(stack) = SumOf(D)
      BY <1>2
    <3> QED BY <2>2, <2>5, <2>6, <3>1, <3>2, <3>3
  <2>10. ProgressOf(graph', stack', phase')
    <3> HIDE DEF D
    <3> QED BY <1>2, <1>3, <2>1, <2>8, <2>9 DEF ProgressOf, Working
  <2> QED BY <1>1, <2>10, SameProgress DEF Progress
<1>5. CASE n = 1
  <2>1. stack' = stack /\ phase' = "done"
    <3>1. ~(Len(stack) > 1)
      BY <1>5
    <3> QED BY <3>1, Zenon DEF Return
  <2>2. ProgressOf(graph', stack', phase')
    <3> HIDE DEF D
    <3> QED BY <1>1, <1>2, <1>3, <1>5, <2>1 DEF ProgressOf, Working
  <2> QED BY <1>1, <2>2, SameProgress DEF Progress
<1>6. n > 1 \/ n = 1
  <2>1. n \in Nat /\ n > 0
    BY <1>1
  <2> HIDE DEF n
  <2> QED BY <2>1
<1> QED BY <1>4, <1>5, <1>6

LEMMA NextProgress == Inv /\ Progress /\ [Next]_vars => Progress'
<1> SUFFICES ASSUME Inv, Progress, [Next]_vars PROVE Progress'
  OBVIOUS
<1>1. CASE Main
  BY <1>1, MainProgress
<1>2. CASE HandleBlob
  BY <1>2, HandleBlobProgress
<1>3. CASE Return
  BY <1>3, ReturnProgress
<1>4. CASE Help \/ Refuse \/ UNCHANGED vars
  <2>1. /\ tree' = tree /\ stack' = stack /\ graph' = graph
        /\ phase' = phase \/ phase' \in {"helped", "refused"}
    BY <1>4 DEF Help, Refuse, vars, input
  <2>2. ProgressOf(graph', stack', phase')
    BY <2>1 DEF Progress, ProgressOf
  <2> QED BY <2>1, <2>2, SameProgress DEF Progress
<1> QED BY <1>1, <1>2, <1>3, <1>4 DEF Next

LEMMA ProgressInvariance == Spec => [](Inv /\ Progress)
BY InitInv, NextInv, InitProgress, NextProgress, PTL DEF Spec

\* When main's driver has returned, all payloads were drawn: the first that was
\* not would still wait with the driver of the payload it is in.
LEMMA AllDrawn ==
  ASSUME Inv, Progress, phase = "done"
  PROVE  Drawn(graph) = Payloads /\ stack \in Seq(Drivers) /\ Len(stack) = 1
<1> DEFINE D == Drawn(graph)
           n == Len(tree.parent)
<1>1. tree \in Trees /\ n \in Nat /\ Payloads = 0 .. n
  <2>1. tree \in Trees
    BY DEF Inv, Types
  <2> QED BY <2>1, TreeShape
<1>2. 0 \in D /\ NoneLost(stack, D) /\ Len(stack) = 1 /\ stack[1].edges = {}
  BY DEF Progress, ProgressOf, Working
<1>3. ASSUME NEW e \in 0 .. n, \A k \in 0 .. n : k < e => k \in D
      PROVE  e \in D
  <2>1. CASE e # 0
    <3>1. e \in Payloads \ {0}
      BY <1>1, <2>1
    <3>2. tree.parent[e] \in 0 .. n /\ tree.parent[e] < e
      BY <1>1, <3>1, TreeShape
    <3>3. ~Pending(stack, e)
      <4>1. \A i \in 1 .. 1 : i = 1
        OBVIOUS
      <4> QED BY <1>2, <4>1 DEF Pending
    <3> QED BY <1>2, <1>3, <3>1, <3>2, <3>3 DEF NoneLost
  <2> QED BY <1>2, <2>1
<1>4. \A e \in 0 .. n : e \in D
  <2> HIDE DEF D, n
  <2> QED BY <1>1, <1>3, Ways!StrongInduction
<1>5. D \subseteq Payloads
  BY DEF Drawn
<1>6. stack \in Seq(Drivers)
  BY DEF Inv, Nested, Stacked
<1> QED BY <1>1, <1>2, <1>4, <1>5, <1>6

LEMMA GraphPositions ==
  ASSUME Inv
  PROVE  DOMAIN graph = 1 .. Len(graph) /\ Len(graph) \in Nat
BY DEF Inv, Whole

-----------------------------------------------------------------------------
(* The theorems about what is drawn and what is added up.                    *)

\* Every call is drawn once, with the label that spells the way to it, and no
\* payload at any depth is left out.
THEOREM EveryCallDrawnHolds == Spec => []EveryCallDrawn
<1>1. Inv /\ Progress => EveryCallDrawn
  <2> SUFFICES ASSUME Inv, Progress PROVE EveryCallDrawn
    OBVIOUS
  <2>1. Ordered(graph)
    BY DEF Progress, ProgressOf
  <2>2. ASSUME NEW i \in DOMAIN graph, IsItem(i, "edge")
        PROVE  /\ graph[i].label = Label[tree][graph[i].to]
               /\ \A j \in 1 .. i - 1 : IsItem(j, "edge") => graph[j].to # graph[i].to
    BY <2>1, <2>2, GraphPositions DEF Ordered, Spelled, Behind, IsItem
  <2>3. ASSUME phase = "done", NEW e \in Payloads
        PROVE  \E i \in DOMAIN graph : IsItem(i, "edge") /\ graph[i].to = e
    <3>1. e \in Drawn(graph)
      BY <2>3, AllDrawn
    <3> QED BY <3>1, GraphPositions DEF Drawn, IsItem
  <2> QED BY <2>2, <2>3 DEF EveryCallDrawn
<1> QED BY <1>1, ProgressInvariance, PTL

\* The graph follows the order of the calls, at every depth of every request.
THEOREM DrawnInCallOrderHolds == Spec => []DrawnInCallOrder
<1>1. Inv /\ Progress => DrawnInCallOrder
  <2> SUFFICES ASSUME Inv, Progress, NEW i \in DOMAIN graph, NEW j \in 1 .. i - 1,
                      IsItem(i, "edge"), IsItem(j, "edge")
               PROVE  MayPrecede(graph[j].to, graph[i].to)
    BY DEF DrawnInCallOrder
  <2>1. Behind(graph[j], graph[i])
    BY GraphPositions DEF Progress, ProgressOf, Ordered
  <2> QED BY <2>1 DEF Behind, IsItem
<1> QED BY <1>1, ProgressInvariance, PTL

\* No warning is lost or counted twice, whatever the shape of the request.
THEOREM WarningsAddUpHolds == Spec => []WarningsAddUp
<1>1. Inv /\ Progress => WarningsAddUp
  <2> SUFFICES ASSUME Inv, Progress, phase = "done"
               PROVE  stack[1].warnings = AllWarnings
    BY DEF WarningsAddUp
  <2>1. Drawn(graph) = Payloads /\ stack \in Seq(Drivers) /\ Len(stack) = 1 /\ tree \in Trees
    BY AllDrawn DEF Inv, Types
  <2>2. Loads!Fold(stack) = SumOf(Payloads)
    BY <2>1 DEF Progress, ProgressOf, Working
  <2>3. PICK s, d : s = stack /\ d = stack[1]
    OBVIOUS
  <2>4. s \in Seq(Drivers) /\ Len(s) = 1 /\ d \in Drivers /\ d = s[1]
    BY <2>1, <2>3
  <2>5. s = Append(<<>>, d)
    <3>1. <<>> \in Seq(Drivers) /\ Len(<<>>) = 0
      OBVIOUS
    <3>2. PICK t : t = Append(<<>>, d)
      OBVIOUS
    <3>3. t \in Seq(Drivers) /\ Len(t) = 1 /\ t[1] = d
      BY <2>4, <3>1, <3>2, AppendProperties
    <3>4. \A i \in 1 .. 1 : i = 1
      OBVIOUS
    <3>5. s = t
      BY <2>4, <3>3, <3>4, SeqEqual
    <3> QED BY <3>2, <3>5
  <2>6. Loads!Fold(s) = d.warnings
    <3>1. <<>> \in Seq(Drivers) /\ d.warnings \in Int
      BY <2>4 DEF Drivers
    <3>2. Loads!Fold(Append(<<>>, d)) = Loads!Fold(<<>>) + d.warnings /\ Loads!Fold(<<>>) = 0
      BY <2>4, <3>1, LoadOfTop, Loads!FoldEmpty
    <3> QED BY <2>5, <3>1, <3>2
  <2> QED BY <2>1, <2>2, <2>3, <2>6, AllWarningsIsSum
<1> QED BY <1>1, ProgressInvariance, PTL

-----------------------------------------------------------------------------
(* The linter comes to an end: something is always to be done while drivers  *)
(* are at work, and every step leaves less.                                  *)

\* Each payload that is not drawn stands for the step that draws it and the one
\* that returns from it; each driver at work for the latter.
Left == 2 * Cardinality(Payloads \ Drawn(graph)) + Len(stack)
          + (IF phase = "start" THEN 2 ELSE IF phase = "execute" THEN 1 ELSE 0)

LEMMA UndrawnFinite ==
  ASSUME tree \in Trees, NEW D
  PROVE  IsFiniteSet(Payloads \ D) /\ Cardinality(Payloads \ D) \in Nat
<1>1. IsFiniteSet(Payloads)
  BY TreeShape, FS_Interval
<1>2. Payloads \ D \subseteq Payloads
  OBVIOUS
<1> QED BY <1>1, <1>2, FS_Subset, FS_CardinalityType

LEMMA OneDrawn ==
  ASSUME tree \in Trees, NEW D, NEW e \in Payloads, e \notin D
  PROVE  Cardinality(Payloads \ (D \cup {e})) = Cardinality(Payloads \ D) - 1
<1> DEFINE U == Payloads \ D
<1>1. IsFiniteSet(U) /\ e \in U
  BY UndrawnFinite
<1>2. U \ {e} = Payloads \ (D \cup {e})
  OBVIOUS
<1> HIDE DEF U
<1>3. Cardinality(U \ {e}) = Cardinality(U) - 1
  BY <1>1, FS_RemoveElement
<1> QED BY <1>2, <1>3 DEF U

LEMMA LeftIsNatural == Inv => Left \in Nat
<1> SUFFICES ASSUME Inv PROVE Left \in Nat
  OBVIOUS
<1>1. tree \in Trees /\ Len(stack) \in Nat
  BY DEF Inv, Types, Nested, Stacked
<1>2. Cardinality(Payloads \ Drawn(graph)) \in Nat
  BY <1>1, UndrawnFinite
<1> QED BY <1>1, <1>2 DEF Left

\* What a driver that begins leaves, on top of m drivers.
LEMMA LessLeft ==
  ASSUME tree \in Trees, tree' = tree, Ordered(graph), graph \in Seq(Items),
         NEW e \in Payloads, e \notin Drawn(graph), \A x \in Drawn(graph) : MayPrecede(x, e),
         NEW label \in Seq(Int), label = Label[tree][e],
         NEW below, below \in Seq(Drivers), Len(below) = Len(stack),
         stack \in Seq(Drivers), Begin(e, label, below),
         phase = "start" \/ (phase = "execute" /\ Len(stack) > 0)
  PROVE  Left' < Left
<1> DEFINE U == Cardinality(Payloads \ Drawn(graph))
<1>1. U \in Nat /\ Len(stack) \in Nat /\ Payloads' = Payloads
  <2>1. U \in Nat
    BY UndrawnFinite
  <2>2. Payloads' = Payloads
    BY DEF Payloads
  <2> HIDE DEF U
  <2> QED BY <2>1, <2>2
<1>2. CASE e \in tree.throws
  <2>1. phase' = "crashed" /\ stack' = <<>> /\ graph' = graph /\ Len(<<>>) = 0
    BY <1>2 DEF Begin
  <2>2. Drawn(graph') = Drawn(graph)
    BY <2>1
  <2>3. Drawn(graph)' = Drawn(graph)
    BY <1>1, <2>1 DEF Drawn
  <2>4. Left' = 2 * U + 0 + 0
    BY <1>1, <2>1, <2>3 DEF Left
  <2>5. Left > 2 * U
    BY <1>1 DEF Left
  <2> HIDE DEF U
  <2> QED BY <1>1, <2>4, <2>5
<1>3. CASE e \notin tree.throws
  <2>1. Drawn(graph') = Drawn(graph) \cup {e}
    BY <1>3, BeginDraws
  <2>2. Drawn(graph)' = Drawn(graph) \cup {e}
    BY <1>1, <2>1 DEF Drawn
  <2>3. Cardinality(Payloads \ (Drawn(graph) \cup {e})) = U - 1
    BY OneDrawn
  <2>4. phase' = "execute" /\ Len(stack') = Len(stack) + 1
    <3>1. PICK d : stack' = Append(below, d)
      BY <1>3 DEF Begin
    <3>2. Len(Append(below, d)) = Len(below) + 1
      OBVIOUS
    <3> QED BY <1>3, <3>1, <3>2 DEF Begin
  <2>5. Left' = 2 * (U - 1) + (Len(stack) + 1) + 1
    BY <1>1, <2>2, <2>3, <2>4 DEF Left
  <2>6. Left \in Int /\ Left >= 2 * U + Len(stack) + 1
    BY <1>1 DEF Left
  <2> HIDE DEF U
  <2> QED BY <1>1, <2>5, <2>6
<1> QED BY <1>2, <1>3

LEMMA EveryStepCounts == Inv /\ Progress /\ Next => Left' < Left
<1> SUFFICES ASSUME Inv, Progress, Next PROVE Left' < Left
  OBVIOUS
<1>1. tree \in Trees /\ stack \in Seq(Drivers) /\ graph \in Seq(Items) /\ Ordered(graph)
  BY DEF Inv, Types, Nested, Stacked, Whole, Progress, ProgressOf
<1> DEFINE U == Cardinality(Payloads \ Drawn(graph))
<1>2. U \in Nat /\ Len(stack) \in Nat
  <2>1. U \in Nat
    BY <1>1, UndrawnFinite
  <2> HIDE DEF U
  <2> QED BY <1>1, <2>1
<1>3. ASSUME tree' = tree, Drawn(graph)' = Drawn(graph), Len(stack') = Len(stack),
             \/ phase = "start" /\ phase' \in {"helped", "refused"}
             \/ phase = "execute" /\ phase' = "done"
      PROVE  Left' < Left
  <2>1. Payloads' = Payloads
    BY <1>3 DEF Payloads
  <2>2. Left' = 2 * U + Len(stack) + 0 /\ Left > 2 * U + Len(stack)
    BY <1>2, <1>3, <2>1 DEF Left
  <2> HIDE DEF U
  <2> QED BY <1>2, <2>2
<1>4. CASE Help \/ Refuse
  <2>1. tree' = tree /\ graph' = graph /\ stack' = stack
    BY <1>4 DEF Help, Refuse, input
  <2>2. Drawn(graph)' = Drawn(graph)
    BY <2>1 DEF Drawn, Payloads
  <2> QED BY <1>3, <1>4, <2>1, <2>2 DEF Help, Refuse
<1>5. CASE Main
  <2>1. phase = "start" /\ tree' = tree /\ Begin(0, <<1>>, <<>>) /\ graph = <<>>
    BY <1>5 DEF Main, input, Inv, Whole
  <2>2. 0 \in Payloads /\ Label[tree][0] = <<1>> /\ stack = <<>>
    <3>1. Len(stack) = 0
      BY <1>2, <2>1 DEF Inv, Nested
    <3> QED BY <1>1, <3>1, TreeFacts, TreeShape, LabelStep
  <2>3. Drawn(graph) = {}
    <3>1. Len(<<>>) = 0 /\ 1 .. 0 = {}
      OBVIOUS
    <3> QED BY <2>1, <3>1 DEF Drawn
  <2>4. PICK label, below : label = <<1>> /\ below = <<>>
    OBVIOUS
  <2>5. <<1>> \in Seq(Int) /\ <<>> \in Seq(Drivers)
    OBVIOUS
  <2>6. Begin(0, label, below) /\ label = Label[tree][0] /\ label \in Seq(Int)
        /\ below \in Seq(Drivers) /\ Len(below) = Len(stack)
    BY <2>1, <2>2, <2>4, <2>5
  <2> QED BY <1>1, <2>1, <2>2, <2>3, <2>6, LessLeft
<1>6. CASE HandleBlob
  <2>1. phase = "execute" /\ tree' = tree
    BY <1>6 DEF HandleBlob, input
  <2>2. PICK e \in Top(Driver.edges) :
          Begin(e, NewSequence(e), [stack EXCEPT ![Len(stack)].edges = @ \ {e}])
    BY <1>6 DEF HandleBlob
  <2>3. /\ Len(stack) > 0 /\ Driver = stack[Len(stack)] /\ Driver \in Drivers
        /\ e \in Payloads /\ e \notin Drawn(graph) /\ \A x \in Drawn(graph) : MayPrecede(x, e)
        /\ NewSequence(e) \in Seq(Int) /\ NewSequence(e) = Label[tree][e]
    BY <2>1, TopCall
  <2>4. PICK label, below : /\ label = NewSequence(e)
                           /\ below = [stack EXCEPT ![Len(stack)].edges = @ \ {e}]
    OBVIOUS
  <2>5. below \in Seq(Drivers) /\ Len(below) = Len(stack)
    <3>1. PICK rest : rest = [Driver EXCEPT !.edges = @ \ {e}]
      OBVIOUS
    <3>2. rest \in Drivers
      BY <2>3, <3>1 DEF Drivers
    <3>3. below = [stack EXCEPT ![Len(stack)] = rest]
      BY <1>2, <2>3, <2>4, <3>1
    <3> QED BY <1>1, <1>2, <2>3, <3>2, <3>3
  <2>6. Begin(e, label, below)
    BY <2>2, <2>4
  <2> QED BY <1>1, <2>1, <2>3, <2>4, <2>5, <2>6, LessLeft
<1>7. CASE Return
  <2>1. phase = "execute" /\ tree' = tree /\ Payloads' = Payloads
    BY <1>7 DEF Return, input, Payloads
  <2>2. Drawn(graph)' = Drawn(graph)
    <3> DEFINE closing == [item |-> "}"]
    <3>1. closing \in Items /\ closing.item # "edge"
      BY DEF Items
    <3>2. graph' = IF Preamble(Driver.payload) THEN Append(graph, closing) ELSE graph
      BY <1>7 DEF Return
    <3> HIDE DEF closing
    <3>3. Drawn(graph') = Drawn(graph)
      BY <1>1, <3>1, <3>2, DrawOther
    <3> QED BY <2>1, <3>3 DEF Drawn
  <2>3. CASE Len(stack) > 1
    <3>1. stack' = TotalOf(Front(stack)) /\ phase' = "execute"
      BY <1>7, <2>1, <2>3 DEF Return
    <3>2. Front(stack) \in Seq(Drivers) /\ Len(Front(stack)) = Len(stack) - 1
      BY <1>1, <2>3, FrontAndLast
    <3>3. Len(stack') = Len(stack) - 1
      <4>1. PICK f : f = Front(stack)
        OBVIOUS
      <4>2. f \in Seq(Drivers) /\ Len(f) = Len(stack) - 1 /\ stack' = TotalOf(f)
        BY <3>1, <3>2, <4>1
      <4> QED BY <4>2 DEF TotalOf
    <3>4. Left' = 2 * U + (Len(stack) - 1) + 1 /\ Left = 2 * U + Len(stack) + 1
      BY <1>2, <2>1, <2>2, <3>1, <3>3 DEF Left
    <3> HIDE DEF U
    <3> QED BY <1>2, <3>4
  <2>4. CASE ~(Len(stack) > 1)
    <3>1. stack' = stack /\ phase' = "done"
      BY <1>7, <2>4 DEF Return
    <3> QED BY <1>3, <2>1, <2>2, <3>1
  <2> QED BY <2>3, <2>4
<1> QED BY <1>4, <1>5, <1>6, <1>7 DEF Next

\* No step of the linter leaves as much to do as there was before, so no request,
\* however deep, keeps the recursion of Execute and HandleBlob going for ever.
THEOREM LeftDecreases == Spec => [](Left \in Nat) /\ [][Left' < Left]_vars
<1>1. Inv /\ Progress /\ [Next]_vars => [Left' < Left]_vars
  BY EveryStepCounts
<1> QED BY <1>1, LeftIsNatural, ProgressInvariance, PTL DEF Spec

\* While drivers are at work the one on top can return or has a call to take: its
\* queue is not empty, and some edge of it has the smallest sequence number.
CanGoOn == phase = "execute" => Driver.edges = {} \/ Top(Driver.edges) # {}

\* The recursion is never stuck (top() of a queue that is not empty).
THEOREM CanGoOnHolds == Spec => []CanGoOn
<1>1. Inv => CanGoOn
  <2> SUFFICES ASSUME Inv, phase = "execute", Driver.edges # {} PROVE Top(Driver.edges) # {}
    BY DEF CanGoOn
  <2> DEFINE E == Driver.edges
             Before(c) == {d \in E : tree.seq[d] < tree.seq[c]}
             W == {Before(c) : c \in E}
  <2>1. tree \in Trees /\ stack \in Seq(Drivers) /\ Len(stack) > 0
    BY DEF Inv, Types, Nested, Stacked
  <2>2. E \subseteq Payloads \ {0}
    <3>1. Driver = stack[Len(stack)] /\ Len(stack) \in 1 .. Len(stack)
      BY <2>1 DEF Driver, Last
    <3>2. stack[Len(stack)] \in Drivers /\ InPlace(stack, Len(stack))
      BY <2>1, <3>1 DEF Inv, Nested, Stacked
    <3> QED BY <3>1, <3>2 DEF InPlace, Edges
  <2>3. IsFiniteSet(E) /\ \A c \in E : tree.seq[c] \in Int
    <3>1. IsFiniteSet(Payloads)
      BY <2>1, TreeShape, FS_Interval
    <3> HIDE DEF E
    <3> QED BY <2>1, <2>2, <3>1, TreeShape, FS_Subset
  <2>4. W \in SUBSET FiniteSubsetsOf(E) /\ W # {}
    <3>1. \A c \in E : IsFiniteSet(Before(c)) /\ Before(c) \subseteq E
      <4> HIDE DEF E
      <4> QED BY <2>3, FS_Subset
    <3>2. W \in SUBSET FiniteSubsetsOf(E)
      BY <3>1 DEF FiniteSubsetsOf
    <3>3. PICK c \in E : TRUE
      OBVIOUS
    <3>4. Before(c) \in W
      <4> HIDE DEF E
      <4> QED OBVIOUS
    <3> HIDE DEF W
    <3> QED BY <3>2, <3>4
  <2>5. PICK x \in W : \A y \in W : ~ (<<y, x>> \in StrictSubsetOrdering(E))
    <3> HIDE DEF W, E
    <3> QED BY <2>3, <2>4, WFMin, FS_StrictSubsetOrderingWellFounded
  <2>6. PICK c \in E : x = Before(c)
    OBVIOUS
  <2>7. ASSUME NEW d \in E, ~(tree.seq[c] <= tree.seq[d]) PROVE FALSE
    <3>1. tree.seq[c] \in Int /\ tree.seq[d] \in Int
      BY <2>3
    <3>2. \A b \in E : tree.seq[b] \in Int
      BY <2>3
    <3> HIDE DEF E
    <3>3. d \in Before(c) /\ d \notin Before(d) /\ Before(d) \subseteq Before(c)
      BY <2>7, <3>1, <3>2
    <3>4. Before(c) \in SUBSET E /\ Before(d) \in SUBSET E /\ Before(d) \in W
      OBVIOUS
    <3> HIDE DEF Before, W
    <3>5. <<Before(d), Before(c)>> \in StrictSubsetOrdering(E)
      BY <3>3, <3>4 DEF StrictSubsetOrdering
    <3> QED BY <2>5, <2>6, <3>4, <3>5
  <2> QED BY <2>6, <2>7 DEF Top
<1> QED BY <1>1, Invariance, PTL
=============================================================================
