--------------------------- MODULE FidiDriverProofs ---------------------------
(****************************************************************************)
(* Proofs about FidiDriver, for every set of names and of attribute lists,   *)
(* and every number of node rules.                                           *)
(****************************************************************************)
EXTENDS FidiDriver, SequenceTheorems, TLAPS

-----------------------------------------------------------------------------
(* The sanity checks and GetUrl.                                             *)

\* Every edge has put its node among the destinations, and what the sanity
\* checks complained of still stands: once they are done, nothing is added to
\* the tables they looked at.
ChecksStand ==
  /\ edges \subseteq destinations
  /\ phase = "checked" => warnings = SanityWarnings

\* The complaints are about three of the tables.
LEMMA SameWarnings ==
  ASSUME UNCHANGED <<topAttributes, nodes, destinations>>
  PROVE  SanityWarnings' = SanityWarnings
<1>1. \A name : NodeWarnings(name)' = NodeWarnings(name)
  BY DEF NodeWarnings
<1>2. ResponseWarnings' = ResponseWarnings
  BY DEF ResponseWarnings
<1>3. DelayWarnings' = DelayWarnings /\ UsecThrows' = UsecThrows /\ UsecWarnings' = UsecWarnings
  BY DEF DelayWarnings, UsecThrows, UsecWarnings
<1> QED BY <1>1, <1>2, <1>3 DEF SanityWarnings

LEMMA ChecksStandInit == Init => ChecksStand
BY DEF Init, ChecksStand

LEMMA ChecksStandStep == ChecksStand /\ [Next]_vars => ChecksStand'
<1> SUFFICES ASSUME ChecksStand, [Next]_vars PROVE ChecksStand'
  OBVIOUS
<1>1. ASSUME NEW list, HandleTop(list) PROVE ChecksStand'
  BY <1>1 DEF ChecksStand, HandleTop, Parsing
<1>2. ASSUME NEW name, NEW list, HandleNode(name, list) PROVE ChecksStand'
  BY <1>2 DEF ChecksStand, HandleNode
<1>3. ASSUME NEW name, HandleEdge(name) PROVE ChecksStand'
  BY <1>3 DEF ChecksStand, HandleEdge, Parsing
<1>4. ASSUME NEW name, Forward(name) PROVE ChecksStand'
  BY <1>4 DEF ChecksStand, Forward
<1>5. CASE SanityChecks
  <2>1. UNCHANGED <<topAttributes, nodes, destinations, edges>> /\ warnings' = SanityWarnings
    BY <1>5 DEF SanityChecks
  <2>2. SanityWarnings' = SanityWarnings
    BY <2>1, SameWarnings
  <2> QED BY <2>1, <2>2 DEF ChecksStand
<1>6. CASE UNCHANGED vars
  <2>1. SanityWarnings' = SanityWarnings
    BY <1>6, SameWarnings DEF vars
  <2> QED BY <1>6, <2>1 DEF ChecksStand, vars
<1> QED BY <1>1, <1>2, <1>3, <1>4, <1>5, <1>6 DEF Next

\* At every level of the call tree, a request that passed the sanity checks
\* only has edges to nodes whose URL GetUrl can make: it dereferences no lookup
\* that found nothing.
THEOREM GetUrlIsSafeHolds == Spec => []GetUrlIsSafe
<1>1. ASSUME ChecksStand, Executed, NEW name \in edges
      PROVE  UrlIsDefined(name)
  <2>1. SanityWarnings = {} /\ name \in destinations
    BY <1>1 DEF ChecksStand, Executed
  <2>2. name \in DOMAIN nodes
    <3>1. {<<"undefined", n>> : n \in destinations \ DOMAIN nodes} = {}
      BY <2>1 DEF SanityWarnings
    <3> QED BY <2>1, <3>1
  <2>3. NodeWarnings(name) = {}
    BY <2>1, <2>2 DEF SanityWarnings
  <2>4. Addressed(nodes[name])
    BY <2>3 DEF NodeWarnings, If
  <2> QED BY <2>2, <2>4 DEF UrlIsDefined, Has
<1>2. ChecksStand => GetUrlIsSafe
  BY <1>1 DEF GetUrlIsSafe
<1> QED BY <1>2, ChecksStandInit, ChecksStandStep, PTL DEF Spec

-----------------------------------------------------------------------------
(* Attribute lists and tables.                                               *)

Rules == Names \X NodeLists

LEMMA BoundedSequences ==
  ASSUME NEW S, NEW n \in Nat, NEW s
  PROVE  s \in BoundedSeq(S, n) <=> s \in Seq(S) /\ Len(s) <= n
<1>1. ASSUME s \in BoundedSeq(S, n) PROVE s \in Seq(S) /\ Len(s) <= n
  <2>1. PICK m \in 0 .. n : s \in [1 .. m -> S]
    BY <1>1 DEF BoundedSeq, SeqOf
  <2>2. m \in Nat /\ m <= n
    OBVIOUS
  <2> QED BY <2>1, <2>2
<1>2. ASSUME s \in Seq(S), Len(s) <= n PROVE s \in BoundedSeq(S, n)
  <2>1. Len(s) \in 0 .. n /\ s \in [1 .. Len(s) -> S]
    BY <1>2
  <2> QED BY <2>1 DEF BoundedSeq, SeqOf
<1> QED BY <1>1, <1>2

\* A value that has lost its quotes keeps what else it is, and has none to lose.
LEMMA BareValues ==
  ASSUME NEW v \in Value
  PROVE  /\ Unquoted(v) \in Value /\ Unquoted(v).kind # "string"
         /\ v.kind # "string" => Unquoted(v) = v
BY DEF Value, Unquoted

LEMMA Stripped ==
  ASSUME NEW f, f = [k \in DOMAIN f |-> f[k]]
  PROVE  /\ DOMAIN StripHostname(f) = DOMAIN f
         /\ \A k \in DOMAIN f :
              StripHostname(f)[k] = IF k = "hostname" THEN Unquoted(f[k]) ELSE f[k]
<1>1. CASE Has(f, "hostname")
  BY <1>1 DEF StripHostname, Has
<1>2. CASE ~Has(f, "hostname")
  BY <1>2 DEF StripHostname, Has
<1> QED BY <1>1, <1>2

\* What a node rule makes of the table of the nodes.
OthersKept(table, name, new) == \A n \in DOMAIN table : n # name => new[n] = table[n]

LEMMA DefinedNames ==
  ASSUME NEW table, NEW name, NEW list
  PROVE  DOMAIN NodesWith(table, name, list) = DOMAIN table \cup {name}
BY DEF NodesWith, Redefine

LEMMA DefinedOthers ==
  ASSUME NEW table, NEW name, NEW list
  PROVE  OthersKept(table, name, NodesWith(table, name, list))
BY DEF NodesWith, Redefine, OthersKept

LEMMA DefinedOwn ==
  ASSUME NEW table, NEW name, NEW list
  PROVE  NodesWith(table, name, list)[name] = StripHostname(Insert(Known(table, name), list))
BY DEF NodesWith, Redefine

Typed(list) == \A k \in DOMAIN list : list[k] \in Value
Bare(list) == Has(list, "hostname") => list["hostname"].kind # "string"
Kept(old, new) == \A k \in DOMAIN old : Has(new, k) /\ new[k] = old[k]

\* A later rule adds attributes to a node that is known; the hostname it has
\* is bare and stays what it is.
LEMMA Extended ==
  ASSUME NEW known, Typed(known), Bare(known), NEW list, Typed(list)
  PROVE  LET new == StripHostname(Insert(known, list))
         IN  Typed(new) /\ Bare(new) /\ Kept(known, new)
<1> DEFINE m == Insert(known, list)
           new == StripHostname(m)
<1>1. /\ m = [k \in DOMAIN m |-> m[k]]
      /\ DOMAIN m = DOMAIN known \cup DOMAIN list
      /\ \A k \in DOMAIN m : m[k] = IF k \in DOMAIN known THEN known[k] ELSE list[k]
  BY DEF Insert, Has
<1> HIDE DEF m
<1>2. /\ DOMAIN new = DOMAIN m
      /\ \A k \in DOMAIN m : new[k] = IF k = "hostname" THEN Unquoted(m[k]) ELSE m[k]
  BY <1>1, Stripped
<1> HIDE DEF new
<1>3. \A k \in DOMAIN m : m[k] \in Value
  BY <1>1 DEF Typed
<1>4. Typed(new)
  BY <1>2, <1>3, BareValues DEF Typed
<1>5. Bare(new)
  BY <1>2, <1>3, BareValues DEF Bare, Has
<1>6. Kept(known, new)
  <2>1. ASSUME NEW k \in DOMAIN known PROVE Has(new, k) /\ new[k] = known[k]
    <3>1. k \in DOMAIN m /\ m[k] = known[k] /\ m[k] \in Value
      BY <1>1, <1>3
    <3>2. k = "hostname" => Unquoted(m[k]) = m[k]
      BY <3>1, BareValues DEF Bare, Has
    <3> QED BY <1>2, <3>1, <3>2 DEF Has
  <2> QED BY <2>1 DEF Kept
<1> QED BY <1>4, <1>5, <1>6 DEF new, m

-----------------------------------------------------------------------------
(* The inductive invariant: the table of the nodes is what the node rules    *)
(* that are handed on make of an empty one, so the next instance makes the   *)
(* same.                                                                     *)

Replayed == nodes = Replay(nodeGlob) /\ nodeGlob = ReplayGlob(nodeGlob)

Inv == TypeOK /\ HostnamesAreBare /\ Replayed

LEMMA ReplayEmpty == Replay(<<>>) = Empty /\ ReplayGlob(<<>>) = <<>>
BY Tables!FoldEmpty, Globs!FoldEmpty DEF Replay, ReplayGlob

LEMMA ReplayOneMore ==
  ASSUME NEW glob \in Seq(Rules), NEW name \in Names, NEW list \in NodeLists
  PROVE  /\ Replay(GlobWith(glob, name, list)) = NodesWith(Replay(glob), name, list)
         /\ ReplayGlob(GlobWith(glob, name, list)) = GlobWith(ReplayGlob(glob), name, list)
<1> DEFINE rule == <<name, list>>
<1>1. rule \in Rules /\ rule[1] = name /\ rule[2] = list
  BY DEF Rules
<1> HIDE DEF rule
<1>2. Tables!Fold(Append(glob, rule)) = AddRule(Tables!Fold(glob), rule)
  BY <1>1, Tables!FoldAppend
<1>3. Globs!Fold(Append(glob, rule)) = KeepRule(Globs!Fold(glob), rule)
  BY <1>1, Globs!FoldAppend
<1> QED BY <1>1, <1>2, <1>3 DEF Replay, ReplayGlob, AddRule, KeepRule, GlobWith, rule

LEMMA InitInv == Init => Inv
<1> SUFFICES ASSUME Init PROVE Inv
  OBVIOUS
<1>1. Empty = <<>> /\ DOMAIN Empty = {}
  BY DEF Empty
<1>2. nodeGlob \in BoundedSeq(Names \X NodeLists, MaxNodeRules)
  <2>1. nodeGlob \in Seq(Names \X NodeLists) /\ Len(nodeGlob) <= MaxNodeRules
    BY MaxNodeRulesAssumption DEF Init
  <2> QED BY <2>1, MaxNodeRulesAssumption, BoundedSequences
<1>3. TypeOK
  BY <1>1, <1>2 DEF Init, TypeOK
<1>4. HostnamesAreBare
  BY <1>1 DEF Init, HostnamesAreBare
<1> QED BY <1>3, <1>4, ReplayEmpty DEF Init, Inv, Replayed

LEMMA HandleNodeStep ==
  ASSUME Inv, NEW name \in Names, NEW list \in NodeLists, HandleNode(name, list)
  PROVE  /\ Inv'
         /\ \A n \in DOMAIN nodes : Has(nodes', n) /\ Kept(nodes[n], nodes'[n])
<1>1. /\ nodes' = NodesWith(nodes, name, list) /\ nodeGlob' = GlobWith(nodeGlob, name, list)
      /\ UNCHANGED <<topAttributes, edges, destinations, warnings, phase>>
      /\ Len(nodeGlob) < MaxNodeRules
  BY DEF HandleNode
<1> DEFINE known == Known(nodes, name)
<1>2. /\ DOMAIN nodes' = DOMAIN nodes \cup {name}
      /\ \A n \in DOMAIN nodes : n # name => nodes'[n] = nodes[n]
      /\ nodes'[name] = StripHostname(Insert(known, list))
  <2>1. DOMAIN nodes' = DOMAIN nodes \cup {name}
    BY <1>1, DefinedNames
  <2>2. OthersKept(nodes, name, nodes')
    BY <1>1, DefinedOthers
  <2>3. nodes'[name] = StripHostname(Insert(known, list))
    BY <1>1, DefinedOwn
  <2> QED BY <2>1, <2>2, <2>3 DEF OthersKept
<1>3. \A n \in DOMAIN nodes : Typed(nodes[n]) /\ Bare(nodes[n])
  BY DEF Inv, TypeOK, HostnamesAreBare, Typed, Bare
<1>4. Typed(known) /\ Bare(known)
  <2>1. CASE name \in DOMAIN nodes
    BY <1>3, <2>1 DEF Known, Has
  <2>2. CASE name \notin DOMAIN nodes
    BY <2>2 DEF Known, Has, Empty, Typed, Bare
  <2> QED BY <2>1, <2>2
<1>5. Typed(list)
  BY ListsAssumption DEF Typed
<1> HIDE DEF known
<1>6. Typed(nodes'[name]) /\ Bare(nodes'[name]) /\ Kept(known, nodes'[name])
  BY <1>2, <1>4, <1>5, Extended
<1>7. \A n \in DOMAIN nodes' : Typed(nodes'[n]) /\ Bare(nodes'[n])
  BY <1>2, <1>3, <1>6
<1>8. nodeGlob \in Seq(Rules) /\ Len(nodeGlob) <= MaxNodeRules
  BY MaxNodeRulesAssumption, BoundedSequences DEF Inv, TypeOK, Rules
<1>9. nodeGlob' \in Seq(Rules) /\ Len(nodeGlob') <= MaxNodeRules
  <2>1. <<name, list>> \in Rules
    BY DEF Rules
  <2>2. nodeGlob' = Append(nodeGlob, <<name, list>>)
    BY <1>1 DEF GlobWith
  <2>3. Len(nodeGlob) \in Nat /\ MaxNodeRules \in Nat
    BY <1>8, MaxNodeRulesAssumption
  <2> HIDE DEF Rules
  <2>4. nodeGlob' \in Seq(Rules) /\ Len(nodeGlob') = Len(nodeGlob) + 1
    BY <1>8, <2>1, <2>2, AppendProperties
  <2> QED BY <1>1, <2>3, <2>4
<1>10. TypeOK'
  <2>1. nodeGlob' \in BoundedSeq(Names \X NodeLists, MaxNodeRules)
    BY <1>9, MaxNodeRulesAssumption, BoundedSequences DEF Rules
  <2>2. DOMAIN nodes' \subseteq Names
    BY <1>2 DEF Inv, TypeOK
  <2> QED BY <1>1, <1>7, <2>1, <2>2 DEF Inv, TypeOK, Typed
<1>11. HostnamesAreBare'
  BY <1>7 DEF HostnamesAreBare, Bare
<1>12. Replayed'
  <2>1. nodes' = Replay(nodeGlob') /\ nodeGlob' = ReplayGlob(nodeGlob')
    BY <1>1, <1>8, ReplayOneMore DEF Inv, Replayed
  <2> QED BY <2>1 DEF Replayed
<1>13. ASSUME NEW n \in DOMAIN nodes
       PROVE  Has(nodes', n) /\ Kept(nodes[n], nodes'[n])
  <2>1. n \in DOMAIN nodes' /\ (n = name => known = nodes[n])
    BY <1>2 DEF known, Known, Has
  <2>2. n # name => Kept(nodes[n], nodes'[n])
    BY <1>2 DEF Kept, Has
  <2> QED BY <1>6, <2>1, <2>2 DEF Has
<1> QED BY <1>10, <1>11, <1>12, <1>13 DEF Inv

LEMMA ForwardStep ==
  ASSUME Inv, NEW name \in Names, Forward(name)
  PROVE  Inv' /\ nodes' = nodes
<1>1. /\ nodes' = nodes /\ nodeGlob' = nodeGlob /\ topAttributes' = Empty /\ edges' = {}
      /\ destinations' = {} /\ phase' = "payload"
  BY DEF Forward, Inv, Replayed
<1> QED BY <1>1 DEF Inv, TypeOK, HostnamesAreBare, Replayed

\* The other steps leave the nodes alone.
LEMMA OtherSteps ==
  ASSUME Inv,
         \/ \E list \in TopLists : HandleTop(list)
         \/ \E name \in Names : HandleEdge(name)
         \/ SanityChecks \/ UNCHANGED vars
  PROVE  Inv' /\ nodes' = nodes
<1>1. nodes' = nodes /\ nodeGlob' = nodeGlob
  BY DEF HandleTop, HandleEdge, SanityChecks, vars
<1>2. TypeOK'
  <2>1. ASSUME NEW list \in TopLists, HandleTop(list) PROVE TypeOK'
    BY <2>1 DEF Inv, TypeOK, HandleTop
  <2>2. ASSUME NEW name \in Names, HandleEdge(name) PROVE TypeOK'
    BY <2>2 DEF Inv, TypeOK, HandleEdge
  <2>3. CASE SanityChecks
    BY <2>3 DEF Inv, TypeOK, SanityChecks
  <2>4. CASE UNCHANGED vars
    BY <2>4 DEF Inv, TypeOK, vars
  <2> QED BY <2>1, <2>2, <2>3, <2>4
<1>3. HostnamesAreBare' /\ Replayed'
  BY <1>1 DEF Inv, HostnamesAreBare, Replayed
<1> QED BY <1>1, <1>2, <1>3 DEF Inv

LEMMA NextInv == Inv /\ [Next]_vars => Inv'
BY HandleNodeStep, ForwardStep, OtherSteps DEF Next

LEMMA Invariance == Spec => []Inv
BY InitInv, NextInv, PTL DEF Spec

-----------------------------------------------------------------------------
(* The theorems about the tables.                                            *)

\* The tables hold names, values and rules of the grammar, at every level of the
\* call tree, and there are two ways to the same: a driver that is handed the
\* node rules and goes through them has the nodes this one has, and hands on the
\* same rules.
THEOREM TypeCorrect == Spec => [](TypeOK /\ Replayed)
<1>1. Inv => TypeOK /\ Replayed
  BY DEF Inv
<1> QED BY <1>1, Invariance, PTL

\* No hostname keeps the quotes of the grammar, however many rules define the
\* node, here and in every instance the request is forwarded to.
THEOREM HostnamesAreBareHolds == Spec => []HostnamesAreBare
<1>1. Inv => HostnamesAreBare
  BY DEF Inv
<1> QED BY <1>1, Invariance, PTL

\* A step of the specification keeps every attribute that is known, and a
\* request that is forwarded finds the same table of nodes at the other end.
THEOREM FirstDefinitionWinsHolds == Spec => FirstDefinitionWins
<1> DEFINE Agrees ==
      /\ \A name \in DOMAIN nodes : \A k \in DOMAIN nodes[name] :
           Has(nodes', name) /\ Has(nodes'[name], k) /\ nodes'[name][k] = nodes[name][k]
      /\ phase = "checked" /\ phase' = "payload" => nodes' = nodes
<1>1. ASSUME Inv, Next PROVE Agrees
  <2>1. ASSUME NEW name \in Names, NEW list \in NodeLists, HandleNode(name, list)
        PROVE  Agrees
    <3>1. \A n \in DOMAIN nodes : Has(nodes', n) /\ Kept(nodes[n], nodes'[n])
      BY <1>1, <2>1, HandleNodeStep
    <3>2. phase' # "payload" \/ phase # "checked"
      BY <2>1 DEF HandleNode
    <3> QED BY <3>1, <3>2 DEF Kept
  <2>2. ASSUME NEW name \in Names, Forward(name)
        PROVE  Agrees
    <3>1. nodes' = nodes
      BY <1>1, <2>2, ForwardStep
    <3> QED BY <3>1 DEF Has
  <2>3. ASSUME \/ \E list \in TopLists : HandleTop(list)
               \/ \E name \in Names : HandleEdge(name)
               \/ SanityChecks
        PROVE  Agrees
    <3>1. nodes' = nodes
      BY <1>1, <2>3, OtherSteps
    <3> QED BY <3>1 DEF Has
  <2> QED BY <1>1, <2>1, <2>2, <2>3 DEF Next
<1>2. Inv /\ [Next]_vars => [Agrees]_vars
  BY <1>1
<1> QED BY <1>2, Invariance, PTL DEF Spec, FirstDefinitionWins
=============================================================================
