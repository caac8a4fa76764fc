----------------------------- MODULE FidiDriver -----------------------------
(****************************************************************************)
(* The driver shared by the application and the linter: the tables that the  *)
(* parser fills through HandleTop, HandleNode and HandleEdge, the sanity     *)
(* checks over them, the URLs the application makes from them, and the node  *)
(* definitions a driver hands to the next instance with every call.          *)
(*                                                                           *)
(* A behaviour follows one request down the call tree: the driver of the     *)
(* first instance parses and checks it, then the driver of an instance it    *)
(* calls does the same with the payload it is sent, and so on.               *)
(****************************************************************************)
EXTENDS Integers, FiniteSets, SequencesExt

CONSTANTS
  Names,        \* node names
  NodeLists,    \* attribute lists of node rules: functions from keys to values
  TopLists,     \* attribute lists of top rules
  MaxNodeRules  \* the most node rules in a request

\* A value as the grammar has it: a STRING keeps its double quotes, a NUMBER
\* went through atoi and back.
Value == [kind : {"string", "ident", "number"}, n : Int]

ASSUME ListsAssumption ==
  \A list \in NodeLists \cup TopLists : \A k \in DOMAIN list : list[k] \in Value
ASSUME MaxNodeRulesAssumption == MaxNodeRules \in Nat

VARIABLES
  topAttributes,  \* top_attributes_
  nodes,          \* nodes_: function from names to attribute lists
  nodeGlob,       \* node_glob_: the node rules, in order, as they were written
  edges,          \* the destinations of the edges in edge_attributes_
  destinations,   \* destinations_
  warnings,       \* what SanityChecks complained of
  phase           \* source or payload: parsing a client's request or that of another
                  \* instance; checked; threw: SanityChecks let an exception out

vars == <<topAttributes, nodes, nodeGlob, edges, destinations, warnings, phase>>

Empty == <<>>   \* the function with no keys

Init ==
  /\ topAttributes = Empty /\ nodes = Empty /\ nodeGlob = <<>>
  /\ edges = {} /\ destinations = {} /\ warnings = {} /\ phase = "source"

-----------------------------------------------------------------------------
(* The parser's callbacks.                                                   *)

Has(list, key) == key \in DOMAIN list

\* Hostnames lose the double quotes the grammar requires around them.
Unquoted(v) == IF v.kind = "string" THEN [v EXCEPT !.kind = "ident"] ELSE v

StripHostname(list) ==
  IF Has(list, "hostname") THEN [list EXCEPT !["hostname"] = Unquoted(@)] ELSE list

\* std::map::insert keeps what is there: the first definition of a key wins.
Insert(list, more) ==
  [k \in DOMAIN list \cup DOMAIN more |-> IF Has(list, k) THEN list[k] ELSE more[k]]

Known(table, name) == IF Has(table, name) THEN table[name] ELSE Empty

Redefine(table, name, list) ==
  [n \in DOMAIN table \cup {name} |-> IF n = name THEN list ELSE table[n]]

\* Mutant: a later definition wins.
NodesWithLast(table, name, list) ==
  Redefine(table, name, StripHostname(Insert(list, Known(table, name))))

\* Mutant: only the first definition of a node has its hostname stripped.
NodesWithQuotes(table, name, list) ==
  Redefine(table, name, IF Has(table, name) THEN Insert(table[name], list)
                                            ELSE StripHostname(list))

NodesWith(table, name, list) ==
  Redefine(table, name, StripHostname(Insert(Known(table, name), list)))

\* Mutant: only the first definition of a node is handed on.
GlobWithFirst(glob, name, list) ==
  IF \E i \in DOMAIN glob : glob[i][1] = name THEN glob ELSE Append(glob, <<name, list>>)

\* Mutant: hostnames are handed on without the quotes the grammar requires.
GlobWithBareHosts(glob, name, list) == Append(glob, <<name, StripHostname(list)>>)

GlobWith(glob, name, list) == Append(glob, <<name, list>>)

Parsing == phase \in {"source", "payload"}

\* The list of a later top rule replaces that of an earlier one.
HandleTop(list) ==
  /\ Parsing
  /\ topAttributes' = list
  /\ UNCHANGED <<nodes, nodeGlob, edges, destinations, warnings, phase>>

\* The payload of a call is one top rule: its nodes all come from the glob.
HandleNode(name, list) ==
  /\ phase = "source"
  /\ Len(nodeGlob) < MaxNodeRules
  /\ nodes' = NodesWith(nodes, name, list)
  /\ nodeGlob' = GlobWith(nodeGlob, name, list)
  /\ UNCHANGED <<topAttributes, edges, destinations, warnings, phase>>

\* Mutant: destinations_ is not kept.
HandleEdgeUnchecked(name) ==
  /\ Parsing
  /\ edges' = edges \cup {name}
  /\ UNCHANGED <<topAttributes, nodes, nodeGlob, destinations, warnings, phase>>

HandleEdge(name) ==
  /\ Parsing
  /\ edges' = edges \cup {name}
  /\ destinations' = destinations \cup {name}
  /\ UNCHANGED <<topAttributes, nodes, nodeGlob, warnings, phase>>

-----------------------------------------------------------------------------
(* SanityChecks.                                                             *)

\* check_num: std::stoi throws for a name and for a string, quotes and all.
NotANumber(v) == v.kind # "number"

BadNumbers(list, keys) == {k \in keys \cap DOMAIN list : NotANumber(list[k])}

Addressed(list) == Has(list, "url") \/ (Has(list, "hostname") /\ Has(list, "port"))

\* A warning is a complaint and what it is about; at most one of each is made.
If(condition, warning) == IF condition THEN {warning} ELSE {}

NodeWarnings(name) ==
  LET list == nodes[name]
  IN  If(~Addressed(list), <<"address", name>>)
      \cup If(BadNumbers(list, {"port"}) # {}, <<"port", name>>)
      \cup If(Has(list, "hostname") /\ list["hostname"].kind = "string", <<"quotes", name>>)

ResponseWarnings ==
  IF ~Has(topAttributes, "response") THEN {<<"missing", "response">>}
  ELSE LET v == topAttributes["response"]
           code == IF NotANumber(v) THEN 0 ELSE v.n
       IN  If(NotANumber(v), <<"number", "response">>)
           \cup If(code <= 0 \/ code >= 600, <<"range", "response">>)

DelayWarnings ==
  {<<"number", k>> :
     k \in BadNumbers(topAttributes, {"predelay", "postdelay", "timeout_sec", "timeout_usec"})}

\* The comparison of timeout_usec with a million calls stol with no try around it.
UsecThrows == BadNumbers(topAttributes, {"timeout_usec"}) # {}

UsecWarnings ==
  If(Has(topAttributes, "timeout_usec") /\ topAttributes["timeout_usec"].n >= 1000000,
     <<"range", "timeout_usec">>)

SanityWarnings ==
  (UNION {NodeWarnings(name) : name \in DOMAIN nodes})
  \cup {<<"undefined", name>> : name \in destinations \ DOMAIN nodes}
  \cup ResponseWarnings \cup DelayWarnings
  \cup (IF UsecThrows THEN {} ELSE UsecWarnings)

SanityChecks ==
  /\ Parsing
  /\ warnings' = SanityWarnings
  /\ phase' = IF UsecThrows THEN "threw" ELSE "checked"
  /\ UNCHANGED <<topAttributes, nodes, nodeGlob, edges, destinations>>

-----------------------------------------------------------------------------
(* The application: URLs and payloads.                                       *)

Executed == phase = "checked" /\ warnings = {}

\* GetUrl looks the name and the attributes up without checking for end().
UrlIsDefined(name) == Has(nodes, name) /\ Addressed(nodes[name])

\* The parts of the URL; the default path is the constant "/fidi".
GetUrl(name) ==
  LET list == nodes[name]
  IN  IF Has(list, "url") THEN <<list["url"]>>
      ELSE <<list["hostname"], list["port"]>>
           \o (IF Has(list, "path") THEN <<list["path"]>> ELSE <<>>)

\* The next instance parses node_glob_ + blob: every node rule again, in
\* order, then the one top rule of the blob.
AddRule(table, rule) == NodesWith(table, rule[1], rule[2])
Tables == INSTANCE Recursion WITH Base <- Empty, Step <- AddRule
Replay(glob) == Tables!Fold(glob)

KeepRule(glob, rule) == GlobWith(glob, rule[1], rule[2])
Globs == INSTANCE Recursion WITH Base <- <<>>, Step <- KeepRule
ReplayGlob(glob) == Globs!Fold(glob)

Forward(name) ==
  /\ Executed
  /\ name \in edges
  /\ nodes' = Replay(nodeGlob)
  /\ nodeGlob' = ReplayGlob(nodeGlob)
  /\ topAttributes' = Empty /\ edges' = {} /\ destinations' = {}
  /\ warnings' = {} /\ phase' = "payload"

Next ==
  \/ \E list \in TopLists : HandleTop(list)
  \/ \E name \in Names, list \in NodeLists : HandleNode(name, list)
  \/ \E name \in Names : HandleEdge(name) \/ Forward(name)
  \/ SanityChecks

Spec == Init /\ [][Next]_vars

-----------------------------------------------------------------------------
TypeOK ==
  /\ topAttributes \in TopLists \cup {Empty}
  /\ DOMAIN nodes \subseteq Names
  /\ \A name \in DOMAIN nodes : \A k \in DOMAIN nodes[name] : nodes[name][k] \in Value
  /\ nodeGlob \in BoundedSeq(Names \X NodeLists, MaxNodeRules)
  /\ edges \subseteq Names /\ destinations \subseteq Names
  /\ phase \in {"source", "payload", "checked", "threw"}

\* At every level of the call tree, a request that passed the sanity checks
\* only has edges to nodes whose URL GetUrl can make: neither the name nor an
\* attribute it dereferences is missing, whatever the order and the number of
\* the rules that define the node.
GetUrlIsSafe == Executed => \A name \in edges : UrlIsDefined(name)

\* An attribute of a node, once known, keeps its value, however often the node
\* is defined again and however far the request is forwarded; and the next
\* instance knows no node or attribute that this one does not: all instances
\* agree on where a node is.
FirstDefinitionWins ==
  [][/\ \A name \in DOMAIN nodes : \A k \in DOMAIN nodes[name] :
          Has(nodes', name) /\ Has(nodes'[name], k) /\ nodes'[name][k] = nodes[name][k]
     /\ phase = "checked" /\ phase' = "payload" => nodes' = nodes]_vars

\* No hostname keeps the quotes of the grammar, in whatever rule it came.
HostnamesAreBare ==
  \A name \in DOMAIN nodes :
    Has(nodes[name], "hostname") => nodes[name]["hostname"].kind # "string"

\* The URL of every call is one the HTTP client library can take: it has no
\* double quotes in it.
UrlsAreBare ==
  Executed => \A name \in edges : \A i \in DOMAIN GetUrl(name) : GetUrl(name)[i].kind # "string"
=============================================================================
