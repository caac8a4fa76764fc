------------------------------ MODULE FidiLint ------------------------------
(****************************************************************************)
(* The linter.  It parses the request, runs the sanity checks and draws the  *)
(* graph of the calls; for the payload of every call it does the same with a *)
(* driver of its own, to any depth.  The drivers that are at work are the    *)
(* stack of the recursion between Execute and HandleBlob.                    *)
(*                                                                           *)
(* A request is a tree of payloads, with payload 0 as the request itself.    *)
(* What is wrong in each of them is an input: the parser and the sanity      *)
(* checks that find it are FidiParser and FidiDriver.                        *)
(****************************************************************************)
EXTENDS Integers, SequencesExt

CONSTANTS Trees,        \* the requests
          CommandLines  \* the arguments: files, or options

\* parent: the payload a payload is in, which comes before it; seq: the sequence
\* number of its call; warns: the number of warnings of the sanity checks;
\* syntax: the payloads with syntax errors; throws: those whose timeout makes
\* SanityChecks throw; sources: those sent to a node with the name "Source".
IsRequest(t) ==
  LET n == Len(t.parent) IN
    /\ t.parent \in Seq(Nat)
    /\ \A e \in 1 .. n : t.parent[e] \in 0 .. e - 1
    /\ t.seq \in [1 .. n -> Int]
    /\ t.warns \in [0 .. n -> Nat]
    /\ t.syntax \cup t.throws \subseteq 0 .. n /\ t.sources \subseteq 1 .. n

ASSUME TreeAssumption == \A t \in Trees : IsRequest(t)

VARIABLES
  argv,   \* the arguments of main
  tree,   \* the request
  stack,  \* the drivers at work, the one of the request itself first
  graph,  \* what was written to the output stream
  phase   \* start, execute, done, helped, refused, or crashed: an exception left main

input == <<argv, tree>>
vars == <<input, stack, graph, phase>>

Payloads == 0 .. Len(tree.parent)

Edges(e) == {c \in Payloads \ {0} : tree.parent[c] = e}

Init == /\ argv \in CommandLines /\ tree \in Trees
        /\ stack = <<>> /\ graph = <<>> /\ phase = "start"

-----------------------------------------------------------------------------
\* Mutant: the end of the graph is written by the drivers that make no calls.
PreambleForLeaves(e) == Edges(e) = {}

\* The driver's caller_ is "Source".
Preamble(e) == e = 0 \/ tree.parent[e] \in tree.sources

\* A new driver on top of the drivers below parses payload e and begins its
\* Execute: sanity checks, the preamble if it is due, and the edge of the call
\* with its label.  An exception goes through all drivers and through main.
Begin(e, label, below) ==
  IF e \in tree.throws
    THEN phase' = "crashed" /\ stack' = <<>> /\ UNCHANGED graph
    ELSE /\ phase' = "execute"
         /\ stack' = Append(below, [payload |-> e, label |-> label, edges |-> Edges(e),
                                    warnings |-> tree.warns[e]])
         /\ graph' = graph \o (IF Preamble(e) THEN <<[item |-> "digraph"]>> ELSE <<>>)
                           \o <<[item |-> "edge", to |-> e, label |-> label]>>

\* Parse exits if the file cannot be opened; main before if it is not there.
CannotRead(arg) == arg \in {"missing", "unreadable"}

\* Help or the version is printed.
Help ==
  /\ phase = "start" /\ argv \in {<<"-h">>, <<"-v">>}
  /\ phase' = "helped" /\ UNCHANGED <<input, stack, graph>>

\* More than one argument, or a file that cannot be read.
Refuse ==
  /\ phase = "start"
  /\ Len(argv) > 1 \/ (Len(argv) = 1 /\ CannotRead(argv[1]))
  /\ phase' = "refused" /\ UNCHANGED <<input, stack, graph>>

\* main parses the file, or the standard input if there is no argument or one
\* that begins with "-"; whatever came of that, it executes the request.
Main ==
  /\ phase = "start"
  /\ argv = <<>> \/ (Len(argv) = 1 /\ ~CannotRead(argv[1]) /\ argv[1] \notin {"-h", "-v"})
  /\ Begin(0, <<1>>, <<>>)
  /\ UNCHANGED input

Driver == Last(stack)

\* Mutant: the edge with the largest sequence number is on top.
TopLargest(edges) == {e \in edges : \A other \in edges : tree.seq[other] <= tree.seq[e]}

\* edge_attributes_.top(): edges with the same number come in any order.
Top(edges) == {e \in edges : \A other \in edges : tree.seq[e] <= tree.seq[other]}

\* Mutant: the label goes on from the edge drawn last.
NewSequenceRunning(e) == Append(Last(graph).label, tree.seq[e])

\* The label of an edge: the sequence numbers that lead to it.
NewSequence(e) == Append(Driver.label, tree.seq[e])

\* Mutant: the edge is not popped.
HandleBlobStays ==
  /\ phase = "execute"
  /\ \E e \in Top(Driver.edges) : Begin(e, NewSequence(e), stack)
  /\ UNCHANGED input

\* HandleBlob is called with the top edge.  The code pops the edge when
\* HandleBlob is back; nothing looks at the queue of this driver before.
HandleBlob ==
  /\ phase = "execute"
  /\ \E e \in Top(Driver.edges) :
       Begin(e, NewSequence(e), [stack EXCEPT ![Len(stack)].edges = @ \ {e}])
  /\ UNCHANGED input

\* Mutant: the warnings of a payload replace those of its caller.
TotalOfLast(below) == [below EXCEPT ![Len(below)].warnings = Driver.warnings]

\* The caller adds what get_warnings returns to its own.
TotalOf(below) == [below EXCEPT ![Len(below)].warnings = @ + Driver.warnings]

\* A driver with no edges left closes the graph, if it opened it, and returns.
Return ==
  /\ phase = "execute"
  /\ Driver.edges = {}
  /\ graph' = IF Preamble(Driver.payload) THEN Append(graph, [item |-> "}"]) ELSE graph
  /\ IF Len(stack) > 1 THEN stack' = TotalOf(Front(stack)) /\ UNCHANGED phase
                       ELSE phase' = "done" /\ UNCHANGED stack
  /\ UNCHANGED input

\* The errors ParseHelper counts stay in the driver that parsed the payload.
SyntaxErrors(e) == e \in tree.syntax

\* The exit code: the syntax errors counted by the driver main made.
ExitFailure == phase \in {"crashed", "refused"} \/ (phase = "done" /\ SyntaxErrors(0))

Next == Help \/ Refuse \/ Main \/ HandleBlob \/ Return

Spec == Init /\ [][Next]_vars

-----------------------------------------------------------------------------
(* Properties.                                                               *)

\* The label of each payload of a request: the sequence numbers of the calls
\* from the request to it.
Labels == INSTANCE Recursion WITH Base <- <<1>>, Step <- Append
Label == [t \in Trees |-> Labels!Chain(t.seq, t.parent)]

\* The way to each payload of a request: those it is in, and itself.
Join(way, e) == way \cup {e}
Ways == INSTANCE Recursion WITH Base <- {0}, Step <- Join
Way == [t \in Trees |-> Ways!Chain([e \in 1 .. Len(t.parent) |-> e], t.parent)]

\* The sum of a sequence of numbers, and of the warnings of all payloads.
Plus(m, n) == m + n
Sums == INSTANCE Recursion WITH Base <- 0, Step <- Plus
AllWarnings == Sums!Fold([k \in 1 .. Len(tree.parent) + 1 |-> tree.warns[k - 1]])

TypeOK ==
  /\ argv \in CommandLines /\ tree \in Trees
  /\ phase \in {"start", "helped", "refused", "execute", "done", "crashed"}
  /\ \A i \in DOMAIN stack :
       /\ stack[i].payload \in Payloads
       /\ stack[i].label \in Seq(Int) /\ stack[i].warnings \in Nat
       /\ i > 1 => stack[i].payload \in Edges(stack[i - 1].payload) \ stack[i - 1].edges

IsItem(i, name) == graph[i].item = name

\* Every call of every payload is drawn once, and every label spells the way
\* from the request to its call, whatever was drawn in between.
EveryCallDrawn ==
  /\ \A i \in DOMAIN graph : IsItem(i, "edge") =>
       /\ graph[i].label = Label[tree][graph[i].to]
       /\ \A j \in 1 .. i - 1 : IsItem(j, "edge") => graph[j].to # graph[i].to
  /\ phase = "done" =>
       \A e \in Payloads : \E i \in DOMAIN graph : IsItem(i, "edge") /\ graph[i].to = e

\* d may be drawn before e: e is not among the payloads d is in, and where the
\* ways to d and to e part, the call on the way to d has not the larger number.
InOrder(a, b) == tree.parent[a] = tree.parent[b] /\ a # b => tree.seq[a] <= tree.seq[b]
MayPrecede(d, e) ==
  /\ e \notin Way[tree][d]
  /\ \A a \in Way[tree][d] \ {0} : \A b \in Way[tree][e] \ {0} : InOrder(a, b)

\* The graph follows the order of the calls at every depth: all that is under a
\* call is drawn before anything under one with a larger number of the same
\* payload, and a payload is drawn behind those it is in.
DrawnInCallOrder ==
  \A i \in DOMAIN graph : \A j \in 1 .. i - 1 :
    IsItem(i, "edge") /\ IsItem(j, "edge") => MayPrecede(graph[j].to, graph[i].to)

\* The linter reports the sanity warnings of all payloads at every depth, none
\* of them lost or counted twice while the drivers hand them up.
WarningsAddUp == phase = "done" => stack[1].warnings = AllWarnings

\* What is drawn is one graph: everything is between the one beginning and the
\* one end.  A node that is called Source breaks this, because its calls look
\* like the request's own to Preamble.
GraphIsWhole ==
  tree.sources = {} =>
    \A i \in DOMAIN graph :
      /\ IsItem(i, "digraph") <=> i = 1
      /\ IsItem(i, "}") <=> (phase = "done" /\ i = Len(graph))

\* Claim of lint_driver.h:48-51: "the execute method also recursively creates
\* parser drivers for each of the payloads for the calls in the request, and
\* appends the errors and warnings to the top level list."
ErrorsReachTheTop == phase = "done" => (ExitFailure <=> tree.syntax # {})
=============================================================================
