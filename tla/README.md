# A TLA+ model of fidi

fidi (φίδι) mocks a service: every instance of `fidi_app` is an HTTP server whose behaviour is
given by the request it gets, including the calls it makes to other instances. `fidi_lint` parses
the same requests and draws their call graph. This directory holds TLA+ models of the code under
`src/`, the TLC configurations that check them and proofs checked by TLAPS.

## Inventory of the system

| Component | Source | State | Operations | Model |
|---|---|---|---|---|
| Downstream calls | `fidi_app_driver.cc` 122-249, `fidi_app_caller.cc` | priority queue of edges, a thread pool per request | the call loop of `Execute`, `AppCaller::runTask` | `FidiExecute` |
| Request handling, node state | `fidi_request_handler.cc`, `fidi_app_driver.cc` 37-40, 102-167, 199-249 | static `healthy_`, `unresponsive_until_`, one mutex | `handleRequest`, `IsResponsive`, `get_health`, `Execute` | `FidiServer` |
| Driver tables, sanity checks | `fidi_driver.cc`, `fidi_driver.h`, `GetUrl` | `nodes_`, `node_glob_`, `top_attributes_`, `edge_attributes_`, `destinations_` | `HandleTop`, `HandleNode`, `HandleEdge`, `SanityChecks`, `GetUrl` | `FidiDriver` |
| Scanner | `fidi_scanner.ll` | start condition, `bracket_count` | `yylex` | `FidiParser` |
| Parser | `fidi_parser.yy` | the parse stack, `nerrors_` | grammar actions, error recovery | `FidiParser` |
| Linter | `fidi_lint.cc`, `fidi_lint_driver.cc`, `Driver::Parse` | a driver per payload, warnings and errors | `main`, `Parse`, `Execute`, `HandleBlob` | `FidiLint` |
| Network of instances | caller, handler, Poco's `HTTPServer` | worker threads and queue of each instance | requests, answers, timeouts, deaths and restarts | `FidiNetwork` |
| Server application | `fidi_server_application.cc`, `fidi_app.cc` | options, loggers, the server | the option callbacks, `initialize`, `main`, `uninitialize` | `FidiLifecycle` |
| Build files, docs | | none | | not modelled: no run-time state |

How they interact. The HTTP server makes a `FidiRequestHandler` for every request, on a worker
thread. The handler has an `AppDriver` of its own: scanner and parser fill its tables through the
`Handle*` callbacks, `SanityChecks` looks them over, `Execute` runs them. `Execute` makes a thread
pool, hands each call to an `AppCaller` task and waits; each call carries all node definitions plus
the payload of its edge, and another instance parses that in the same way. Handlers of one process
share two static members under `health_mtx_`. The linter uses the same driver and runs a new one for every payload, recursively.

What is hard. Handlers, callers and the clock interleave; calls fail or time out at any point; the
pool is bounded; a request takes effect in several steps with exceptions between them; the clock is
read before the lock that protects what it is compared with; the response header leaves before the
request is read. `PROJECT.json` lists the hazards at their lines with the properties that cover them.

What makes each component correct:

* *calls*: the documented order. Same sequence number in parallel, all of them ended before the
  next number starts, every copy made exactly once, nothing left running;
* *node state*: silence during an unresponsive window and only then, health reports that follow
  the order in which requests were answered, both delays, effects only of requests that passed
  the checks, an end to every request;
* *driver*: a request that passes the checks can be executed without dereferencing a missing
  entry, and every instance sees the same nodes;
* *scanner, parser*: a payload ends where its bracket ends; an edge gets the numbers written for it, and
  the documented ones where none are (it does not: see Findings); every syntax error counted;
* *linter*: the same verdict as the instances would reach, summed over all payloads;
* *network*: the synchronisation point holds end to end unless a timeout or a crash breaks it; every
  call comes to an end and gives its worker back;
* *server application*: the exit status says what happened, no message is lost but on connections that
  outlive the server, and a process that is told to stop does.

## Modules

| Module | What it is |
|---|---|
| `EdgeCalls` | the vocabulary of edges and calls: a call `<<e, i>>` is copy `i` of edge `e` |
| `SequencedCalls` | abstract: what the documentation promises about the order of calls |
| `FidiExecute` | the call loop, the pool and the callers; refines `SequencedCalls` |
| `FidiServer` | one process: concurrent handlers, shared node state, time |
| `FidiDriver` | the tables, the sanity checks, URLs and forwarding |
| `FidiParser` | scanner and parser of a request, with error recovery |
| `FidiLint` | the linter: its arguments and the recursion over payloads |
| `FidiNetwork` | instances that call each other; every handler refines `SequencedCalls` |
| `FidiLifecycle` | one process from its command line to its exit status |
| `Recursion` | recursion over sequences and along chains of predecessors, with what can be proved of it |
| `FidiExecuteProofs`, `FidiServerProofs`, `FidiNetworkProofs`, `FidiDriverProofs`, `FidiParserProofs`, `FidiLintProofs`, `FidiLifecycleProofs` | the TLAPS proofs about the module of the same name |
| `MCFidiExecute`, `MCFidiServer`, `MCFidiDriver`, `MCFidiParser`, `MCFidiLint`, `MCFidiNetwork`, `MCFidiLifecycle` | instances for TLC |

Definitions named in a comment beginning with *Mutant* are deliberately wrong variants of the
definition after them. Each shows that a property would notice a plausible mistake in that code.

### FidiExecute

`pc` follows the handler thread through the two while loops and the for loop of `Execute`
(169-197): `sequence` is the outer condition, `group` the inner one, `copies` the for loop, `join`
the call of `joinAll`, `after` the first log message, `thrown` the exit by exception. `queue` is
the priority queue; `Top` is any of its edges with the least sequence number, because
`EdgeComparison` leaves ties open. `started`, `sent`, `answered` and `failed` are sets of calls that record how
far each task is. Poco's `TaskManager` and `ThreadPool` are external and modelled from their use:
`start` takes a thread if fewer than `MaxThreads` are busy and throws otherwise, `joinAll` returns
when none is busy. A caller may fail before or after it sent its request; `runTask` swallows every
`Poco::Exception`, so the task ends in the same way. After an exception the callers that were
started go on.

The values `seqno` and `current` have before the loop are arbitrary; the code declares both inside.

### FidiServer

One action per step of `handleRequest` and of the rest of `Execute`; a section under `health_mtx_`
is one step. `window` is `unresponsive_until_` minus now, so that time needs no bound: `Tick`
lowers it, and it stops at a floor below which comparisons no longer change. `elapsed[r]` counts ticks since the clock read in
`IsResponsive`, which is what `now > limit` needs, and is also the latency of the request. `input[r]` is what the request asks for
and `flaw` what goes wrong in it, if anything; `FidiDriver` and `FidiExecute` are where these flaws come
from (`timeout_usec` from `UsecThrows`, `too_many_calls` from `NoThread`). The call loop is one step
of arbitrary duration, which `FidiExecute`'s `Termination` justifies. The worker pool of the HTTP
server is not limited here, and the body text is left out except for what `/healthz` says.

### FidiDriver

A value keeps its kind (`string` with its quotes, `ident`, `number`) because quotes and `stoi` are
what the code's decisions depend on. The three `Handle*` callbacks may come in any order, as rules
do in a request; `SanityChecks` ends the phase; `Forward` starts the driver of the next instance,
which replays `node_glob_` and then parses one top rule, the payload. Printing a value into the
glob and scanning it again gives the same token: strings keep their quotes, names are names, and
numbers were already printed once by `to_string`. Warnings are kept as a set of
(complaint, subject) pairs instead of a count and a text. The replay is a fold over the glob (`Replay`,
`ReplayGlob`), defined with `Recursion` so that it can be reasoned about. Values with trailing garbage cannot come
from the scanner, which splits them into two tokens, and are left out.

### FidiParser

One action per scanner step and per parser step, with the token at hand in between, as `yylex` and
`parse` call each other. The input is chosen as it is read: a piece is what one scanner rule matches, so a
request is any sequence of pieces, right or wrong, and of any length. Bison's table is the set
`Shifts`: every state of the grammar either reduces without looking ahead or expects certain
tokens, so the parse stack is given by the innermost list and the state of its current element.
Error recovery is that of bison's C++ skeleton (external): cut back to the innermost list, which has an
`error` production; report only if three tokens were shifted since the last error; discard a token that fails twice; give
up at the end of input. `said` is a history variable: the attributes as they were written. It, the
payload and the error counts are the only things that need bounds.

The scanner is the one built with bison 3.2 or later, where it throws `syntax_error`. Characters for
which EDGEDEF has no rule are echoed to standard output and dropped, because flex's default rule was left on (`Skip`): a
stray character between the arrow and the payload is not an error.

### FidiLint

The stack of drivers is the recursion of `Execute` through `HandleBlob`; a request is a tree of
payloads and what is wrong in each is given, because `FidiParser` and `FidiDriver` say where that comes from.
The warnings of a payload include those about nodes, whose definitions are put in front of every
payload: one bad node is therefore reported once for each call. Exceptions of the sanity checks
leave `main`. `-h` and `-v` stand for all arguments `main` takes for help and version, `unreadable`
for a file `Parse` or the scanner cannot read, which ends the process. Each driver's output is a sequence of graph parts; node shapes and the texts of warnings are left out.
The properties speak of the way from the request to a payload (`Way`), the sequence numbers on it (`Label`) and a
sum over all payloads (`AllWarnings`), all three instances of `Recursion`.

### FidiNetwork

What a client's requests lead to is a forest of calls, given as data: call `c` is made by the handler
of call `parent[c]`, goes to instance `node[c]` and has sequence number `seq[c]` among its siblings. The
states of a call are the stations of its connection: `queued` at the server, `running` in a handler,
`answered` or `silent` while the worker keeps the connection, then `ended` or `lost`; `refused` if the
server had no place for it or was not there. `returned` is the caller's side: `runTask` has
ended. It does so for an answer, for an exception and for a timeout (`gaveUp`), and `Execute` cannot tell them
apart. A timeout does not touch the callee: nothing in the handler looks at its client
before the response is flushed.

The call loop is one level of abstraction above `FidiExecute`: a call of a sequence may be made once all of smaller
numbers are over (`Turn`), which `KeepsPromise` justifies as long as the pool is not exhausted;
`HandlersKeepPromise` shows that the abstraction is still `SequencedCalls` for every handler. Poco's
server (a queue of connections, a bounded number of workers, connections that are kept alive) and the death
and restart of instances are external. When an instance dies all its handlers and their
callers do, while the requests these sent stay alive at other instances.

The guards of what an instance does by itself have names of their own (`CanCall`, `CanPickUp`, `CanFinish`,
`CanReturn`), and `CanServe(n)` puts them together: it says that `Serve(n)` is enabled, in a form the prover can work with.

`Broken(c)` says that the caller of `c` was let go early. `NothingLeftBehind` and `EndToEndOrder` say that this is the
only way in which work outlives the answer to the request it belongs to, at any depth; this is how far the
documented synchronisation point reaches. `StallNeedsFullPool` and `EndsUnaided` say what
requests that call back into an instance need in order not to block it: a worker more than the calls it
gets that make calls themselves (`EnoughWorkers`).

### FidiLifecycle

The main thread goes through the options, `initialize`, `main` and `uninitialize`; `pc` is where it is.
`world` is what it finds: the command line, the kinds of the log directories (for `lstat`, `access` and
`FileChannel`), and ports in use. `initialize` is one step because nothing else runs before `start`.

`conn` says where the worker is that has a connection. Connections are taken up (`Accept`) while the server runs.
Poco's `stop()` ends that and drops what waits in the dispatcher's queue, but it does not touch a worker that has a
connection: that goes on reading requests from it and making a handler for each (`TakeUp`), after `stop()` and after
`Logger::shutdown`, until the connection is closed (`End`, `HangUp`) or the process exits. `late` therefore has every
connection that is open when `stop()` returns, also those between two requests. A handler (with its callers) logs:
fetching a logger and using it are two steps, between which `Logger::shutdown` may destroy it. Using it then is undefined:
the message is lost or the process dies. A logger that is fetched after the shutdown has no channel. `logged` is what the
main thread says on the console, whose logger takes information messages. The queue of connections is `FidiNetwork`'s.
`ExitAsAsked` compares the exit status with a definition that looks at the whole command line at once. It says nothing
of `--help` while another program has the port: the manual (`docs/fidi_app.1`:73-77) knows of no failure there, the code
exits with `EXIT_SOFTWARE`.

## Runs

| Run | Bounds | What it shows |
|---|---|---|
| `execute` | 3 edges, repeat 0 or 2, sequence 0 or 1, 3 threads | `LoopInvariant` (types included), `SequencePoint`, `AllCallsMade`, `ExhaustionNeedsBigGroup`, `Termination`, `GroupStartsUnaided`, and that the loop implements `SequencedCalls` (`KeepsPromise`) |
| `server` | 3 requests out of 9 kinds, delays and windows of up to 2 ticks, clock read up to 1 tick old | `SilentWhileUnresponsive`, `DroppedForAReason`, `HealthInOrder`, `HealthChangesLast`, `LatencyAtLeastDelays`, `HandlersGetOn` |
| `server_status` (violation) | 1 request | the status set is not the status sent |
| `driver` | 2 names, 6 attribute lists, 3 node rules, 7 top lists, any depth | `GetUrlIsSafe`, `FirstDefinitionWins`, `HostnamesAreBare` |
| `driver_url` (violation) | the same, 2 node rules | a URL keeps its double quotes |
| `parser` | requests of any length; payloads of 4 pieces, 2 attributes per edge, numbers 0 and 2, errors counted to 1 | `PayloadIsOneGroup`, `ModesAgree`, `EdgeAttrAsWritten`, `ErrorsAreCounted`, `ParsingEnds` |
| `parser_comment` (violation) | the same, payloads of 5 pieces | a bracket in a comment moves the end of the payload |
| `parser_default` (violation) | the same, payloads of 1 piece, 1 attribute | an edge without a sequence number is not in sequence 1 |
| `lint` | all command lines, all trees of up to 3 payloads, 2 sequence numbers, 0 or 1 warnings each | `EveryCallDrawn`, `DrawnInCallOrder`, `WarningsAddUp`, `GraphIsWhole` |
| `lint_exit` (violation) | trees of up to 2 payloads | a syntax error in a payload does not change the exit code |
| `network` | 2 instances with 2 workers and a queue of 2, forests of 4 calls of five shapes, 1 crash | `NothingLeftBehind`, `EndToEndOrder`, `StallNeedsFullPool`, `HandlersKeepPromise`, `EveryCallEnds`, `EndsUnaided` |
| `lifecycle` | command lines of up to 3 of 8 options, 2 ports, 6 kinds of log directory, 2 connections with any number of requests | `ExitAsAsked`, `LogComplete`, `ShutdownEnds` |

Why the bounds are enough. Two sequence numbers and three edges give a sequence with several edges,
one edge with several copies, and a successor to each; three threads are fewer than the largest
group of six, so the pool is exhausted in some behaviours and not in others. Three requests give a
writer of the health, a second writer and a check, or a window, a second window and a request that
meets both; a clock read that is one tick old is enough to be on the other side of the limit. Three
node rules for two names allow a definition, a redefinition and an unrelated node. Four pieces are a
payload with a nested one and something in between; two attributes are one of each kind in either order, or the
same twice. The error counters matter only as zero or not. Three payloads below the request are a
call inside a call next to another call. In the network, two requests that both call back fill the two workers of an instance; a group
of three overflows its queue; a sequence with a call below its first one is the least that shows work left behind two levels up,
and one crash separates a caller from its callee. Three options are a help or an error with something before and behind it.

`CHECK_DEADLOCK FALSE` is set for `FidiServer`, where all clients may have been served, for
`FidiDriver`, where a refused request is the end, for `FidiNetwork` and `FidiLifecycle`, which end with their calls and the process, and for `FidiParser` and `FidiLint`, which end with their input. `FidiExecute` has an explicit step, `Stop`, for
its end and is checked for deadlock.

Fairness. `HandlerSpec` is weakly fair to the handler thread alone, which the operating system
justifies. `Termination` also assumes, as its hypothesis, that some caller always takes a step while
one can: each socket operation has a timeout, the one the request gives or the default of Poco's
client session. `FidiServer` needs no fairness: `HandlersGetOn` says, as a safety property, that a handler
always sleeps or has a step to take, and that each step and each tick of a sleep brings it nearer to its end. `FairSpec` of `FidiParser` is weakly fair to the parser and strongly fair to
the end of the input, because every request is finite. `FairSpec` of `FidiNetwork` is weakly fair to each
instance and to the client that reads its answers; timeouts are a hypothesis of `EveryCallEnds` (every session has one,
60 seconds if the request gives none), and not assumed by `EndsUnaided`; an instance that died need not come
back. `FairSpec` of `FidiLifecycle` is weakly fair to the main thread only: handlers may hang for ever, and signals need not come.

## Findings

* The HTTP status is set after the header was sent; clients always see 200 (`server_status`).
* `url` and `path` attributes keep the quotes they have to be written with (`driver_url`).
* A bracket inside a comment of a payload counts like any other (`parser_comment`).
* An edge without a sequence number gets 0, and is called before those of sequence 1, which the manual says is the
  default (`parser_default`). The repetition count starts as 0 too, but `Execute` makes that 1.
* `fidi_lint` exits with success when only a payload has syntax errors (`lint_exit`).

Seen in the model and not given a run: a repetition count above the maximum of the thread pool makes
`tm.start` throw and drops the rest of the request (`ExhaustionNeedsBigGroup` says when); the calls of a node named
`Source` begin a second graph within the first (`Preamble` of `FidiLint`); `fidi_app --help` fails if its port is in use, because the socket is
bound first, while the manual (`docs/fidi_app.1`:73-77) only says that it shows a summary and exits (`BindThrows` of `FidiLifecycle`; `ExitAsAsked` leaves this case open); a log directory given as a symbolic link is refused
(`NoLogDir`); the file logger takes every message from debug on, where `fidi_server_application.h`:101-102 says
that it only gets warnings.

## Proofs

Every invariant and every action property that a passing run checks is proved for all values of the constants; what
remains for TLC alone is liveness and `ENABLED`. The only assumptions are the named ones of each module; TLC evaluates them in every run.
Each proof module states its inductive invariant, shows action by action that it is kept, and ends with the theorems.

**Recursion** has the tools for recursion over data. A chain of predecessors is followed by a recursive function, which
exists because every number below its length has one up to it (`GivenExists`), and `ChainStep` gives its equations;
`FoldEmpty`, `FoldAppend` and `FoldKeeps` say the same of folds. `StrongInduction` and `StepInduction` are induction for
sets of numbers, from the well-foundedness of strict inclusion on finite sets (`LeastElement`). The start and the step
are constants of the module, not parameters of the theorems, so that the theorems of an instance can be cited.

**FidiExecuteProofs**, for every finite set of edges, all integer repetition and sequence numbers and
every positive pool size:

* `LoopInvariantHolds`: `Spec => []LoopInvariant`. The properties are not inductive by themselves:
  that the sequence point holds after a call is started depends on which edges have left the queue,
  which of the queued ones has copies started, and whose tasks are running. `LoopInvariant` says just that: popped
  edges have all their copies started; of the queued edges only the current one has some, those
  below `copy`; the queue holds nothing smaller than what was started; running tasks belong to the
  sequence number of the loop. One lemma per part shows that each action keeps it.
* `TypeCorrect`, `SequencePointHolds`, `AllCallsMadeHolds`: consequences of the invariant.
* `ExhaustionHolds`: at the throw the running tasks and the copy at hand are different calls of one
  group, whose cardinality therefore exceeds the pool. This needs the group to be finite
  (`CallsFinite`).
* `PromiseKept`: every step of the loop is a `Make`, a `Finish` or a stutter of `SequencedCalls`.
* `LeftDecreases`, `NeverStuckHolds`: the two halves of termination that need no fairness. `Left` counts five steps
  for each edge in the queue, the place in the round, and three for each call (start, send, end); every step lowers it. That a round
  without an edge to pop cannot come up is why a sequence that has begun counts less (`Place`). Until the end the handler
  can go on or a task is running; that the queue then has a top is `SomeOnTop`.

**FidiServerProofs**, for any set of requests and all inputs, delays, windows and stalls:

* `TypeCorrect`, with the bounds of timers and elapsed times that keep the model of time exact.
* `Silence` (`SilentWhileUnresponsive`) is an action property and follows from the type invariant: what
  a handler compares is the limit under the lock with a clock read earlier, which can only be smaller.
* `DroppedForAReasonHolds`: the strengthening is `WindowHasOpener`: the limit is in the future, or was when a handler
  read the clock, only if a request that passed the parser and the checks has opened a window.
* `LatencyHolds` and `HealthChangesLastHolds`: for each place in the handler, what it has behind it, and how much of
  the two delays is over or still on the timer (`Progress`).
* `HealthInOrderHolds`: the flag is what a setter gave that no other setter came after (`FlagIsLastGiven`), with what
  the history variable `before` says of requests that were answered (`Order`).
* `HandlersCountDownHolds`: a handler is ready for its next step or asleep, never waiting for another (the lock is taken and
  released within a step), and `Left(r)`, at most eight steps plus the ticks of the two delays, falls with its steps and
  the ticks of its sleeps. No step of another request raises it.

**FidiNetworkProofs**, for every forest of calls, any number of instances, and any limits on workers, queues and crashes:

* `TypeCorrect`. It needs that no connection is twice in a queue (`TypeInv`): otherwise taking up the head would
  leave a second entry that is not `queued`.
* `NothingLeftBehindHolds`, `EndToEndOrderHolds`. Both are about paths of any length, so the invariant is about single edges
  of the forest: `Bond(k)` says that while call `k` is pending its caller is there or gave it up, and that
  callers returned for everything with a smaller number. `BrokenOnTheWay` lifts this to paths without induction: the
  calls above `k` are the least set that is closed under `Parent` (`Above`); if no bond on the way were broken, the
  calls that are still pending would be such a set without the answered one.
* `PromisesKept`: for every handler, making a call is a `Make` and returning from one, or timing out, a `Finish` of
  `SequencedCalls`; everything else, crashes included, is a stutter.

* `StallNeedsFullPoolHolds`. In a stall a handler that runs waits for one of its calls, one with the smallest number that
  has not returned (`StuckHandler`), and the pending call with the largest index has no pending call below it, so it is in a
  queue (`StallAtFullPool`). `QueuesInv` supplies that what is `queued` is in the queue of an instance that is up.
* `NoStallHolds`: with `EnoughWorkers` such a full pool would be a larger set than the calls that could fill it. This is the
  safety half of `EndsUnaided`.
* `CallsGoForwardHolds`, `AlwaysAWayOnHolds`: the safety half of `EveryCallEnds`, where timeouts help. Every step takes a call on
  its way from idle to its end, returns from one, or uses up a crash or an instance that is down, and nothing
  goes back (`UsedUp`, `NothingRegained`; one lemma for the steps of calls, one for those of instances). Until all
  is quiet a thread can go on or a call waits whose timeout lets its caller go on: a stall
  holds such a call (`StuckHandler`).

**FidiDriverProofs**, for every set of names and attribute lists, and any number of rules:

* `GetUrlIsSafeHolds`, from `ChecksStand` (once the checks are over nothing they looked at changes, and every edge is among
  the destinations).
* `TypeCorrect` (with `Replayed`), `HostnamesAreBareHolds`, `FirstDefinitionWinsHolds`. What `Forward` does to the tables depends on the whole
  glob; the invariant `Replayed` says that replaying it gives the tables, and the glob, a driver already has. It is kept
  because one more rule is one more step of both folds (`ReplayOneMore`). Forwarding therefore changes nothing that the
  properties look at, and a rule only adds what is not there (`Kept`).

**FidiParserProofs**, for requests, payloads and attribute lists of any length: `TypeCorrect`,
`PayloadIsOneGroupHolds`, `EdgeAttrAsWrittenHolds`, `NothingCarriedOverHolds`, `ModesAgreeHolds` and `ErrorsAreCountedHolds`. The invariant relates
`bracket_count` to the brackets of the payload so far, with no prefix of it closing more than it opens (`Bracketing`), says that a complete
payload waits as the token at hand until it is shifted or discarded (`Waiting`), that the edge's pair holds what was
written for it and nothing else (`Attributes`, `OnlyWritten`), and by which token the scanner is ahead of the grammar (`Modes`). `ShiftFacts` collects what the
table of the automaton contributes. That the bounds of the run are large enough is therefore not an assumption for these properties.
`TokensUsedUpHolds` is about the loop of error recovery: each step with a token at hand lowers `Tries`, which is at most
two, so a token is shifted, discarded or ends the parse after at most one retry.

**FidiLintProofs**, for requests of any shape and depth: `TypeCorrect` and `GraphIsWholeHolds`, from the nesting of the drivers
(`Stacked`): only the driver at the bottom parses payload 0, so only one preamble and one end are written. A second invariant
(`Progress`) leads to the rest:

* `EveryCallDrawnHolds`: what is not drawn although its parent is waits in the queue of the driver that parses its parent
  (`NoneLost`), and drivers wait only for what is not drawn (`AllWait`). At the end nothing waits, so by induction over the
  payloads everything is drawn (`AllDrawn`).
* `DrawnInCallOrderHolds`: whatever is drawn may precede every call that waits (`AllWait`). A call that is taken passes this on to
  the calls of its payload, because ways are chains of parents (`WaysAreChains`, `PrecedesChild`), and the calls left behind have
  no smaller number (`PrecedesRest`).
* `WarningsAddUpHolds`: the warnings the drivers at work hold add up to those of the payloads drawn (`Working`). Drawing one
  adds its own to both sums (`SumWithOneMore`, `LoadOfTop`), and handing them up changes neither.
* `LeftDecreases`, `CanGoOnHolds`: the recursion ends on every request. Each payload not drawn counts two, each driver one.

**FidiLifecycleProofs**, for command lines of any length, every surrounding and any number of connections: `TypeCorrect`,
`ExitAsAskedHolds`, `LogCompleteHolds`. The invariant says that while options are processed everything so far was good
and the fields hold the values given last (`Processing`), and afterwards that the application knows what the command line as a whole means
(`Settled`); `Decided` shows that the first option that ends the processing decides for the whole line. `Surroundings` and
`Requesting` say what there is at each place of the main thread, in particular that no message is lost before `stop()` has
returned, and that every connection that is open afterwards was open then. `MainCountsDownHolds`: the options left and the places ahead
fall with every step of the main thread and with the signal; workers change neither, and the main thread never waits
for one of them.

Only model-checked: liveness under fairness and `ENABLED`, which the prover does not handle. These are `Termination`,
`GroupStartsUnaided`, `ParsingEnds`, `EveryCallEnds`, `EndsUnaided`, `ShutdownEnds` and half of `HandlersGetOn`. What they say
without fairness is proved for all constants, except for `GroupStartsUnaided`:

| Property | Proved about it |
|---|---|
| `Termination` | `LeftDecreases`, `NeverStuckHolds` |
| `HandlersGetOn` | `HandlersCountDownHolds`: its action property, and that a handler sleeps or the guard of a next step holds (`Ready`) |
| `ParsingEnds` | `TokensUsedUpHolds`, for each token; that tokens come to an end is the finite input |
| `EveryCallEnds` | `CallsGoForwardHolds`, `AlwaysAWayOnHolds` |
| `EndsUnaided` | `NoStallHolds` |
| `ShutdownEnds` | `MainCountsDownHolds` |

What the runs add is that the fairness of the specifications lets these steps happen. The linter has no fairness and
no liveness run; `LeftDecreases` and `CanGoOnHolds` are all there is to say.

## Not modelled

* Build files and documentation: no run-time state.
* `--daemon`, `--umask`, `--pidfile` and configuration files of Poco's base class.
* The texts of messages and responses, and the layout of the graph.
* Allocation failures (`std::bad_alloc` in `ParseHelper`).

## Plan

All components with run-time state are modelled, and the properties within the prover's reach are proved. What could
be added: one refinement that puts `FidiExecute`'s loop under each handler of `FidiNetwork`, instead of the two that share
`SequencedCalls`; more than one crash and trees of five calls, which need a state space about ten times as large.
